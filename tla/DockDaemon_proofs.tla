-------------------------- MODULE DockDaemon_proofs --------------------------
(***************************************************************************)
(* Proofs about DockDaemon, for every set of docks and every bound.        *)
(***************************************************************************)
EXTENDS DockDaemon, TLAPS

\* What a step leaves alone keeps its type.
LEMMA Frame ==
    ASSUME TypeOK
    PROVE  /\ UNCHANGED envVars => EnvTypes'
           /\ UNCHANGED faults => FaultTypes'
           /\ UNCHANGED queue => QueueTypes'
           /\ UNCHANGED kernVars => KernTypes'
           /\ UNCHANGED sharedVars => SharedTypes'
           /\ UNCHANGED sem => SemTypes'
           /\ UNCHANGED hidVars => HidTypes'
           /\ UNCHANGED uVars => UeventTypes'
           /\ UNCHANGED <<ident, fresh>> => IdentTypes'
           /\ UNCHANGED dVars => DaemonTypes' /\ StepTypes' /\ RetryTypes'
           /\ UNCHANGED commVars => IdentTypes'
<1> USE DEF TypeOK
<1>1. UNCHANGED envVars => EnvTypes'
  BY DEF EnvTypes, envVars
<1>2. UNCHANGED faults => FaultTypes'
  BY DEF FaultTypes
<1>3. UNCHANGED queue => QueueTypes'
  BY DEF QueueTypes
<1>4. UNCHANGED kernVars => KernTypes'
  BY DEF KernTypes, kernVars
<1>5. UNCHANGED sharedVars => SharedTypes'
  BY DEF SharedTypes, sharedVars
<1>6. UNCHANGED sem => SemTypes'
  BY DEF SemTypes
<1>7. UNCHANGED hidVars => HidTypes'
  BY DEF HidTypes, hidVars
<1>8. UNCHANGED uVars => UeventTypes'
  BY DEF UeventTypes, uVars
<1>9. UNCHANGED <<ident, fresh>> => IdentTypes'
  BY DEF IdentTypes
<1>10. UNCHANGED dVars => DaemonTypes' /\ StepTypes' /\ RetryTypes'
  BY DEF DaemonTypes, StepTypes, RetryTypes, dVars, commVars, callVars
<1>11. UNCHANGED commVars => IdentTypes'
  BY DEF IdentTypes, commVars
<1> QED
  BY <1>1, <1>2, <1>3, <1>4, <1>5, <1>6, <1>7, <1>8, <1>9, <1>10, <1>11

\* What the retry counters need to know of their limits.
LEMMA Limits ==
    /\ MAX_TRY_COMM \in Nat /\ MAX_TRY_COMM >= 1
    /\ MAX_TRY_WAKEUP \in Nat /\ MAX_TRY_WAKEUP >= 1
    /\ MAX_TRY_IOCTL \in Nat /\ MAX_TRY_IOCTL >= 1
BY BoundAssumption

\* The steps of the uevent thread keep the types.
LEMMA UeventTypeCorrect ==
    ASSUME TypeOK, UeventThread
    PROVE  TypeOK'
<1>1. /\ EnvTypes' /\ KernTypes' /\ IdentTypes'
      /\ DaemonTypes' /\ StepTypes' /\ RetryTypes'
  BY Frame DEF UeventThread, dVars, commVars
<1>2. /\ FaultTypes' /\ QueueTypes' /\ SharedTypes' /\ SemTypes'
      /\ HidTypes' /\ UeventTypes'
  <2> USE Frame DEF TypeOK
  <2>1. CASE UBind
    BY <2>1 DEF UBind, UeventTypes, UeventPCs, uVars, sharedVars, hidVars
  <2>2. CASE UReadSwitch
    BY <2>2 DEF UReadSwitch, FaultTypes, FaultKinds, UeventTypes, UeventPCs,
       uVars, sharedVars, hidVars
  <2>3. CASE USetState
    BY <2>3 DEF USetState, SharedTypes, GlobalStates, UeventTypes, UeventPCs,
       uVars, sharedVars, hidVars
  <2>4. CASE USetProtocol
    BY <2>4 DEF USetProtocol, SharedTypes, Protocols, UeventTypes, UeventPCs,
       uVars, sharedVars, hidVars
  <2>5. CASE UOpenHid
    <3>1. ASSUME NEW f \in FreeFds, hidFd' = f, hidIdx < HIDRAW_MAX_DEVICES,
                 NodeExists(hidIdx),
                 fds' = [g \in DOMAIN fds \cup {f} |->
                           IF g = f THEN NodeDevice(hidIdx) ELSE fds[g]]
          PROVE  HidTypes'
      <4>1. PICK open \in SUBSET (1..MaxFd) :
              fds \in [open -> HidDevices]
        BY DEF HidTypes
      <4>2. NodeDevice(hidIdx) \in HidDevices
        BY <3>1 DEF HidDevices, NodeDevice, NodeExists, EnvTypes, UeventTypes
      <4>3. fds' \in [open \cup {f} -> HidDevices]
        BY <3>1, <4>1, <4>2
      <4> QED BY <3>1, <4>3 DEF FreeFds, HidTypes
    <3>2. hidFd' = -1 /\ UNCHANGED fds => HidTypes'
      BY DEF HidTypes
    <3>3. HidTypes'
      BY <2>5, <3>1, <3>2 DEF UOpenHid
    <3>4. UeventTypes'
      BY <2>5 DEF UOpenHid, UeventTypes, UeventPCs
    <3> QED BY <2>5, <3>3, <3>4 DEF UOpenHid, sharedVars
  <2>6. CASE UCheckHid
    BY <2>6 DEF UCheckHid, UeventTypes, UeventPCs, uVars, sharedVars, hidVars
  <2>7. CASE UPost
    BY <2>7 DEF UPost, SemTypes, UeventTypes, UeventPCs, Protocols, uVars,
       sharedVars, hidVars
  <2>8. CASE UReceive
    BY <2>8 DEF UReceive, QueueTypes, UeventTypes, UeventPCs, Protocols,
       uVars, sharedVars, hidVars
  <2> QED
    BY <2>1, <2>2, <2>3, <2>4, <2>5, <2>6, <2>7, <2>8 DEF UeventThread
<1> QED BY <1>1, <1>2 DEF TypeOK

\* The steps of an attempt to identify the dock keep the types.
LEMMA AttemptTypeCorrect ==
    ASSUME TypeOK, Attempt
    PROVE  /\ FaultTypes' /\ KernTypes' /\ SharedTypes' /\ SemTypes'
           /\ HidTypes' /\ IdentTypes'
           /\ DaemonTypes' /\ StepTypes' /\ RetryTypes'
<1> USE DEF TypeOK
<1>1. KernTypes' /\ SemTypes' /\ HidTypes'
  BY Frame DEF Attempt
<1>2. /\ FaultTypes' /\ SharedTypes' /\ IdentTypes'
      /\ DaemonTypes' /\ StepTypes' /\ RetryTypes'
  <2>0. UNCHANGED <<globalProtocol, tryComm, wakeLock, req, tries>>
    BY DEF Attempt, callVars
  <2> USE <2>0
  <2>1. CASE DOpenChannel
    <3>1. FaultTypes' /\ SharedTypes' /\ IdentTypes'
      BY <2>1, Frame DEF DOpenChannel, CommFails, FaultTypes, FaultKinds,
         sharedVars
    <3>2. DaemonTypes'
      BY <2>1 DEF DOpenChannel, DaemonTypes, DaemonPCs
    <3>3. StepTypes'
      BY <2>1 DEF DOpenChannel, StepTypes, HidSteps, UartSteps
    <3>4. RetryTypes'
      BY <2>1, Limits DEF DOpenChannel, CommFails, RetryTypes
    <3> QED BY <3>1, <3>2, <3>3, <3>4
  <2>2. CASE DWakeup
    <3>1. FaultTypes' /\ SharedTypes' /\ IdentTypes'
      BY <2>2, Frame DEF DWakeup, CommFails, FaultTypes, FaultKinds,
         sharedVars
    <3>2. DaemonTypes'
      BY <2>2 DEF DWakeup, DaemonTypes, DaemonPCs
    <3>3. StepTypes'
      BY <2>2 DEF DWakeup, StepTypes, HidSteps, UartSteps
    <3>4. RetryTypes'
      BY <2>2, Limits DEF DWakeup, RetryTypes
    <3> QED BY <3>1, <3>2, <3>3, <3>4
  <2>3. CASE DWakeCheck
    <3>1. FaultTypes' /\ SharedTypes' /\ IdentTypes'
      BY <2>3, Frame DEF DWakeCheck, sharedVars
    <3>2. DaemonTypes'
      BY <2>3 DEF DWakeCheck, DaemonTypes, DaemonPCs
    <3>3. StepTypes'
      BY <2>3 DEF DWakeCheck, StepTypes, HidSteps, UartSteps
    <3>4. RetryTypes'
      BY <2>3, Limits DEF DWakeCheck, RetryTypes
    <3> QED BY <3>1, <3>2, <3>3, <3>4
  <2>4. CASE DGuard
    <3>1. FaultTypes' /\ SharedTypes' /\ IdentTypes'
      BY <2>4, Frame DEF DGuard, commVars, sharedVars
    <3>2. DaemonTypes'
      BY <2>4 DEF DGuard, DaemonTypes, DaemonPCs, commVars
    <3>3. StepTypes'
      BY <2>4 DEF DGuard, StepTypes, HidSteps, UartSteps, commVars
    <3>4. RetryTypes'
      BY <2>4, Limits DEF DGuard, RetryTypes, commVars
    <3> QED BY <3>1, <3>2, <3>3, <3>4
  <2>5. CASE DReadUart
    <3>1. FaultTypes'
      BY <2>5 DEF DReadUart, CommFails, FaultTypes, FaultKinds
    <3>2. SharedTypes'
      BY <2>5 DEF DReadUart, SharedTypes
    <3>3. IdentTypes'
      <4>1. step \in 1..3
        BY <2>5 DEF DReadUart, StepTypes, HidSteps, UartSteps
      <4>2. UartPart[step] \in Parts
        BY <4>1 DEF UartPart, Parts
      <4> QED BY <2>5, <4>2 DEF DReadUart, IdentTypes, Ident, EnvTypes, Docks
    <3>4. DaemonTypes'
      BY <2>5 DEF DReadUart, DaemonTypes, DaemonPCs
    <3>5. StepTypes'
      BY <2>5 DEF DReadUart, StepTypes, HidSteps, UartSteps
    <3>6. RetryTypes'
      BY <2>5, Limits DEF DReadUart, RetryTypes
    <3> QED BY <3>1, <3>2, <3>3, <3>4, <3>5, <3>6
  <2>6. CASE DExchangeHid
    <3>1. FaultTypes'
      BY <2>6 DEF DExchangeHid, CommFails, FaultTypes, FaultKinds
    <3>2. SharedTypes'
      BY <2>6 DEF DExchangeHid, SharedTypes
    <3>3. IdentTypes'
      BY <2>6 DEF DExchangeHid, IdentTypes, Ident, Parts, EnvTypes, HidTypes,
         Docks, DockBehind, UartPart, UartSteps, StepTypes, HidSteps
    <3>4. DaemonTypes'
      BY <2>6 DEF DExchangeHid, DaemonTypes, DaemonPCs
    <3>5. StepTypes'
      BY <2>6 DEF DExchangeHid, StepTypes, HidSteps, UartSteps
    <3>6. RetryTypes'
      BY <2>6, Limits DEF DExchangeHid, RetryTypes
    <3> QED BY <3>1, <3>2, <3>3, <3>4, <3>5, <3>6
  <2>7. CASE DAuthenticated
    <3>1. FaultTypes' /\ SharedTypes' /\ IdentTypes'
      BY <2>7, Frame DEF DAuthenticated, commVars, GlobalStates, SharedTypes,
         sharedVars
    <3>2. DaemonTypes'
      BY <2>7 DEF DAuthenticated, DaemonTypes, DaemonPCs, commVars
    <3>3. StepTypes'
      BY <2>7 DEF DAuthenticated, StepTypes, HidSteps, UartSteps, commVars
    <3>4. RetryTypes'
      BY <2>7, Limits DEF DAuthenticated, RetryTypes, commVars
    <3> QED BY <3>1, <3>2, <3>3, <3>4
  <2> QED
    BY <2>1, <2>2, <2>3, <2>4, <2>5, <2>6, <2>7 DEF Attempt
<1> QED BY <1>1, <1>2

\* The steps of the daemon keep the types.
LEMMA DaemonTypeCorrect ==
    ASSUME TypeOK, Daemon
    PROVE  TypeOK'
<1>1. EnvTypes' /\ QueueTypes' /\ UeventTypes'
  BY Frame DEF Daemon
<1>2. /\ FaultTypes' /\ KernTypes' /\ SharedTypes' /\ SemTypes'
      /\ HidTypes' /\ IdentTypes'
      /\ DaemonTypes' /\ StepTypes' /\ RetryTypes'
  <2> USE DEF TypeOK
  <2>1. CASE DWait
    <3>1. /\ FaultTypes' /\ KernTypes' /\ SharedTypes' /\ SemTypes'
          /\ HidTypes' /\ IdentTypes'
      BY <2>1, Frame DEF DWait, SemTypes, kernVars, sharedVars, hidVars,
         commVars, callVars
    <3>2. DaemonTypes'
      BY <2>1 DEF DWait, DaemonTypes, DaemonPCs, commVars, callVars
    <3>3. StepTypes'
      BY <2>1 DEF DWait, StepTypes, HidSteps, UartSteps, commVars, callVars
    <3>4. RetryTypes'
      BY <2>1, Limits DEF DWait, RetryTypes, commVars, callVars
    <3> QED BY <3>1, <3>2, <3>3, <3>4
  <2>2. CASE DCheck
    <3>1. /\ FaultTypes' /\ KernTypes' /\ SharedTypes' /\ SemTypes'
          /\ HidTypes' /\ IdentTypes'
      BY <2>2, Frame DEF DCheck, kernVars, sharedVars, hidVars, commVars,
         callVars
    <3>2. DaemonTypes'
      BY <2>2 DEF DCheck, DaemonTypes, DaemonPCs, commVars, callVars
    <3>3. StepTypes'
      BY <2>2 DEF DCheck, StepTypes, HidSteps, UartSteps, commVars, callVars
    <3>4. RetryTypes'
      BY <2>2, Limits DEF DCheck, RetryTypes, commVars, callVars
    <3> QED BY <3>1, <3>2, <3>3, <3>4
  <2>3. CASE DEnableUart
    <3>1. /\ FaultTypes' /\ KernTypes' /\ SharedTypes' /\ SemTypes'
          /\ HidTypes' /\ IdentTypes'
      BY <2>3, Frame DEF DEnableUart, kernVars, sharedVars, hidVars, commVars,
         callVars
    <3>2. DaemonTypes'
      BY <2>3 DEF DEnableUart, DaemonTypes, DaemonPCs, CallIoctl, Requests,
         commVars, callVars
    <3>3. StepTypes'
      BY <2>3 DEF DEnableUart, StepTypes, HidSteps, UartSteps, CallIoctl,
         Requests, commVars, callVars
    <3>4. RetryTypes'
      BY <2>3, Limits DEF DEnableUart, RetryTypes, CallIoctl,
         Requests, commVars, callVars
    <3> QED BY <3>1, <3>2, <3>3, <3>4
  <2>4. CASE DAcquire
    <3>0. FaultTypes'
      BY <2>4 DEF DAcquire, LockFails, FaultTypes, FaultKinds
    <3>1. KernTypes' /\ SharedTypes' /\ SemTypes' /\ HidTypes' /\ IdentTypes'
      BY <2>4, Frame DEF DAcquire, LockFails, KernTypes, sharedVars, hidVars
    <3>2. DaemonTypes'
      BY <2>4 DEF DAcquire, DaemonTypes, LockResults, DaemonPCs, commVars, callVars
    <3>3. StepTypes'
      BY <2>4 DEF DAcquire, StepTypes, HidSteps, UartSteps, commVars, callVars
    <3>4. RetryTypes'
      BY <2>4, Limits DEF DAcquire, RetryTypes, commVars, callVars
    <3> QED BY <3>0, <3>1, <3>2, <3>3, <3>4
  <2>5. CASE DLoop
    <3>1. /\ FaultTypes' /\ KernTypes' /\ SharedTypes' /\ SemTypes'
          /\ HidTypes' /\ IdentTypes'
      BY <2>5, Frame DEF DLoop, IdentTypes, kernVars, sharedVars, hidVars,
         commVars, callVars
    <3>2. DaemonTypes'
      BY <2>5 DEF DLoop, DaemonTypes, DaemonPCs, commVars, callVars
    <3>3. StepTypes'
      BY <2>5 DEF DLoop, StepTypes, HidSteps, UartSteps, commVars, callVars
    <3>4. RetryTypes'
      BY <2>5, Limits DEF DLoop, RetryTypes, commVars, callVars
    <3> QED BY <3>1, <3>2, <3>3, <3>4
  <2>6. CASE DProtocol
    <3>1. /\ FaultTypes' /\ KernTypes' /\ SharedTypes' /\ SemTypes'
          /\ HidTypes' /\ IdentTypes'
      BY <2>6, Frame DEF DProtocol, kernVars, sharedVars, hidVars, commVars,
         callVars
    <3>2. DaemonTypes'
      BY <2>6 DEF DProtocol, DaemonTypes, DaemonPCs, commVars, callVars
    <3>3. StepTypes'
      BY <2>6 DEF DProtocol, StepTypes, HidSteps, UartSteps, commVars,
         callVars
    <3>4. RetryTypes'
      BY <2>6, Limits DEF DProtocol, RetryTypes, commVars, callVars
    <3> QED BY <3>1, <3>2, <3>3, <3>4
  <2>7. CASE DIdCheck
    <3>1. /\ FaultTypes' /\ KernTypes' /\ SharedTypes' /\ SemTypes'
          /\ HidTypes' /\ IdentTypes'
      BY <2>7, Frame DEF DIdCheck, kernVars, sharedVars, hidVars, commVars,
         callVars
    <3>2. DaemonTypes'
      BY <2>7 DEF DIdCheck, DaemonTypes, DaemonPCs, CallIoctl, Requests,
         commVars, callVars
    <3>3. StepTypes'
      BY <2>7 DEF DIdCheck, StepTypes, HidSteps, UartSteps, CallIoctl,
         Requests, commVars, callVars
    <3>4. RetryTypes'
      BY <2>7, Limits DEF DIdCheck, RetryTypes, CallIoctl, Requests,
         commVars, callVars
    <3> QED BY <3>1, <3>2, <3>3, <3>4
  <2>8. CASE DRetry
    <3>1. /\ FaultTypes' /\ KernTypes' /\ SharedTypes' /\ SemTypes'
          /\ HidTypes' /\ IdentTypes'
      BY <2>8, Frame DEF DRetry, kernVars, sharedVars, hidVars, commVars,
         callVars
    <3>2. DaemonTypes'
      BY <2>8 DEF DRetry, DaemonTypes, DaemonPCs, CallIoctl, Requests,
         commVars, callVars
    <3>3. StepTypes'
      BY <2>8 DEF DRetry, StepTypes, HidSteps, UartSteps, CallIoctl, Requests,
         commVars, callVars
    <3>4. RetryTypes'
      BY <2>8, Limits DEF DRetry, RetryTypes, CallIoctl, Requests,
         commVars, callVars
    <3> QED BY <3>1, <3>2, <3>3, <3>4
  <2>9. CASE DReported
    <3>1. /\ FaultTypes' /\ KernTypes' /\ SharedTypes' /\ SemTypes'
          /\ HidTypes' /\ IdentTypes'
      BY <2>9, Frame DEF DReported, SharedTypes, GlobalStates, kernVars,
         sharedVars, hidVars, commVars, callVars
    <3>2. DaemonTypes'
      BY <2>9 DEF DReported, DaemonTypes, DaemonPCs, commVars, callVars
    <3>3. StepTypes'
      BY <2>9 DEF DReported, StepTypes, HidSteps, UartSteps, commVars,
         callVars
    <3>4. RetryTypes'
      BY <2>9, Limits DEF DReported, RetryTypes, commVars, callVars
    <3> QED BY <3>1, <3>2, <3>3, <3>4
  <2>10. CASE DRelease
    <3>0. FaultTypes'
      BY <2>10 DEF DRelease, LockFails, FaultTypes, FaultKinds
    <3>1. KernTypes' /\ SharedTypes' /\ SemTypes' /\ HidTypes' /\ IdentTypes'
      BY <2>10, Frame DEF DRelease, LockFails, KernTypes, sharedVars, hidVars
    <3>2. DaemonTypes'
      BY <2>10 DEF DRelease, DaemonTypes, LockResults, DaemonPCs, commVars, callVars
    <3>3. StepTypes'
      BY <2>10 DEF DRelease, StepTypes, HidSteps, UartSteps, commVars,
         callVars
    <3>4. RetryTypes'
      BY <2>10, Limits DEF DRelease, RetryTypes, commVars, callVars
    <3> QED BY <3>0, <3>1, <3>2, <3>3, <3>4
  <2>11. CASE DIoctl
    <3>1. FaultTypes'
      BY <2>11 DEF DIoctl, FaultTypes, FaultKinds
    <3>2. DockId \in Ident
      BY DEF DockId, IdentTypes, Ident, NoIdent
    <3>7. KernTypes'
      BY <2>11, <3>2 DEF DIoctl, KernTypes, DaemonTypes
    <3>3. SharedTypes' /\ SemTypes' /\ HidTypes' /\ IdentTypes'
      BY <2>11, Frame DEF DIoctl, commVars
    <3>4. DaemonTypes'
      BY <2>11 DEF DIoctl, DaemonTypes, DaemonPCs, commVars, callVars
    <3>5. StepTypes'
      BY <2>11 DEF DIoctl, StepTypes, HidSteps, UartSteps, commVars, callVars
    <3>6. RetryTypes'
      BY <2>11, Limits DEF DIoctl, RetryTypes, commVars, callVars
    <3> QED BY <3>1, <3>7, <3>3, <3>4, <3>5, <3>6
  <2>12. CASE DIoctlResult
    <3>1. /\ FaultTypes' /\ KernTypes' /\ SharedTypes' /\ SemTypes'
          /\ HidTypes' /\ IdentTypes'
      BY <2>12, Frame DEF DIoctlResult, SharedTypes, GlobalStates, kernVars,
         sharedVars, hidVars, commVars, callVars
    <3>2. DaemonTypes'
      BY <2>12 DEF DIoctlResult, DaemonTypes, DaemonPCs, commVars, callVars
    <3>3. StepTypes'
      BY <2>12 DEF DIoctlResult, StepTypes, HidSteps, UartSteps, commVars,
         callVars
    <3>4. RetryTypes'
      BY <2>12, Limits DEF DIoctlResult, RetryTypes, commVars,
         callVars
    <3> QED BY <3>1, <3>2, <3>3, <3>4
  <2>13. CASE DCloseHid
    <3>1. FaultTypes' /\ KernTypes' /\ SharedTypes' /\ SemTypes' /\ IdentTypes'
      BY <2>13, Frame DEF DCloseHid, commVars
    <3>2. HidTypes'
      <4>1. PICK open \in SUBSET (1..MaxFd) :
              fds \in [open -> HidDevices]
        BY DEF HidTypes
      <4>2. ASSUME fds' = [f \in DOMAIN fds \ {hidFd} |-> fds[f]]
            PROVE  fds' \in [open \ {hidFd} -> HidDevices]
        BY <4>1, <4>2
      <4> QED BY <2>13, <4>2 DEF DCloseHid, HidTypes, hidVars
    <3>3. DaemonTypes'
      BY <2>13 DEF DCloseHid, DaemonTypes, DaemonPCs, Return, Requests,
         commVars, callVars
    <3>4. StepTypes'
      BY <2>13 DEF DCloseHid, StepTypes, DaemonTypes, HidSteps, UartSteps, Return,
         Requests, commVars, callVars
    <3>5. RetryTypes'
      BY <2>13, Limits DEF DCloseHid, RetryTypes, DaemonTypes, Return, Requests,
         commVars, callVars
    <3> QED BY <3>1, <3>2, <3>3, <3>4, <3>5
  <2>14. CASE Attempt
    BY <2>14, AttemptTypeCorrect
  <2> QED
    BY <2>1, <2>2, <2>3, <2>4, <2>5, <2>6, <2>7, <2>8, <2>9, <2>10, <2>11,
       <2>12, <2>13, <2>14, <1>1 DEF 
       Daemon
<1> QED BY <1>1, <1>2 DEF TypeOK

\* Every step of the two threads and of their environment keeps the types of
\* all variables, whatever the sets of docks and the bounds are.
THEOREM TypeCorrect == Spec => []TypeOK
<1>1. Init => TypeOK
  <2> SUFFICES ASSUME Init PROVE TypeOK
    OBVIOUS
  <2>1. EnvTypes /\ FaultTypes /\ QueueTypes /\ SharedTypes /\ SemTypes
    BY DEF Init, EnvTypes, FaultTypes, QueueTypes, SharedTypes, SemTypes,
       GlobalStates, Protocols
  <2>2. KernTypes /\ IdentTypes
    BY DEF Init, KernTypes, IdentTypes, NoIdent, Ident, Parts
  <2>3. fds \in [{} -> HidDevices] /\ hidFd = -1
    BY DEF Init
  <2>4. HidTypes
    BY <2>3 DEF HidTypes
  <2>5. UeventTypes /\ DaemonTypes
    BY DEF Init, UeventTypes, DaemonTypes, UeventPCs, DaemonPCs, Protocols,
       Requests, LockResults
  <2>6. StepTypes /\ RetryTypes
    BY BoundAssumption DEF Init, StepTypes, RetryTypes, HidSteps
  <2> QED BY <2>1, <2>2, <2>4, <2>5, <2>6 DEF TypeOK
<1>2. TypeOK /\ [Next]_vars => TypeOK'
  <2> SUFFICES ASSUME TypeOK, [Next]_vars PROVE TypeOK'
    OBVIOUS
  <2>1. CASE Unplug
    <3>1. EnvTypes' /\ QueueTypes'
      BY <2>1 DEF Unplug, Notify, TypeOK, EnvTypes, QueueTypes, Protocols
    <3>2. HidTypes'
      BY <2>1 DEF Unplug, TypeOK, HidTypes, HidDevices
    <3> QED
      BY <2>1, <3>1, <3>2, Frame DEF Unplug, TypeOK, dVars, commVars
  <2>2. ASSUME NEW d \in Docks, Plug(d) PROVE TypeOK'
    <3>1. EnvTypes' /\ QueueTypes'
      BY <2>2 DEF Plug, Notify, TypeOK, EnvTypes, QueueTypes, Protocols
    <3> QED BY <2>2, <3>1, Frame DEF Plug, TypeOK, dVars, commVars
  <2>3. CASE Restart
    <3>1. EnvTypes' /\ QueueTypes' /\ SharedTypes' /\ SemTypes'
      BY <2>3 DEF Restart, TypeOK, EnvTypes, QueueTypes, SharedTypes, SemTypes,
         GlobalStates, Protocols
    <3>2. IdentTypes'
      BY <2>3 DEF Restart, IdentTypes, NoIdent, Ident, Parts
    <3>3. fds' \in [{} -> HidDevices] /\ hidFd' = -1
      BY <2>3 DEF Restart
    <3>4. HidTypes'
      BY <3>3 DEF HidTypes
    <3>5. UeventTypes' /\ DaemonTypes'
      BY <2>3 DEF Restart, UeventTypes, DaemonTypes, UeventPCs, DaemonPCs,
         Protocols, Requests, LockResults
    <3>6. StepTypes' /\ RetryTypes'
      BY <2>3, Limits DEF Restart, StepTypes, RetryTypes, HidSteps
    <3> QED
      BY <2>3, <3>1, <3>2, <3>4, <3>5, <3>6, Frame DEF Restart, TypeOK
  <2>4. CASE UNCHANGED vars
    BY <2>4, Frame DEF vars, TypeOK, dVars, commVars
  <2> QED
    BY <2>1, <2>2, <2>3, <2>4, UeventTypeCorrect, DaemonTypeCorrect DEF Next
<1> QED BY <1>1, <1>2, PTL DEF Spec

\* A step of any thread, or of the environment, leaves no dock unattended.
LEMMA NoDockUnattendedStep ==
    ASSUME TypeOK, TypeOK', NoDockUnattended, [Next]_vars
    PROVE  NoDockUnattended'
<1>1. CASE UeventThread
  <2> USE DEF NoDockUnattended, AboutToPost, DaemonLeaving
  <2>1. CASE UBind
    BY <1>1, <2>1 DEF UeventThread, UBind, sharedVars, dVars
  <2>2. CASE UReadSwitch
    BY <1>1, <2>2 DEF UeventThread, UReadSwitch, sharedVars, dVars
  <2>3. CASE USetState
    BY <1>1, <2>3 DEF UeventThread, USetState, sharedVars, dVars
  <2>4. CASE USetProtocol
    BY <1>1, <2>4 DEF UeventThread, USetProtocol, sharedVars, dVars
  <2>5. CASE UOpenHid
    BY <1>1, <2>5 DEF UeventThread, UOpenHid, sharedVars, dVars
  <2>6. CASE UCheckHid
    BY <1>1, <2>6 DEF UeventThread, UCheckHid, sharedVars, dVars
  <2>7. CASE UPost
    BY <1>1, <2>7 DEF UeventThread, UPost, sharedVars, dVars, TypeOK, SemTypes
  <2>8. CASE UReceive
    BY <1>1, <2>8 DEF UeventThread, UReceive, sharedVars, dVars
  <2> QED
    BY <1>1, <2>1, <2>2, <2>3, <2>4, <2>5, <2>6, <2>7, <2>8
       DEF UeventThread
<1>2. CASE Daemon
  <2> USE DEF NoDockUnattended, DaemonLeaving, AboutToPost
  <2>1. CASE DWait
    BY <1>2, <2>1 DEF Daemon, DWait, uVars, sharedVars, TypeOK, SemTypes
  <2>2. CASE DCheck
    BY <1>2, <2>2 DEF Daemon, DCheck, uVars, sharedVars
  <2>3. CASE DEnableUart
    BY <1>2, <2>3 DEF Daemon, DEnableUart, uVars, sharedVars, CallIoctl
  <2>4. CASE DAcquire
    BY <1>2, <2>4 DEF Daemon, DAcquire, uVars, sharedVars
  <2>5. CASE DLoop
    BY <1>2, <2>5 DEF Daemon, DLoop, uVars, sharedVars
  <2>6. CASE DProtocol
    BY <1>2, <2>6 DEF Daemon, DProtocol, uVars, sharedVars
  <2>7. CASE DIdCheck
    BY <1>2, <2>7 DEF Daemon, DIdCheck, uVars, sharedVars, CallIoctl
  <2>8. CASE DRetry
    BY <1>2, <2>8 DEF Daemon, DRetry, uVars, sharedVars, TypeOK, RetryTypes,
       CallIoctl
  <2>9. CASE DReported
    BY <1>2, <2>9 DEF Daemon, DReported, uVars, sharedVars
  <2>10. CASE DRelease
    BY <1>2, <2>10 DEF Daemon, DRelease, uVars, sharedVars
  <2>11. CASE DIoctl
    BY <1>2, <2>11 DEF Daemon, DIoctl, uVars, sharedVars
  <2>12. CASE DIoctlResult
    BY <1>2, <2>12 DEF Daemon, DIoctlResult, uVars, sharedVars
  <2>13. CASE DCloseHid
    BY <1>2, <2>13 DEF Daemon, DCloseHid, uVars, sharedVars, Return, TypeOK,
       DaemonTypes, Requests
  <2>14. CASE Attempt
    <3>0. UNCHANGED <<report, lockHeld, globalProtocol, hidFd, fds, sem,
            tryComm, wakeLock, req, tries, uPC>>
      BY <1>2, <2>14 DEF Daemon, Attempt, kernVars, hidVars, callVars, uVars
    <3>1. CASE DOpenChannel
      BY <3>0, <3>1 DEF DOpenChannel
    <3>2. CASE DWakeup
      BY <3>0, <3>2 DEF DWakeup
    <3>3. CASE DWakeCheck
      BY <3>0, <3>3 DEF DWakeCheck
    <3>4. CASE DGuard
      BY <3>0, <3>4 DEF DGuard, commVars
    <3>5. CASE DReadUart
      BY <3>0, <3>5 DEF DReadUart
    <3>6. CASE DExchangeHid
      BY <3>0, <3>6 DEF DExchangeHid
    <3>7. CASE DAuthenticated
      BY <3>0, <3>7 DEF DAuthenticated, commVars
    <3> QED
      BY <2>14, <3>1, <3>2, <3>3, <3>4, <3>5, <3>6, <3>7 DEF Attempt
  <2> QED
    BY <1>2, <2>1, <2>2, <2>3, <2>4, <2>5, <2>6, <2>7, <2>8, <2>9, <2>10,
       <2>11, <2>12, <2>13, <2>14 DEF Daemon
<1>3. ASSUME NEW d \in Docks, Plug(d) PROVE NoDockUnattended'
  BY <1>3 DEF Plug, sharedVars, uVars, dVars, NoDockUnattended, AboutToPost,
     DaemonLeaving
<1>4. CASE Unplug
  BY <1>4 DEF Unplug, sharedVars, uVars, dVars, NoDockUnattended, AboutToPost,
     DaemonLeaving
<1>5. CASE Restart
  BY <1>5 DEF Restart, kernVars, NoDockUnattended, AboutToPost, DaemonLeaving
<1>6. CASE UNCHANGED vars
  BY <1>6 DEF vars, sharedVars, uVars, dVars, NoDockUnattended, AboutToPost,
     DaemonLeaving
<1> QED BY <1>1, <1>2, <1>3, <1>4, <1>5, <1>6 DEF Next

\* No wakeup is lost: whenever globalState says DOCKED and the daemon is done
\* with its session, a token or the uevent thread about to post one calls it
\* back, for any number of docks, events, faults and restarts.
THEOREM NoLostWakeup == Spec => []NoDockUnattended
<1>1. Init => NoDockUnattended
  BY DEF Init, NoDockUnattended
<1>2. TypeOK /\ TypeOK' /\ NoDockUnattended /\ [Next]_vars => NoDockUnattended'
  BY NoDockUnattendedStep
<1> QED BY <1>1, <1>2, TypeCorrect, PTL DEF Spec

\* A step of any thread, or of the environment, keeps hidFd open.
LEMMA HidHandleOpenStep ==
    ASSUME TypeOK, TypeOK', HidHandleOpen, [Next]_vars
    PROVE  HidHandleOpen'
<1>1. CASE UeventThread
  <2> USE DEF HidHandleOpen
  <2>1. CASE UBind
    BY <1>1, <2>1 DEF UeventThread, UBind, hidVars, dVars
  <2>2. CASE UReadSwitch
    BY <1>1, <2>2 DEF UeventThread, UReadSwitch, hidVars, dVars
  <2>3. CASE USetState
    BY <1>1, <2>3 DEF UeventThread, USetState, hidVars, dVars
  <2>4. CASE USetProtocol
    BY <1>1, <2>4 DEF UeventThread, USetProtocol, hidVars, dVars
  <2>5. CASE UOpenHid
    BY <1>1, <2>5 DEF UeventThread, UOpenHid, hidVars, dVars
  <2>6. CASE UCheckHid
    BY <1>1, <2>6 DEF UeventThread, UCheckHid, hidVars, dVars
  <2>7. CASE UPost
    BY <1>1, <2>7 DEF UeventThread, UPost, hidVars, dVars
  <2>8. CASE UReceive
    BY <1>1, <2>8 DEF UeventThread, UReceive, hidVars, dVars
  <2> QED
    BY <1>1, <2>1, <2>2, <2>3, <2>4, <2>5, <2>6, <2>7, <2>8
       DEF UeventThread
<1>2. CASE Daemon
  <2> USE DEF HidHandleOpen
  <2>1. CASE DWait
    BY <1>2, <2>1 DEF Daemon, DWait, uVars, hidVars
  <2>2. CASE DCheck
    BY <1>2, <2>2 DEF Daemon, DCheck, uVars, hidVars
  <2>3. CASE DEnableUart
    BY <1>2, <2>3 DEF Daemon, DEnableUart, uVars, hidVars, CallIoctl
  <2>4. CASE DAcquire
    BY <1>2, <2>4 DEF Daemon, DAcquire, uVars, hidVars
  <2>5. CASE DLoop
    BY <1>2, <2>5 DEF Daemon, DLoop, uVars, hidVars
  <2>6. CASE DProtocol
    BY <1>2, <2>6 DEF Daemon, DProtocol, uVars, hidVars
  <2>7. CASE DIdCheck
    BY <1>2, <2>7 DEF Daemon, DIdCheck, uVars, hidVars, CallIoctl
  <2>8. CASE DRetry
    BY <1>2, <2>8 DEF Daemon, DRetry, uVars, hidVars, CallIoctl
  <2>9. CASE DReported
    BY <1>2, <2>9 DEF Daemon, DReported, uVars, hidVars
  <2>10. CASE DRelease
    BY <1>2, <2>10 DEF Daemon, DRelease, uVars, hidVars
  <2>11. CASE DIoctl
    BY <1>2, <2>11 DEF Daemon, DIoctl, uVars, hidVars
  <2>12. CASE DIoctlResult
    BY <1>2, <2>12 DEF Daemon, DIoctlResult, uVars, hidVars
  <2>13. CASE DCloseHid
    BY <1>2, <2>13 DEF Daemon, DCloseHid, uVars, hidVars, Return, TypeOK,
       DaemonTypes, Requests
  <2>14. CASE Attempt
    <3>0. UNCHANGED <<report, lockHeld, globalProtocol, hidFd, fds, sem,
            tryComm, wakeLock, req, tries, uPC>>
      BY <1>2, <2>14 DEF Daemon, Attempt, kernVars, hidVars, callVars, uVars
    <3>1. CASE DOpenChannel
      BY <3>0, <3>1 DEF DOpenChannel
    <3>2. CASE DWakeup
      BY <3>0, <3>2 DEF DWakeup
    <3>3. CASE DWakeCheck
      BY <3>0, <3>3 DEF DWakeCheck
    <3>4. CASE DGuard
      BY <3>0, <3>4 DEF DGuard, commVars
    <3>5. CASE DReadUart
      BY <3>0, <3>5 DEF DReadUart
    <3>6. CASE DExchangeHid
      BY <3>0, <3>6 DEF DExchangeHid
    <3>7. CASE DAuthenticated
      BY <3>0, <3>7 DEF DAuthenticated, commVars
    <3> QED
      BY <2>14, <3>1, <3>2, <3>3, <3>4, <3>5, <3>6, <3>7 DEF Attempt
  <2> QED
    BY <1>2, <2>1, <2>2, <2>3, <2>4, <2>5, <2>6, <2>7, <2>8, <2>9, <2>10,
       <2>11, <2>12, <2>13, <2>14 DEF Daemon
<1>3. ASSUME NEW d \in Docks, Plug(d) PROVE HidHandleOpen'
  BY <1>3 DEF Plug, hidVars, uVars, dVars, HidHandleOpen
<1>4. CASE Unplug
  BY <1>4 DEF Unplug, hidVars, uVars, dVars, HidHandleOpen
<1>5. CASE Restart
  BY <1>5 DEF Restart, kernVars, HidHandleOpen
<1>6. CASE UNCHANGED vars
  BY <1>6 DEF vars, hidVars, uVars, dVars, HidHandleOpen
<1> QED BY <1>1, <1>2, <1>3, <1>4, <1>5, <1>6 DEF Next

\* The daemon never uses the number of a descriptor that was closed: hidFd is
\* open whenever it is not -1, except between the close and the reset, whatever
\* the uevent thread opens in the meantime.
THEOREM HidHandleStaysOpen == Spec => []HidHandleOpen
<1>1. Init => HidHandleOpen
  BY DEF Init, HidHandleOpen
<1>2. TypeOK /\ TypeOK' /\ HidHandleOpen /\ [Next]_vars => HidHandleOpen'
  BY HidHandleOpenStep
<1> QED BY <1>1, <1>2, TypeCorrect, PTL DEF Spec

\* A step of any thread, or of the environment, keeps IdentityInv.
LEMMA IdentityInvStep ==
    ASSUME TypeOK, TypeOK', IdentityInv, [Next]_vars
    PROVE  IdentityInv'
<1>1. CASE UeventThread
  <2> USE DEF IdentityInv, IdentityIsFresh, ReportingSuccess, Identifying
  <2>1. CASE UBind
    BY <1>1, <2>1 DEF UeventThread, UBind, sharedVars, dVars, commVars,
       callVars
  <2>2. CASE UReadSwitch
    BY <1>1, <2>2 DEF UeventThread, UReadSwitch, sharedVars, dVars, commVars,
       callVars
  <2>3. CASE USetState
    BY <1>1, <2>3 DEF UeventThread, USetState, sharedVars, dVars, commVars,
       callVars
  <2>4. CASE USetProtocol
    BY <1>1, <2>4 DEF UeventThread, USetProtocol, sharedVars, dVars, commVars,
       callVars
  <2>5. CASE UOpenHid
    BY <1>1, <2>5 DEF UeventThread, UOpenHid, sharedVars, dVars, commVars,
       callVars
  <2>6. CASE UCheckHid
    BY <1>1, <2>6 DEF UeventThread, UCheckHid, sharedVars, dVars, commVars,
       callVars
  <2>7. CASE UPost
    BY <1>1, <2>7 DEF UeventThread, UPost, sharedVars, dVars, commVars,
       callVars
  <2>8. CASE UReceive
    BY <1>1, <2>8 DEF UeventThread, UReceive, sharedVars, dVars, commVars,
       callVars
  <2> QED
    BY <1>1, <2>1, <2>2, <2>3, <2>4, <2>5, <2>6, <2>7, <2>8
       DEF UeventThread
<1>2. CASE Daemon
  <2> USE DEF IdentityInv, IdentityIsFresh, ReportingSuccess, Identifying
  <2>1. CASE DWait
    BY <1>2, <2>1 DEF Daemon, DWait, uVars, sharedVars, commVars, callVars,
       dVars
  <2>2. CASE DCheck
    BY <1>2, <2>2 DEF Daemon, DCheck, uVars, sharedVars, commVars, callVars,
       dVars
  <2>3. CASE DEnableUart
    BY <1>2, <2>3 DEF Daemon, DEnableUart, uVars, sharedVars, commVars,
       callVars, dVars, CallIoctl
  <2>4. CASE DAcquire
    BY <1>2, <2>4 DEF Daemon, DAcquire, uVars, sharedVars, commVars, callVars,
       dVars
  <2>5. CASE DLoop
    BY <1>2, <2>5 DEF Daemon, DLoop, uVars, sharedVars, commVars, callVars,
       dVars
  <2>6. CASE DProtocol
    BY <1>2, <2>6 DEF Daemon, DProtocol, uVars, sharedVars, commVars,
       callVars, dVars
  <2>7. CASE DIdCheck
    BY <1>2, <2>7 DEF Daemon, DIdCheck, uVars, sharedVars, commVars, callVars,
       dVars, CallIoctl
  <2>8. CASE DRetry
    BY <1>2, <2>8 DEF Daemon, DRetry, uVars, sharedVars, commVars, callVars,
       dVars, CallIoctl
  <2>9. CASE DReported
    BY <1>2, <2>9 DEF Daemon, DReported, uVars, sharedVars, commVars,
       callVars, dVars
  <2>10. CASE DRelease
    BY <1>2, <2>10 DEF Daemon, DRelease, uVars, sharedVars, commVars,
       callVars, dVars
  <2>11. CASE DIoctl
    BY <1>2, <2>11 DEF Daemon, DIoctl, uVars, sharedVars, commVars, callVars,
       dVars
  <2>12. CASE DIoctlResult
    BY <1>2, <2>12 DEF Daemon, DIoctlResult, uVars, sharedVars, commVars,
       callVars, dVars
  <2>13. CASE DCloseHid
    BY <1>2, <2>13 DEF Daemon, DCloseHid, uVars, sharedVars, commVars,
       callVars, dVars, Return, TypeOK, DaemonTypes, Requests
  <2>14. CASE Attempt
    <3>0. UNCHANGED <<report, lockHeld, globalProtocol, hidFd, fds, sem,
            tryComm, wakeLock, req, tries, uPC>>
      BY <1>2, <2>14 DEF Daemon, Attempt, kernVars, hidVars, callVars, uVars
    <3>1. CASE DOpenChannel
      BY <3>0, <3>1 DEF DOpenChannel
    <3>2. CASE DWakeup
      BY <3>0, <3>2 DEF DWakeup
    <3>3. CASE DWakeCheck
      BY <3>0, <3>3 DEF DWakeCheck, TypeOK, StepTypes
    <3>4. CASE DGuard
      BY <3>0, <3>4 DEF DGuard, commVars
    <3>5. CASE DReadUart
      <4>1. step \in 1..3 /\ fresh \subseteq Parts
        BY <3>5 DEF DReadUart, TypeOK, StepTypes, HidSteps, UartSteps, IdentTypes
      <4>2. CASE dPC' = "idcheck"
        BY <3>0, <3>5, <4>2 DEF DReadUart
      <4>3. CASE dPC' = "guard"
        BY <3>0, <3>5, <4>1, <4>3 DEF DReadUart, UartSteps
      <4>4. CASE dPC' = "auth"
        <5>1. step = 3 /\ fresh' = fresh \cup {"RomSN"}
          BY <3>5, <4>1, <4>4 DEF DReadUart, UartSteps, UartPart
        <5>2. UartPart[1] \in fresh /\ UartPart[2] \in fresh
          BY <3>5, <5>1 DEF DReadUart
        <5>3. fresh' = Parts
          BY <4>1, <5>1, <5>2 DEF UartPart, Parts
        <5> QED BY <3>0, <3>5, <4>4, <5>3 DEF DReadUart
      <4> QED BY <3>5, <4>2, <4>3, <4>4 DEF DReadUart
    <3>6. CASE DExchangeHid
      BY <3>0, <3>6 DEF DExchangeHid
    <3>7. CASE DAuthenticated
      BY <3>0, <3>7 DEF DAuthenticated, commVars
    <3> QED
      BY <2>14, <3>1, <3>2, <3>3, <3>4, <3>5, <3>6, <3>7 DEF Attempt
  <2> QED
    BY <1>2, <2>1, <2>2, <2>3, <2>4, <2>5, <2>6, <2>7, <2>8, <2>9, <2>10,
       <2>11, <2>12, <2>13, <2>14 DEF Daemon
<1>3. ASSUME NEW d \in Docks, Plug(d) PROVE IdentityInv'
  BY <1>3 DEF Plug, sharedVars, commVars, callVars, dVars, uVars, IdentityInv,
     IdentityIsFresh, ReportingSuccess, Identifying
<1>4. CASE Unplug
  BY <1>4 DEF Unplug, sharedVars, commVars, callVars, dVars, uVars,
     IdentityInv, IdentityIsFresh, ReportingSuccess, Identifying
<1>5. CASE Restart
  BY <1>5 DEF Restart, kernVars, IdentityInv, IdentityIsFresh,
     ReportingSuccess, Identifying
<1>6. CASE UNCHANGED vars
  BY <1>6 DEF vars, sharedVars, commVars, callVars, dVars, uVars, IdentityInv,
     IdentityIsFresh, ReportingSuccess, Identifying
<1> QED BY <1>1, <1>2, <1>3, <1>4, <1>5, <1>6 DEF Next

\* The driver is never told an identity of which a part is left over from an
\* earlier attempt or from another dock's session.
THEOREM IdentityAlwaysFresh == Spec => []IdentityIsFresh
<1>1. Init => IdentityInv
  BY DEF Init, IdentityInv, IdentityIsFresh, ReportingSuccess, Identifying
<1>2. TypeOK /\ TypeOK' /\ IdentityInv /\ [Next]_vars => IdentityInv'
  BY IdentityInvStep
<1>3. IdentityInv => IdentityIsFresh
  BY DEF IdentityInv
<1> QED BY <1>1, <1>2, <1>3, TypeCorrect, PTL DEF Spec

\* A step of any thread, or of the environment, keeps ReportInv.
LEMMA ReportInvStep ==
    ASSUME TypeOK, TypeOK', ReportInv, [Next]_vars,
           IoctlFaults < MAX_TRY_IOCTL
    PROVE  ReportInv'
<1>1. CASE UeventThread
  <2> USE DEF ReportInv, Agreement, Closing, Identifying
  <2>1. CASE UBind
    BY <1>1, <2>1 DEF UeventThread, UBind, sharedVars, dVars, callVars,
       kernVars
  <2>2. CASE UReadSwitch
    BY <1>1, <2>2 DEF UeventThread, UReadSwitch, sharedVars, dVars, callVars,
       kernVars, TypeOK, FaultTypes, FaultKinds
  <2>3. CASE USetState
    BY <1>1, <2>3 DEF UeventThread, USetState, sharedVars, dVars, callVars,
       kernVars
  <2>4. CASE USetProtocol
    BY <1>1, <2>4 DEF UeventThread, USetProtocol, sharedVars, dVars, callVars,
       kernVars
  <2>5. CASE UOpenHid
    BY <1>1, <2>5 DEF UeventThread, UOpenHid, sharedVars, dVars, callVars,
       kernVars
  <2>6. CASE UCheckHid
    BY <1>1, <2>6 DEF UeventThread, UCheckHid, sharedVars, dVars, callVars,
       kernVars
  <2>7. CASE UPost
    BY <1>1, <2>7 DEF UeventThread, UPost, sharedVars, dVars, callVars,
       kernVars
  <2>8. CASE UReceive
    BY <1>1, <2>8 DEF UeventThread, UReceive, sharedVars, dVars, callVars,
       kernVars
  <2> QED
    BY <1>1, <2>1, <2>2, <2>3, <2>4, <2>5, <2>6, <2>7, <2>8
       DEF UeventThread
<1>2. CASE Daemon
  <2> USE DEF ReportInv, Agreement, Closing, Identifying
  <2>1. CASE DWait
    BY <1>2, <2>1 DEF Daemon, DWait, uVars, kernVars, sharedVars, callVars,
       commVars, dVars
  <2>2. CASE DCheck
    BY <1>2, <2>2 DEF Daemon, DCheck, uVars, kernVars, sharedVars, callVars,
       commVars, dVars
  <2>3. CASE DEnableUart
    BY <1>2, <2>3 DEF Daemon, DEnableUart, uVars, kernVars, sharedVars,
       callVars, commVars, dVars, CallIoctl, TypeOK, FaultTypes, FaultKinds
  <2>4. CASE DAcquire
    <3>1. faults["ioctl"]' = faults["ioctl"]
      BY <2>4 DEF DAcquire, LockFails, TypeOK, FaultTypes, FaultKinds
    <3> QED BY <1>2, <2>4, <3>1 DEF DAcquire, sharedVars, callVars
  <2>5. CASE DLoop
    BY <1>2, <2>5 DEF Daemon, DLoop, uVars, kernVars, sharedVars, callVars,
       commVars, dVars
  <2>6. CASE DProtocol
    BY <1>2, <2>6 DEF Daemon, DProtocol, uVars, kernVars, sharedVars,
       callVars, commVars, dVars
  <2>7. CASE DIdCheck
    BY <1>2, <2>7 DEF Daemon, DIdCheck, uVars, kernVars, sharedVars, callVars,
       commVars, dVars, CallIoctl, TypeOK, FaultTypes, FaultKinds
  <2>8. CASE DRetry
    BY <1>2, <2>8 DEF Daemon, DRetry, uVars, kernVars, sharedVars, callVars,
       commVars, dVars, CallIoctl, TypeOK, FaultTypes, FaultKinds
  <2>9. CASE DReported
    BY <1>2, <2>9 DEF Daemon, DReported, uVars, kernVars, sharedVars,
       callVars, commVars, dVars
  <2>10. CASE DRelease
    <3>1. faults["ioctl"]' = faults["ioctl"]
      BY <2>10 DEF DRelease, LockFails, TypeOK, FaultTypes, FaultKinds
    <3> QED BY <1>2, <2>10, <3>1 DEF DRelease, sharedVars, callVars
  <2>11. CASE DIoctl
    BY <1>2, <2>11, BoundAssumption DEF Daemon, DIoctl, uVars, kernVars,
       sharedVars, callVars, commVars, dVars, TypeOK, FaultTypes, FaultKinds,
       RetryTypes
  <2>12. CASE DIoctlResult
    BY <1>2, <2>12, BoundAssumption DEF Daemon, DIoctlResult, uVars, kernVars,
       sharedVars, callVars, commVars, dVars, TypeOK, FaultTypes, FaultKinds,
       RetryTypes
  <2>13. CASE DCloseHid
    BY <1>2, <2>13 DEF Daemon, DCloseHid, uVars, kernVars, sharedVars,
       callVars, commVars, dVars, Return, TypeOK, DaemonTypes, Requests
  <2>14. CASE Attempt
    <3>0. UNCHANGED <<report, lockHeld, globalProtocol, hidFd, fds, sem,
            tryComm, wakeLock, req, tries, uPC>>
      BY <1>2, <2>14 DEF Daemon, Attempt, kernVars, hidVars, callVars, uVars
    <3>1. CASE DOpenChannel
      BY <3>0, <3>1 DEF DOpenChannel, CommFails, TypeOK, FaultTypes,
         FaultKinds
    <3>2. CASE DWakeup
      BY <3>0, <3>2 DEF DWakeup, CommFails, TypeOK, FaultTypes, FaultKinds
    <3>3. CASE DWakeCheck
      BY <3>0, <3>3 DEF DWakeCheck
    <3>4. CASE DGuard
      BY <3>0, <3>4 DEF DGuard, commVars
    <3>5. CASE DReadUart
      BY <3>0, <3>5 DEF DReadUart, CommFails, TypeOK, FaultTypes, FaultKinds
    <3>6. CASE DExchangeHid
      BY <3>0, <3>6 DEF DExchangeHid, CommFails, TypeOK, FaultTypes,
         FaultKinds
    <3>7. CASE DAuthenticated
      BY <3>0, <3>7 DEF DAuthenticated, commVars
    <3> QED
      BY <2>14, <3>1, <3>2, <3>3, <3>4, <3>5, <3>6, <3>7 DEF Attempt
  <2> QED
    BY <1>2, <2>1, <2>2, <2>3, <2>4, <2>5, <2>6, <2>7, <2>8, <2>9, <2>10,
       <2>11, <2>12, <2>13, <2>14 DEF Daemon
<1>3. ASSUME NEW d \in Docks, Plug(d) PROVE ReportInv'
  BY <1>3 DEF Plug, kernVars, sharedVars, callVars, commVars, dVars, uVars,
     ReportInv, Agreement, Closing, Identifying
<1>4. CASE Unplug
  BY <1>4 DEF Unplug, kernVars, sharedVars, callVars, commVars, dVars, uVars,
     ReportInv, Agreement, Closing, Identifying
<1>5. CASE Restart
  BY <1>5 DEF Restart, kernVars, ReportInv, Agreement, Closing, Identifying
<1>6. CASE UNCHANGED vars
  BY <1>6 DEF vars, kernVars, sharedVars, callVars, commVars, dVars, uVars,
     ReportInv, Agreement, Closing, Identifying
<1> QED BY <1>1, <1>2, <1>3, <1>4, <1>5, <1>6 DEF Next

\* While the daemon waits, globalState says of the identification what the
\* driver was told last, as long as an ioctl does not fail MAX_TRY_IOCTL times.
THEOREM ReportsAgree == Spec => []ReportAgrees
<1>1. CASE IoctlFaults < MAX_TRY_IOCTL
  <2>1. Init => ReportInv
    BY BoundAssumption
       DEF Init, ReportInv, Agreement, Closing, Identifying, FaultKinds
  <2>2. TypeOK /\ TypeOK' /\ ReportInv /\ [Next]_vars => ReportInv'
    BY <1>1, ReportInvStep
  <2>3. ReportInv => ReportAgrees
    BY DEF ReportInv, ReportAgrees, Agreement
  <2> QED BY <2>1, <2>2, <2>3, TypeCorrect, PTL DEF Spec
<1>2. CASE ~(IoctlFaults < MAX_TRY_IOCTL)
  <2>1. ReportAgrees
    BY <1>2 DEF ReportAgrees
  <2> QED BY <2>1, PTL
<1> QED BY <1>1, <1>2

-----------------------------------------------------------------------------
(* Where the daemon is between the acquisition and the release of the wake *)
(* lock, wakeLock is not zero: the lock is held, or it was refused.        *)

SleepInv ==
    /\ dPC \in Outside => wakeLock = "zero"
    /\ dPC \in IoctlPCs => (req = "enable" <=> wakeLock = "zero")
    /\ dPC \notin Outside \cup IoctlPCs => wakeLock # "zero"
    /\ LockAccounted

\* No step but the acquisition and the release changes what is held or known of
\* the wake lock, and none forgets a termination or a failed release.
LEMMA LockSteps ==
    ASSUME TypeOK, [Next]_vars, ~Restart, ~DAcquire, ~DRelease
    PROVE  /\ UNCHANGED <<wakeLock, lockHeld, restarts>>
           /\ faults["release"] > 0 => faults["release"]' > 0
<1> USE DEF TypeOK, FaultTypes, FaultKinds
<1>1. CASE UeventThread
  <2>1. UNCHANGED <<wakeLock, lockHeld, restarts>>
    BY <1>1 DEF UeventThread, envVars, kernVars, dVars
  <2>2. faults["release"]' = faults["release"]
    BY <1>1 DEF UeventThread, UBind, UReadSwitch, USetState, USetProtocol,
       UOpenHid, UCheckHid, UPost, UReceive
  <2> QED BY <2>1, <2>2
<1>2. CASE Daemon
  <2>1. UNCHANGED restarts
    BY <1>2 DEF Daemon, envVars
  <2>2. CASE Attempt
    <3>1. UNCHANGED <<wakeLock, lockHeld>>
      BY <2>2 DEF Attempt, kernVars
    <3>2. faults["release"]' = faults["release"]
      BY <2>2 DEF Attempt, DOpenChannel, DWakeup, DWakeCheck, DGuard, DReadUart,
         DExchangeHid, DAuthenticated, CommFails
    <3> QED BY <2>1, <3>1, <3>2
  <2>3. CASE DIoctl
    BY <2>1, <2>3 DEF DIoctl
  <2>4. CASE ~Attempt /\ ~DIoctl
    BY <1>2, <2>1, <2>4 DEF Daemon, DWait, DCheck, DEnableUart, DLoop,
       DProtocol, DIdCheck, DRetry, DReported, DIoctlResult, DCloseHid, kernVars
  <2> QED BY <2>2, <2>3, <2>4
<1>3. CASE Unplug \/ \E d \in Docks : Plug(d)
  BY <1>3 DEF Unplug, Plug, kernVars, dVars
<1>4. CASE UNCHANGED vars
  BY <1>4 DEF vars, envVars, kernVars, dVars
<1> QED BY <1>1, <1>2, <1>3, <1>4 DEF Next

LEMMA SleepInvStep ==
    ASSUME TypeOK, SleepInv, [Next]_vars
    PROVE  SleepInv'
<1> USE DEF SleepInv
<1>1. LockAccounted'
  <2> USE DEF LockAccounted
  <2>1. CASE DAcquire
    <3>1. UNCHANGED restarts
      BY <2>1 DEF DAcquire, Next, UeventThread, Daemon, Plug, Unplug, Restart,
         envVars, dVars, vars
    <3>2. faults["release"]' = faults["release"]
      BY <2>1 DEF DAcquire, LockFails, TypeOK, FaultTypes, FaultKinds
    <3> QED BY <2>1, <3>1, <3>2 DEF DAcquire, LockFails, Outside
  <2>2. CASE DRelease
    <3>1. CASE lockHeld'
      <4>1. CASE wakeLock = "zero"
        BY <2>2, <3>1, <4>1 DEF DRelease, Outside, IoctlPCs, Closing
      <4>2. CASE wakeLock # "zero"
        <5>1. LockFails("release")
          BY <2>2, <3>1, <4>2 DEF DRelease
        <5>2. faults["release"]' > 0
          BY <5>1 DEF LockFails, TypeOK, FaultTypes, FaultKinds
        <5> QED BY <2>2, <5>2 DEF DRelease
      <4> QED BY <4>1, <4>2
    <3>2. CASE ~lockHeld'
      BY <2>2, <3>2 DEF DRelease
    <3> QED BY <3>1, <3>2
  <2>3. CASE Restart
    BY <2>3 DEF Restart, kernVars, TypeOK, EnvTypes
  <2>4. CASE ~DAcquire /\ ~DRelease /\ ~Restart
    BY <2>4, LockSteps
  <2> QED BY <2>1, <2>2, <2>3, <2>4
<1> HIDE DEF SleepInv
<1> DEFINE Known ==
      /\ dPC \in Outside => wakeLock = "zero"
      /\ dPC \in IoctlPCs => (req = "enable" <=> wakeLock = "zero")
      /\ dPC \notin Outside \cup IoctlPCs => wakeLock # "zero"
<1>2. Known
  BY DEF SleepInv
<1>3. Known'
  <2> USE <1>2 DEF Outside, IoctlPCs, Closing
  <2>1. CASE UeventThread
    BY <2>1 DEF UeventThread, dVars, callVars
  <2>2. CASE Daemon
    <3>1. CASE DWait \/ DCheck
      BY <3>1 DEF DWait, DCheck, callVars
    <3>2. CASE DEnableUart
      BY <3>2 DEF DEnableUart, CallIoctl
    <3>3. CASE DAcquire
      BY <3>3 DEF DAcquire, callVars
    <3>4. CASE DLoop \/ DProtocol
      BY <3>4 DEF DLoop, DProtocol, callVars
    <3>5. CASE DIdCheck \/ DRetry
      BY <3>5 DEF DIdCheck, DRetry, CallIoctl, callVars
    <3>6. CASE DReported
      BY <3>6 DEF DReported, callVars
    <3>7. CASE DRelease
      BY <3>7 DEF DRelease, callVars
    <3>8. CASE DIoctl \/ DIoctlResult
      BY <3>8 DEF DIoctl, DIoctlResult, callVars
    <3>9. CASE DCloseHid
      <4>1. req \in Requests /\ UNCHANGED <<req, wakeLock>> /\ dPC \in IoctlPCs
        BY <3>9 DEF DCloseHid, callVars, TypeOK, DaemonTypes
      <4>2. dPC' \in IoctlPCs \/ dPC' = Return
        BY <3>9 DEF DCloseHid
      <4>3. Return \in {"acquire", "succ", "fail"} /\ (Return = "acquire" <=> req = "enable")
        BY <4>1 DEF Return, Requests
      <4>. QED  BY <4>1, <4>2, <4>3
    <3>10. CASE Attempt
      <4>1. UNCHANGED <<wakeLock, req>>
        BY <3>10 DEF Attempt, callVars
      <4>2. dPC \notin Outside \cup IoctlPCs /\ dPC' \notin Outside \cup IoctlPCs
        BY <3>10 DEF Attempt, DOpenChannel, DWakeup, DWakeCheck, DGuard, DReadUart,
                    DExchangeHid, DAuthenticated
      <4>. QED  BY <4>1, <4>2
    <3>. QED
      BY <2>2, <3>1, <3>2, <3>3, <3>4, <3>5, <3>6, <3>7, <3>8, <3>9, <3>10 DEF Daemon
  <2>3. CASE Unplug \/ \E d \in Docks : Plug(d)
    BY <2>3 DEF Unplug, Plug, dVars, callVars
  <2>4. CASE Restart
    BY <2>4 DEF Restart
  <2>5. CASE UNCHANGED vars
    BY <2>5 DEF vars, dVars, callVars
  <2>. QED  BY <2>1, <2>2, <2>3, <2>4, <2>5 DEF Next
<1>. QED  BY <1>1, <1>3 DEF SleepInv

LEMMA SleepInvCorrect == Spec => []SleepInv
<1>1. Init => SleepInv
  BY DEF Init, SleepInv, LockAccounted, Outside, IoctlPCs, Closing
<1>. QED  BY <1>1, SleepInvStep, TypeCorrect, PTL DEF Spec

\* No exchange with a dock, and no report of its outcome, without the wake lock,
\* but in a session to which the kernel refused it; no wait for events with it,
\* but after a termination or a release that failed.
THEOREM SleepCorrect == Spec => []SleepSafe
<1>1. TypeOK /\ SleepInv => SleepSafe
  BY DEF SleepInv, SleepSafe, LockAccounted, Outside, IoctlPCs, Closing, TypeOK,
     DaemonTypes, LockResults
<1>. QED  BY <1>1, SleepInvCorrect, TypeCorrect, PTL

\* The wake lock is held for a session, or since a termination in a session or a
\* release that failed.
THEOREM LockCorrect == Spec => []LockAccounted
<1>1. SleepInv => LockAccounted
  BY DEF SleepInv
<1> QED BY <1>1, SleepInvCorrect, PTL

-----------------------------------------------------------------------------
(* A session shrinks.  An attempt runs with its number, and a wakeup with  *)
(* its own; the rest is one comparison per step of the daemon.             *)

CountInv ==
    /\ dPC \in Identifying \cup {"idcheck"} => tryComm # 0
    /\ dPC = "wakeup" => tryWakeup # 0

LEMMA CountInvStep ==
    ASSUME TypeOK, CountInv, [Next]_vars
    PROVE  CountInv'
<1> USE DEF CountInv, Identifying
<1>1. CASE UeventThread
  BY <1>1 DEF UeventThread, dVars, commVars
<1>2. CASE Daemon
  <2>1. CASE DWait \/ DCheck \/ DEnableUart
    BY <2>1 DEF DWait, DCheck, DEnableUart, CallIoctl
  <2>2. CASE DAcquire \/ DLoop \/ DProtocol
    BY <2>2 DEF DAcquire, DLoop, DProtocol
  <2>3. CASE DIdCheck \/ DRetry \/ DReported \/ DRelease
    BY <2>3 DEF DIdCheck, DRetry, DReported, DRelease, CallIoctl
  <2>4. CASE DIoctl \/ DIoctlResult
    BY <2>4 DEF DIoctl, DIoctlResult
  <2>5. CASE DCloseHid
    <3>1. dPC' \in {"hidclose", "hidclear", "acquire", "succ", "fail"}
      BY <2>5 DEF DCloseHid, Return, TypeOK, DaemonTypes, Requests
    <3> QED BY <3>1
  <2>6. CASE Attempt
    <3>1. UNCHANGED tryComm /\ dPC \in Identifying
      BY <2>6 DEF Attempt, DOpenChannel, DWakeup, DWakeCheck, DGuard,
         DReadUart, DExchangeHid, DAuthenticated
    <3>2. dPC' = "wakeup" => tryWakeup' # 0
      BY <2>6 DEF Attempt, DOpenChannel, DWakeup, DWakeCheck, DGuard,
         DReadUart, DExchangeHid, DAuthenticated
    <3> QED BY <3>1, <3>2
  <2> QED BY <1>2, <2>1, <2>2, <2>3, <2>4, <2>5, <2>6 DEF Daemon
<1>3. CASE Unplug \/ \E d \in Docks : Plug(d)
  BY <1>3 DEF Unplug, Plug, dVars, commVars
<1>4. CASE Restart
  BY <1>4 DEF Restart
<1>5. CASE UNCHANGED vars
  BY <1>5 DEF vars, dVars, commVars
<1> QED BY <1>1, <1>2, <1>3, <1>4, <1>5 DEF Next

\* Each count of what is left is a natural number.
LeftNat == /\ AttemptsLeft \in Nat /\ StagesLeft \in Nat
           /\ RoundsLeft \in Nat /\ StepsLeft \in Nat

LEMMA LeftTypes == TypeOK => LeftNat
<1> SUFFICES ASSUME TypeOK PROVE LeftNat
  OBVIOUS
<1> USE Limits DEF TypeOK, RetryTypes, StepTypes
<1>1. AttemptsLeft \in Nat
  BY DEF AttemptsLeft
<1>2. StagesLeft \in Nat
  BY DEF StagesLeft
<1>3. RoundsLeft \in Nat
  BY DEF RoundsLeft, HidSteps
<1>4. StepsLeft \in Nat
  BY DEF StepsLeft
<1> QED BY <1>1, <1>2, <1>3, <1>4 DEF LeftNat

LEMMA LeftTypesNext == TypeOK' => LeftNat'
BY LeftTypes, PTL

\* The stage of each control point of a session.
LEMMA StageTable ==
    /\ dPC \in {"open", "else", "protocol"} => StagesLeft = 7
    /\ dPC = "loop" => StagesLeft \in {0, 7}
    /\ dPC = "loop" /\ tryComm # 0 /\ globalState = "DOCKED" => StagesLeft = 7
    /\ dPC = "loop" /\ ~(tryComm # 0 /\ globalState = "DOCKED") => StagesLeft = 0
    /\ dPC \in {"wakeup", "wakecheck"} => StagesLeft = 6
    /\ dPC \in {"guard", "uart", "hidguard", "hid"} => StagesLeft = 5
    /\ dPC \in {"auth", "idcheck"} => StagesLeft = 4
    /\ dPC \in IoctlPCs /\ req = "succ" => StagesLeft = 3
    /\ dPC = "succ" => StagesLeft = 3
    /\ dPC = "still" => StagesLeft = 2
    /\ dPC \in IoctlPCs /\ req = "fail" => StagesLeft = 1
    /\ dPC = "fail" => StagesLeft = 1
    /\ dPC = "release" => StagesLeft = 0
BY DEF StagesLeft, Reporting, IoctlPCs, Closing

\* The same after a step.
LEMMA StageTableNext ==
    /\ dPC' \in {"open", "else", "protocol"} => StagesLeft' = 7
    /\ dPC' = "loop" /\ tryComm' # 0 /\ globalState' = "DOCKED" => StagesLeft' = 7
    /\ dPC' = "loop" /\ ~(tryComm' # 0 /\ globalState' = "DOCKED") => StagesLeft' = 0
    /\ dPC' \in {"wakeup", "wakecheck"} => StagesLeft' = 6
    /\ dPC' \in {"guard", "uart", "hidguard", "hid"} => StagesLeft' = 5
    /\ dPC' \in {"auth", "idcheck"} => StagesLeft' = 4
    /\ dPC' \in IoctlPCs /\ req' = "succ" => StagesLeft' = 3
    /\ dPC' = "succ" => StagesLeft' = 3
    /\ dPC' = "still" => StagesLeft' = 2
    /\ dPC' \in IoctlPCs /\ req' = "fail" => StagesLeft' = 1
    /\ dPC' = "fail" => StagesLeft' = 1
    /\ dPC' = "release" => StagesLeft' = 0
BY DEF StagesLeft, Reporting, IoctlPCs, Closing

\* Less is left when one count is smaller and none before it is larger.
LEMMA Less ==
    ASSUME TypeOK, TypeOK',
           \/ AttemptsLeft' < AttemptsLeft
           \/ /\ AttemptsLeft' <= AttemptsLeft
              /\ StagesLeft' < StagesLeft
           \/ /\ AttemptsLeft' <= AttemptsLeft /\ StagesLeft' <= StagesLeft
              /\ RoundsLeft' < RoundsLeft
           \/ /\ AttemptsLeft' <= AttemptsLeft /\ StagesLeft' <= StagesLeft
              /\ RoundsLeft' <= RoundsLeft /\ StepsLeft' < StepsLeft
    PROVE  SessionLess
<1> DEFINE a == AttemptsLeft  b == StagesLeft  c == RoundsLeft  d == StepsLeft
<1>1. a \in Nat /\ b \in Nat /\ c \in Nat /\ d \in Nat
  BY LeftTypes DEF LeftNat
<1>2. a' \in Nat /\ b' \in Nat /\ c' \in Nat /\ d' \in Nat
  BY LeftTypesNext DEF LeftNat
<1>3. /\ SessionLeft[1] = a /\ SessionLeft[2] = b
      /\ SessionLeft[3] = c /\ SessionLeft[4] = d
  BY DEF SessionLeft
<1>4. /\ SessionLeft'[1] = a' /\ SessionLeft'[2] = b'
      /\ SessionLeft'[3] = c' /\ SessionLeft'[4] = d'
  BY DEF SessionLeft
<1> HIDE DEF a, b, c, d
<1>5. \/ a' < a
      \/ a' = a /\ b' < b
      \/ a' = a /\ b' = b /\ c' < c
      \/ a' = a /\ b' = b /\ c' = c /\ d' < d
  <2>1. \/ a' < a
        \/ a' <= a /\ b' < b
        \/ a' <= a /\ b' <= b /\ c' < c
        \/ a' <= a /\ b' <= b /\ c' <= c /\ d' < d
    BY DEF a, b, c, d
  <2> QED BY <2>1, <1>1, <1>2
<1>6. CASE a' < a
  BY <1>1, <1>2, <1>3, <1>4, <1>6 DEF SessionLess
<1>7. CASE a' = a /\ b' < b
  <2>1. b' \in 0..(b - 1)
    BY <1>1, <1>2, <1>7
  <2>2. \A j \in 1..(2 - 1) : SessionLeft'[j] = SessionLeft[j]
    BY <1>3, <1>4, <1>7
  <2> QED BY <1>3, <1>4, <2>1, <2>2 DEF SessionLess
<1>8. CASE a' = a /\ b' = b /\ c' < c
  <2>1. c' \in 0..(c - 1)
    BY <1>1, <1>2, <1>8
  <2>2. \A j \in 1..(3 - 1) : SessionLeft'[j] = SessionLeft[j]
    BY <1>3, <1>4, <1>8
  <2> QED BY <1>3, <1>4, <2>1, <2>2 DEF SessionLess
<1>9. CASE a' = a /\ b' = b /\ c' = c /\ d' < d
  <2>1. d' \in 0..(d - 1)
    BY <1>1, <1>2, <1>9
  <2>2. \A j \in 1..(4 - 1) : SessionLeft'[j] = SessionLeft[j]
    BY <1>3, <1>4, <1>9
  <2> QED BY <1>3, <1>4, <2>1, <2>2 DEF SessionLess
<1> QED BY <1>5, <1>6, <1>7, <1>8, <1>9

\* Every step of the daemon in a session leaves less of it.
LEMMA DaemonShrinks ==
    ASSUME TypeOK, TypeOK', CountInv, Daemon, InSession, InSession'
    PROVE  SessionLess
<1>1. CASE DWait \/ DCheck \/ DEnableUart \/ DAcquire \/ DRelease
  BY <1>1 DEF DWait, DCheck, DEnableUart, DAcquire, DRelease, InSession, Outside
<1>2. CASE DLoop
  <2>1. dPC = "loop" /\ dPC' \in {"protocol", "release"} /\ UNCHANGED tryComm
    BY <1>2 DEF DLoop
  <2>2. AttemptsLeft' = AttemptsLeft
    BY <2>1 DEF AttemptsLeft
  <2>3. CASE dPC' = "protocol"
    <3>1. StagesLeft = 7 /\ StagesLeft' = 7
      BY <1>2, <2>3, StageTable, StageTableNext
         DEF DLoop
    <3>2. RoundsLeft = 0 /\ RoundsLeft' = 0 /\ StepsLeft = 2 /\ StepsLeft' = 1
      BY <2>1, <2>3 DEF RoundsLeft, StepsLeft
    <3> QED BY <2>2, <3>1, <3>2, LeftTypes, Less DEF LeftNat
  <2>4. CASE dPC' = "release"
    <3>1. StagesLeft = 0 /\ StagesLeft' = 0
      BY <1>2, <2>4, StageTable, StageTableNext
         DEF DLoop, IoctlPCs, Closing
    <3>2. RoundsLeft = 0 /\ RoundsLeft' = 0 /\ StepsLeft = 2 /\ StepsLeft' = 0
      BY <2>1, <2>4 DEF RoundsLeft, StepsLeft
    <3> QED BY <2>2, <3>1, <3>2, LeftTypes, Less DEF LeftNat
  <2> QED BY <2>1, <2>3, <2>4
<1>3. CASE DProtocol
  <2>1. AttemptsLeft' = AttemptsLeft
    BY <1>3 DEF DProtocol, AttemptsLeft
  <2>2. CASE dPC = "protocol"
    <3>1. dPC' \in {"open", "else"}
      BY <1>3, <2>2 DEF DProtocol
    <3>2. /\ StagesLeft = 7 /\ StagesLeft' = 7
          /\ RoundsLeft = 0 /\ RoundsLeft' = 0
          /\ StepsLeft = 1 /\ StepsLeft' = 0
      BY <2>2, <3>1, StageTable, StageTableNext
         DEF RoundsLeft, StepsLeft
    <3> QED BY <2>1, <3>2, LeftTypes, Less DEF LeftNat
  <2>3. CASE dPC = "else"
    <3>1. dPC' \in {"hid", "idcheck"}
      BY <1>3, <2>3 DEF DProtocol
    <3>2. StagesLeft = 7 /\ StagesLeft' < 7
      BY <2>3, <3>1, StageTable, StageTableNext
    <3> QED BY <2>1, <3>2, LeftTypes, Less DEF LeftNat
  <2> QED BY <1>3, <2>2, <2>3 DEF DProtocol
<1>4. CASE DIdCheck
  <2>1. dPC = "idcheck" /\ StagesLeft = 4
    BY <1>4, StageTable, StageTableNext
       DEF DIdCheck
  <2>2. CASE globalState = "IDSUCC"
    <3>1. dPC' = "ioctl" /\ req' = "succ" /\ tryComm' = 0
      BY <1>4, <2>2 DEF DIdCheck, CallIoctl
    <3>2. StagesLeft' = 3 /\ AttemptsLeft' = 0
      BY <3>1, StageTable, StageTableNext
         DEF AttemptsLeft, IoctlPCs, Closing
    <3> QED BY <2>1, <3>2, LeftTypes, Less DEF LeftNat
  <2>3. CASE globalState # "IDSUCC"
    <3>1. dPC' = "still" /\ tryComm' = tryComm /\ tryComm # 0
      BY <1>4, <2>1, <2>3 DEF DIdCheck, CountInv
    <3>2. StagesLeft' = 2 /\ AttemptsLeft' = AttemptsLeft
      BY <3>1, StageTable, StageTableNext
         DEF AttemptsLeft, IoctlPCs, Closing
    <3> QED BY <2>1, <3>2, LeftTypes, Less DEF LeftNat
  <2> QED BY <2>2, <2>3
<1>5. CASE DRetry
  <2>1. dPC = "still" /\ StagesLeft = 2 /\ UNCHANGED globalState
    BY <1>5, StageTable, StageTableNext
       DEF DRetry, sharedVars, IoctlPCs, Closing
  <2>2. CASE globalState = "DOCKED" /\ tryComm = MAX_TRY_COMM
    <3>1. dPC' = "ioctl" /\ req' = "fail" /\ tryComm' = 0
      BY <1>5, <2>2 DEF DRetry, CallIoctl
    <3>2. StagesLeft' = 1 /\ AttemptsLeft' = 0
      BY <3>1, StageTable, StageTableNext
         DEF AttemptsLeft, IoctlPCs, Closing
    <3> QED BY <2>1, <3>2, LeftTypes, Less DEF LeftNat
  <2>3. CASE globalState = "DOCKED" /\ tryComm # MAX_TRY_COMM
    <3>1. dPC' = "loop" /\ tryComm' = tryComm + 1
      BY <1>5, <2>3 DEF DRetry
    <3>2. tryComm \in 0..(MAX_TRY_COMM - 1)
      BY <2>3, Limits DEF TypeOK, RetryTypes
    <3>3. AttemptsLeft = MAX_TRY_COMM - tryComm
      BY <2>1, <2>3, <3>2, Limits DEF AttemptsLeft
    <3>4. AttemptsLeft' = MAX_TRY_COMM - (tryComm + 1)
      BY <3>1, <3>2, Limits DEF AttemptsLeft
    <3> QED BY <3>2, <3>3, <3>4, Limits, Less
  <2>4. CASE globalState # "DOCKED"
    <3>1. dPC' = "loop" /\ tryComm' = tryComm /\ globalState' # "DOCKED"
      BY <1>5, <2>1, <2>4 DEF DRetry
    <3>2. StagesLeft' = 0 /\ AttemptsLeft' = AttemptsLeft
      BY <2>4, <3>1, StageTable, StageTableNext
         DEF AttemptsLeft
    <3> QED BY <2>1, <3>2, LeftTypes, Less DEF LeftNat
  <2> QED BY <2>2, <2>3, <2>4
<1>6. CASE DReported
  <2>1. UNCHANGED tryComm
    BY <1>6 DEF DReported
  <2>2. CASE dPC = "succ"
    <3>1. dPC' = "still" /\ globalState' = "IDSUCC"
      BY <1>6, <2>2 DEF DReported
    <3>2. /\ AttemptsLeft' = AttemptsLeft
          /\ StagesLeft = 3 /\ StagesLeft' = 2
      BY <2>1, <2>2, <3>1, StageTable, StageTableNext
         DEF AttemptsLeft, IoctlPCs, Closing
    <3> QED BY <3>2, LeftTypes, Less DEF LeftNat
  <2>3. CASE dPC = "fail"
    <3>1. dPC' = "loop" /\ globalState' = "IDFAIL"
      BY <1>6, <2>3 DEF DReported
    <3>2. /\ AttemptsLeft' = AttemptsLeft
          /\ StagesLeft = 1 /\ StagesLeft' = 0
      BY <2>1, <2>3, <3>1, StageTable, StageTableNext
         DEF AttemptsLeft, IoctlPCs, Closing
    <3> QED BY <3>2, LeftTypes, Less DEF LeftNat
  <2> QED BY <1>6, <2>2, <2>3 DEF DReported
<1>7. CASE DIoctl \/ DIoctlResult \/ DCloseHid
  <2>1. /\ dPC \in IoctlPCs /\ UNCHANGED <<tryComm, req>>
        /\ dPC' \in IoctlPCs \/ (dPC' = Return /\ dPC \in Closing)
    BY <1>7 DEF DIoctl, DIoctlResult, DCloseHid, IoctlPCs, Closing, callVars
  <2>2. req \in {"succ", "fail"}
    BY <2>1 DEF InSession, TypeOK, DaemonTypes, Requests
  <2>3. dPC' \in IoctlPCs \cup {req}
    BY <2>1, <2>2 DEF Return
  <2>4. AttemptsLeft' = AttemptsLeft
    BY <2>1, <2>2, <2>3 DEF AttemptsLeft, IoctlPCs, Closing
  <2>5. StagesLeft' = StagesLeft
    BY <2>1, <2>2, <2>3, StageTable, StageTableNext
       DEF IoctlPCs, Closing
  <2>6. CASE DIoctl
    <3>1. /\ dPC = "ioctl" /\ dPC' \in {"ioctl_ok", "ioctl_bad"}
          /\ UNCHANGED tries
      BY <2>6 DEF DIoctl, callVars
    <3>2. RoundsLeft' = RoundsLeft /\ StepsLeft = 1 /\ StepsLeft' = 0
      BY <3>1 DEF RoundsLeft, StepsLeft
    <3> QED BY <2>4, <2>5, <3>2, LeftTypes, Less DEF LeftNat
  <2>7. CASE DIoctlResult
    <3>1. dPC \in {"ioctl_ok", "ioctl_bad"} /\ tries \in 0..(MAX_TRY_IOCTL - 1)
      BY <2>7, Limits DEF DIoctlResult, TypeOK, RetryTypes
    <3>2. RoundsLeft = MAX_TRY_IOCTL - tries
      BY <3>1 DEF RoundsLeft
    <3>3. CASE dPC' = "ioctl"
      <4>1. tries' = tries + 1
        BY <2>7, <3>3 DEF DIoctlResult
      <4>2. RoundsLeft' = MAX_TRY_IOCTL - (tries + 1)
        BY <3>3, <4>1 DEF RoundsLeft
      <4>3. RoundsLeft' < RoundsLeft
        BY <3>1, <3>2, <4>2, Limits
      <4> QED BY <2>4, <2>5, <4>3, LeftTypes, Less DEF LeftNat
    <3>4. CASE dPC' = "hidtest"
      <4>1. RoundsLeft' = 0
        BY <3>4 DEF RoundsLeft
      <4>2. RoundsLeft' < RoundsLeft
        BY <3>1, <3>2, <4>1, Limits
      <4> QED BY <2>4, <2>5, <4>2, LeftTypes, Less DEF LeftNat
    <3> QED BY <2>7, <3>3, <3>4 DEF DIoctlResult
  <2>8. CASE DCloseHid
    <3>1. \/ dPC = "hidtest" /\ dPC' \in {"hidclose", req}
          \/ dPC = "hidclose" /\ dPC' = "hidclear"
          \/ dPC = "hidclear" /\ dPC' = req
      BY <2>2, <2>8 DEF DCloseHid, Return
    <3>2. RoundsLeft = 0 /\ RoundsLeft' = 0
      BY <2>2, <3>1 DEF RoundsLeft
    <3>3. StepsLeft' < StepsLeft
      BY <2>2, <3>1 DEF StepsLeft
    <3> QED BY <2>4, <2>5, <3>2, <3>3, LeftTypes, Less DEF LeftNat
  <2> QED BY <1>7, <2>6, <2>7, <2>8
<1>8. CASE Attempt
  <2>1. /\ dPC \in Identifying /\ UNCHANGED tryComm /\ tryComm # 0
        /\ dPC' \in Identifying \cup {"idcheck"}
    BY <1>8 DEF Attempt, DOpenChannel, DWakeup, DWakeCheck, DGuard, DReadUart,
       DExchangeHid, DAuthenticated, Identifying, CountInv
  <2>2. AttemptsLeft' = AttemptsLeft
    BY <2>1 DEF AttemptsLeft
  <2>3. step \in 1..4 /\ HidSteps = 4
    BY DEF TypeOK, StepTypes, HidSteps
  <2>4. tryWakeup \in 0..MAX_TRY_WAKEUP
    BY DEF TypeOK, RetryTypes
  <2>5. CASE DOpenChannel
    <3>0. dPC = "open" /\ dPC' \in {"wakeup", "idcheck"}
      BY <2>5 DEF DOpenChannel
    <3>1. StagesLeft = 7 /\ StagesLeft' < 7
      BY <3>0, StageTable, StageTableNext
    <3> QED BY <2>2, <3>1, LeftTypes, Less DEF LeftNat
  <2>6. CASE DWakeup
    <3>1. /\ dPC = "wakeup" /\ dPC' = "wakecheck" /\ tryWakeup # 0
          /\ tryWakeup' \in {0, tryWakeup + 1}
      BY <2>6 DEF DWakeup, CountInv
    <3>2. StagesLeft = 6 /\ StagesLeft' = 6
      BY <3>1, StageTable, StageTableNext
    <3>3. RoundsLeft = MAX_TRY_WAKEUP + 1 - tryWakeup
      BY <3>1 DEF RoundsLeft
    <3>4. RoundsLeft' \in {0, MAX_TRY_WAKEUP + 1 - (tryWakeup + 1)}
      BY <3>1, <2>4 DEF RoundsLeft
    <3>5. RoundsLeft' < RoundsLeft
      BY <2>4, <3>3, <3>4, Limits
    <3> QED BY <2>2, <3>2, <3>5, LeftTypes, Less DEF LeftNat
  <2>7. CASE DWakeCheck
    <3>1. dPC = "wakecheck" /\ StagesLeft = 6
      BY <2>7, StageTable, StageTableNext
         DEF DWakeCheck
    <3>2. CASE dPC' = "wakeup"
      <4>1. tryWakeup' = tryWakeup /\ tryWakeup # 0
        BY <2>7, <3>2 DEF DWakeCheck
      <4>2. StagesLeft' = 6 /\ RoundsLeft' = RoundsLeft
        BY <3>1, <3>2, <4>1, StageTable, StageTableNext
           DEF RoundsLeft
      <4>3. StepsLeft = 1 /\ StepsLeft' = 0
        BY <3>1, <3>2 DEF StepsLeft
      <4> QED BY <2>2, <3>1, <4>2, <4>3, LeftTypes, Less DEF LeftNat
    <3>3. CASE dPC' \in {"guard", "idcheck"}
      <4>1. StagesLeft' < 6
        BY <3>3, StageTable, StageTableNext
      <4> QED BY <2>2, <3>1, <4>1, LeftTypes, Less DEF LeftNat
    <3> QED BY <2>7, <3>2, <3>3 DEF DWakeCheck
  <2>8. CASE DGuard
    <3>1. /\ dPC \in {"guard", "hidguard"} /\ dPC' \in {"idcheck", "uart", "hid"}
          /\ UNCHANGED step
      BY <2>8 DEF DGuard, commVars
    <3>2. StagesLeft = 5 /\ StepsLeft = 1
      BY <3>1, StageTable, StageTableNext
         DEF StepsLeft
    <3>3. CASE dPC' = "idcheck"
      <4>1. StagesLeft' = 4
        BY <3>3, StageTable, StageTableNext
      <4> QED BY <2>2, <3>2, <4>1, LeftTypes, Less DEF LeftNat
    <3>4. CASE dPC' \in {"uart", "hid"}
      <4>1. StagesLeft' = 5 /\ RoundsLeft' = RoundsLeft /\ StepsLeft' = 0
        BY <3>1, <3>4, StageTable, StageTableNext
           DEF RoundsLeft, StepsLeft
      <4> QED BY <2>2, <3>2, <4>1, LeftTypes, Less DEF LeftNat
    <3> QED BY <3>1, <3>3, <3>4
  <2>9. CASE DReadUart \/ DExchangeHid
    <3>1. /\ dPC \in {"uart", "hid"}
          /\ \/ dPC' \in {"guard", "hidguard"} /\ step' = step + 1
             \/ dPC' \in {"auth", "idcheck"}
      BY <2>9 DEF DReadUart, DExchangeHid
    <3>2. StagesLeft = 5 /\ RoundsLeft = HidSteps - step
      BY <3>1, StageTable, StageTableNext
         DEF RoundsLeft
    <3>3. CASE dPC' \in {"guard", "hidguard"} /\ step' = step + 1
      <4>1. StagesLeft' = 5 /\ RoundsLeft' = HidSteps - (step + 1)
        BY <3>3, StageTable, StageTableNext
           DEF RoundsLeft
      <4>2. RoundsLeft' < RoundsLeft
        BY <2>3, <3>2, <4>1
      <4> QED BY <2>2, <3>2, <4>1, <4>2, LeftTypes, Less DEF LeftNat
    <3>4. CASE dPC' \in {"auth", "idcheck"}
      <4>1. StagesLeft' = 4
        BY <3>4, StageTable, StageTableNext
      <4> QED BY <2>2, <3>2, <4>1, LeftTypes, Less DEF LeftNat
    <3> QED BY <3>1, <3>3, <3>4
  <2>10. CASE DAuthenticated
    <3>1. /\ StagesLeft = 4 /\ StagesLeft' = 4
          /\ RoundsLeft = 0 /\ RoundsLeft' = 0
          /\ StepsLeft = 1 /\ StepsLeft' = 0
      BY <2>10, StageTable, StageTableNext
         DEF DAuthenticated, RoundsLeft, StepsLeft
    <3> QED BY <2>2, <3>1, LeftTypes, Less DEF LeftNat
  <2> QED
    BY <1>8, <2>5, <2>6, <2>7, <2>8, <2>9, <2>10 DEF Attempt
<1> QED
  BY <1>1, <1>2, <1>3, <1>4, <1>5, <1>6, <1>7, <1>8 DEF Daemon

\* No exchange that fails, and no order of the threads, lets a session run on:
\* this is why the wake lock is released.
THEOREM SessionEnds == Spec => SessionShrinks
<1> DEFINE Shrinks ==
      InSession /\ InSession' =>
          \/ SessionLess
          \/ dPC' = dPC /\ SessionLeft' = SessionLeft
          \/ dPC' = dPC /\ globalState # "DOCKED" /\ globalState' = "DOCKED"
<1>1. Init => CountInv
  BY DEF Init, CountInv, Identifying
<1>2. ASSUME TypeOK, TypeOK', CountInv, [Next]_vars
      PROVE  Shrinks
  <2>0. SUFFICES ASSUME InSession, InSession' PROVE Shrinks
    OBVIOUS
  <2>1. CASE Daemon
    BY <1>2, <2>0, <2>1, DaemonShrinks
  <2>2. ASSUME UNCHANGED <<dPC, tryComm, req, tries, tryWakeup, step>>,
               globalState' = globalState
        PROVE  Shrinks
    <3>1. SessionLeft' = SessionLeft
      BY <2>2 DEF SessionLeft, AttemptsLeft, StagesLeft, RoundsLeft, StepsLeft,
         Reporting, IoctlPCs
    <3> QED BY <2>2, <3>1
  <2>3. CASE UeventThread
    <3>1. UNCHANGED <<dPC, tryComm, req, tries, tryWakeup, step>>
      BY <2>3 DEF UeventThread, dVars, commVars, callVars
    <3>2. CASE globalState' = globalState
      BY <2>2, <3>1, <3>2
    <3>3. CASE globalState' = "DOCKED"
      BY <2>2, <3>1, <3>3
    <3>4. CASE globalState' = "UNDOCKED" /\ globalState # "UNDOCKED"
      <4>1. AttemptsLeft' <= AttemptsLeft /\ StagesLeft' <= StagesLeft
        <5>1. CASE dPC = "loop"
          <6>1. AttemptsLeft' = AttemptsLeft
            BY <3>1, <5>1 DEF AttemptsLeft
          <6>2. StagesLeft \in {0, 7} /\ StagesLeft' = 0
            BY <3>1, <3>4, <5>1, StageTable, StageTableNext
          <6> QED BY <1>2, <6>1, <6>2, LeftTypes DEF LeftNat
        <5>2. CASE dPC = "still"
          <6>1. AttemptsLeft' <= AttemptsLeft
            BY <1>2, <3>1, <3>4, <5>2, Limits DEF AttemptsLeft, TypeOK, RetryTypes
          <6>2. StagesLeft = 2 /\ StagesLeft' = 2
            BY <3>1, <5>2, StageTable, StageTableNext
          <6> QED BY <6>1, <6>2
        <5>3. CASE dPC # "loop" /\ dPC # "still"
          <6>1. AttemptsLeft' = AttemptsLeft
            BY <3>1, <5>3 DEF AttemptsLeft
          <6>2. StagesLeft' = StagesLeft
            BY <3>1, <5>3 DEF StagesLeft, Reporting, IoctlPCs
          <6> QED BY <1>2, <6>1, <6>2, LeftTypes DEF LeftNat
        <5> QED BY <5>1, <5>2, <5>3
      <4>2. UNCHANGED <<RoundsLeft, StepsLeft>>
        BY <3>1 DEF RoundsLeft, StepsLeft
      <4>3. CASE AttemptsLeft' < AttemptsLeft \/ StagesLeft' < StagesLeft
        BY <1>2, <4>1, <4>3, LeftTypes, Less DEF LeftNat
      <4>4. CASE ~(AttemptsLeft' < AttemptsLeft) /\ ~(StagesLeft' < StagesLeft)
        <5>1. /\ AttemptsLeft' \in Nat /\ StagesLeft' \in Nat
          BY <1>2, LeftTypesNext DEF LeftNat
        <5>2. UNCHANGED <<AttemptsLeft, StagesLeft>>
          BY <1>2, <4>1, <4>4, <5>1, LeftTypes DEF LeftNat
        <5> QED BY <3>1, <4>2, <5>2 DEF SessionLeft
      <4> QED BY <4>3, <4>4
    <3> QED
      BY <2>3, <3>2, <3>3, <3>4 DEF UeventThread, UBind, UReadSwitch, USetState,
         USetProtocol, UOpenHid, UCheckHid, UPost, UReceive, sharedVars
  <2>4. CASE Unplug \/ \E d \in Docks : Plug(d)
    BY <2>2, <2>4 DEF Unplug, Plug, sharedVars, dVars, commVars, callVars
  <2>5. CASE Restart
    BY <2>0, <2>5 DEF Restart, InSession, Outside
  <2>6. CASE UNCHANGED vars
    BY <2>2, <2>6 DEF vars, sharedVars, dVars, commVars, callVars
  <2> QED BY <1>2, <2>1, <2>3, <2>4, <2>5, <2>6 DEF Next
<1>3. Spec => []CountInv
  BY <1>1, CountInvStep, TypeCorrect, PTL DEF Spec
<1> QED
  BY <1>2, <1>3, TypeCorrect, PTL DEF Spec, SessionShrinks
=============================================================================
