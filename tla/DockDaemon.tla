----------------------------- MODULE DockDaemon -----------------------------
(***************************************************************************)
(* whisperd, the dock accessory daemon (whisper/Whisper_AccyMain.c).       *)
(*                                                                         *)
(* Two threads of one process share globalState, globalProtocol and hidFd  *)
(* without a lock.  The uevent thread (waitForUevents) reads the switch a  *)
(* kernel event names, records what it finds and posts SigAccyProtStart;   *)
(* the protocol daemon (accyProtDaemon) waits on that semaphore, reads the *)
(* identity of the dock and reports it to the cpcap driver by ioctl.  Each *)
(* action below is a stretch of one thread that touches the shared state   *)
(* at most once, so that every interleaving of the threads is a behaviour. *)
(*                                                                         *)
(* The kernel's switches, its event socket, the docks and the user who     *)
(* plugs them are the environment.                                         *)
(***************************************************************************)
EXTENDS Integers, Sequences

CONSTANTS
    UartDocks,          \* docks that raise the "whisper" switch
    HidDocks,           \* docks that raise the "whisper_hid" switch
    NoDock,             \* no dock; the device of a dock that was unplugged
    OtherDevice,        \* a hidraw device that is not a dock
    OtherHid,           \* hidraw nodes of other devices, before the dock's
    HIDRAW_MAX_DEVICES,
    MAX_TRY_COMM, MAX_TRY_WAKEUP, MAX_TRY_IOCTL,
    MaxFd,              \* descriptors the process may hold for hidraw nodes
    QueueCap,           \* events the netlink socket buffers
    MaxPlugs,           \* bound on plugging and unplugging
    MaxRestarts,        \* bound on terminations by a signal
    SwitchFaults,       \* bound on failed reads of a switch
    IoctlFaults,        \* bound on failed ioctls
    CommFaults,         \* bound on failed exchanges with an attached dock
    StatusFaults,       \* bound on UART reads that succeed with a status packet
    LockFaults          \* bound on failures to take, and to release, the wake lock

Docks == UartDocks \cup HidDocks

ASSUME DockAssumption ==
    /\ NoDock \notin Docks /\ OtherDevice \notin Docks /\ OtherDevice # NoDock
    /\ UartDocks \cap HidDocks = {}

ASSUME BoundAssumption ==
    /\ MAX_TRY_COMM \in Nat \ {0}
    /\ MAX_TRY_WAKEUP \in Nat \ {0}
    /\ MAX_TRY_IOCTL \in Nat \ {0}
    /\ HIDRAW_MAX_DEVICES \in Nat \ {0}
    /\ OtherHid \in Nat
    /\ MaxFd \in Nat
    /\ QueueCap \in Nat
    /\ MaxPlugs \in Nat
    /\ MaxRestarts \in Nat
    /\ SwitchFaults \in Nat
    /\ IoctlFaults \in Nat
    /\ CommFaults \in Nat
    /\ StatusFaults \in Nat
    /\ LockFaults \in Nat

VARIABLES
    \* the environment
    plugged,        \* the dock in the connector
    plugs,          \* how often the connector changed
    restarts,       \* how often the process was terminated and started again
    faults,         \* faults that have happened, by kind
    \* the kernel's state for the process
    queue,          \* switches named by the buffered events
    report,         \* the last request the cpcap driver accepted
    lockHeld,       \* the kernel holds the wake lock "ACCYDET"
    fds,            \* open hidraw descriptors: number -> device behind it
    \* shared by the threads
    globalState, globalProtocol, hidFd,
    sem,            \* the count of SigAccyProtStart
    \* the uevent thread
    uPC,
    protocolType,   \* the argument of readSwitchState
    boot,           \* which power-up read is running, or "done"
    hidIdx,         \* i in the loop over hidraw nodes
    \* the protocol daemon
    dPC,
    step,           \* the exchange of the identification that is next
    tryComm, tryWakeup, wakeupSuccess,
    wakeLock,       \* the int of that name: zero, or what acquire_wake_lock
                    \* returned, a length or an error, neither of them zero
    req,            \* the request doIoctl was called with
    tries,          \* i in doIoctl
    ident,          \* statusFuse, FSNo and RomSN: the dock each was read from
    fresh           \* auxiliary: the parts of ident read in this attempt

envVars    == <<plugged, plugs, restarts>>
sharedVars == <<globalState, globalProtocol>>
hidVars    == <<hidFd, fds>>
uVars      == <<uPC, protocolType, boot, hidIdx>>
commVars   == <<step, tryWakeup, wakeupSuccess, ident, fresh>>
callVars   == <<req, tries>>
dVars      == <<dPC, tryComm, wakeLock, commVars, callVars>>
kernVars   == <<report, lockHeld>>
vars       == <<envVars, faults, queue, kernVars, sharedVars, hidVars, sem,
                uVars, dVars>>

-----------------------------------------------------------------------------
Protocols == {"UART", "HID"}

Parts == {"statusFuse", "FSNo", "RomSN"}

GlobalStates == {"UNDOCKED", "DOCKED", "IDSUCC", "IDFAIL"}

Requests == {"enable", "succ", "fail"}

FaultKinds == {"switch", "ioctl", "comm", "status", "acquire", "release"}

LockResults == {"zero", "length", "error"}

\* The part of the identity each SHAC_Read of the UART session delivers.
UartPart == <<"statusFuse", "FSNo", "RomSN">>

\* Exchanges of the HID session: write status query, read the answer, write
\* ID query, read the answer.
HidSteps == 4
UartSteps == 3

NoIdent == [p \in Parts |-> NoDock]

DocksOf(p) == IF p = "UART" THEN UartDocks ELSE HidDocks

Ident == [Parts -> Docks \cup {NoDock}]

\* What the switch of protocol p reads as.
SwitchOn(p) == plugged \in DocksOf(p)

\* The device behind the i-th hidraw node: other devices come first.
NodeExists(i) == i < OtherHid \/ (i = OtherHid /\ plugged \in HidDocks)
NodeDevice(i) == IF i < OtherHid THEN OtherDevice ELSE plugged

FreeFds == (1..MaxFd) \ DOMAIN fds

\* fd is open on the hidraw node of the attached dock.
DockBehind(fd) == fd \in DOMAIN fds /\ fds[fd] \in HidDocks

-----------------------------------------------------------------------------
Init ==
    /\ plugged \in Docks \cup {NoDock}
    /\ plugs = 0 /\ restarts = 0
    /\ faults = [k \in FaultKinds |-> 0]
    /\ queue = <<>>
    /\ report = [kind |-> "none", ident |-> NoIdent]
    /\ lockHeld = FALSE
    /\ fds = [f \in {} |-> NoDock]
    /\ globalState = "UNDOCKED" /\ globalProtocol = "UART"
    /\ hidFd = -1 /\ sem = 0
    /\ uPC = "bind" /\ protocolType = "HID" /\ boot = "HID" /\ hidIdx = 0
    /\ dPC = "wait" /\ step = 1 /\ tryComm = 0 /\ tryWakeup = 0
    /\ wakeupSuccess = FALSE /\ wakeLock = "zero"
    /\ req = "enable" /\ tries = 0
    /\ ident = NoIdent /\ fresh = {}

-----------------------------------------------------------------------------
(* The environment: plugging, unplugging, and the events they raise.       *)

\* An event is lost when the socket is not bound yet or its buffer is full.
Notify(p) ==
    queue' = IF uPC # "bind" /\ Len(queue) < QueueCap
             THEN Append(queue, p) ELSE queue

Plug(d) ==
    /\ plugged = NoDock /\ plugs < MaxPlugs
    /\ plugged' = d /\ plugs' = plugs + 1
    /\ \E p \in Protocols : d \in DocksOf(p) /\ Notify(p)
    /\ UNCHANGED <<restarts, faults, kernVars, sharedVars, hidVars, sem,
                   uVars, dVars>>

\* Descriptors of the dock's hidraw node stay open but reach no device.
Unplug ==
    /\ plugged # NoDock /\ plugs < MaxPlugs
    /\ plugged' = NoDock /\ plugs' = plugs + 1
    /\ \E p \in Protocols : plugged \in DocksOf(p) /\ Notify(p)
    /\ fds' = [f \in DOMAIN fds |-> IF DockBehind(f) THEN NoDock ELSE fds[f]]
    /\ UNCHANGED <<restarts, faults, kernVars, sharedVars, hidFd, sem,
                   uVars, dVars>>

\* SIGINT or SIGTERM: accySigHandler closes the descriptors and exits, and
\* the process starts again.  The driver keeps what it was told, and the
\* kernel keeps the wake lock: nobody releases it on exit.
Restart ==
    /\ restarts < MaxRestarts /\ uPC # "bind"
    /\ restarts' = restarts + 1
    /\ queue' = <<>> /\ fds' = [f \in {} |-> NoDock]
    /\ globalState' = "UNDOCKED" /\ globalProtocol' = "UART"
    /\ hidFd' = -1 /\ sem' = 0
    /\ uPC' = "bind" /\ protocolType' = "HID" /\ boot' = "HID" /\ hidIdx' = 0
    /\ dPC' = "wait" /\ step' = 1 /\ tryComm' = 0 /\ tryWakeup' = 0
    /\ wakeupSuccess' = FALSE /\ wakeLock' = "zero"
    /\ req' = "enable" /\ tries' = 0
    /\ ident' = NoIdent /\ fresh' = {}
    /\ UNCHANGED <<plugged, plugs, faults, kernVars>>

-----------------------------------------------------------------------------
(* The uevent thread.  None of its steps changes envVars, kernVars or      *)
(* dVars.                                                                  *)

\* Mutant of UBind: only events are looked at, not what the switch says already.
UBindWaits ==
    /\ uPC = "bind" /\ uPC' = "select" /\ boot' = "done"
    /\ UNCHANGED <<faults, queue, sharedVars, hidVars, sem, protocolType, hidIdx>>

\* accyInit binds the netlink socket; waitForUevents then reads the HID
\* switch, because an event may have been missed before.  That the socket can be
\* made and bound is assumed.
UBind ==
    /\ uPC = "bind" /\ uPC' = "read"
    /\ UNCHANGED <<faults, queue, sharedVars, hidVars, sem, protocolType,
                   boot, hidIdx>>

\* readSwitchState opens and reads the switch.  An error returns early and
\* the caller goes on as if it had not.
UReadSwitch ==
    /\ uPC = "read"
    /\ \/ /\ uPC' = IF SwitchOn(protocolType) THEN "docked" ELSE "undocked"
          /\ UNCHANGED faults
       \/ /\ faults["switch"] < SwitchFaults
          /\ faults' = [faults EXCEPT !["switch"] = @ + 1]
          /\ uPC' = "post"
    /\ UNCHANGED <<queue, sharedVars, hidVars, sem, protocolType, boot, hidIdx>>

\* globalState is set before globalProtocol and hidFd.  Either switch
\* reading '0' means undocked, whichever dock was in use.
USetState ==
    /\ \/ uPC = "docked"   /\ globalState' = "DOCKED"   /\ uPC' = "protocol"
       \/ uPC = "undocked" /\ globalState' = "UNDOCKED" /\ uPC' = "post"
    /\ UNCHANGED <<faults, queue, globalProtocol, hidVars, sem, protocolType,
                   boot, hidIdx>>

USetProtocol ==
    /\ uPC = "protocol"
    /\ globalProtocol' = protocolType
    /\ uPC' = IF protocolType = "HID" THEN "hidopen" ELSE "post"
    /\ hidIdx' = 0
    /\ UNCHANGED <<faults, queue, globalState, hidVars, sem, protocolType, boot>>

\* hidFd = open("/dev/hidraw<i>"): a free descriptor (nothing depends on which
\* one), or -1.  The descriptor hidFd held before, if any, stays open.
UOpenHid ==
    /\ uPC = "hidopen"
    /\ \/ /\ hidIdx < HIDRAW_MAX_DEVICES /\ NodeExists(hidIdx)
          /\ \E f \in FreeFds :
               /\ hidFd' = f
               /\ fds' = [g \in DOMAIN fds \cup {f} |->
                            IF g = f THEN NodeDevice(hidIdx) ELSE fds[g]]
          /\ uPC' = "hidinfo"
       \/ /\ hidIdx < HIDRAW_MAX_DEVICES
          /\ ~NodeExists(hidIdx) \/ FreeFds = {}
          /\ hidFd' = -1 /\ uPC' = "post" /\ UNCHANGED fds
       \/ /\ hidIdx >= HIDRAW_MAX_DEVICES
          /\ uPC' = "post" /\ UNCHANGED hidVars
    /\ UNCHANGED <<faults, queue, sharedVars, sem, protocolType, boot, hidIdx>>

\* HIDIOCGRAWINFO on hidFd: the dock ends the loop.  For another device the
\* loop goes on with the next node; close(hidDevice) closes no descriptor,
\* its argument is the path.
UCheckHid ==
    /\ uPC = "hidinfo"
    /\ IF DockBehind(hidFd) THEN uPC' = "post" /\ UNCHANGED hidIdx
                            ELSE uPC' = "hidopen" /\ hidIdx' = hidIdx + 1
    /\ UNCHANGED <<faults, queue, sharedVars, hidVars, sem, protocolType, boot>>

\* Mutant of UPost: at power up only the HID switch is read.
UPostHidOnly ==
    /\ uPC = "post" /\ uPC' = "select" /\ boot' = "done"
    /\ sem' = IF boot = "done" \/ globalState = "DOCKED" THEN sem + 1 ELSE sem
    /\ UNCHANGED <<faults, queue, sharedVars, hidVars, protocolType, hidIdx>>

\* Mutant of UPost: at power up only the UART dock is announced.
UPostUartOnly ==
    /\ uPC = "post"
    /\ sem' = IF boot = "done" \/ (boot = "UART" /\ globalState = "DOCKED")
              THEN sem + 1 ELSE sem
    /\ IF boot = "HID" /\ globalState # "DOCKED"
       THEN boot' = "UART" /\ protocolType' = "UART" /\ uPC' = "read"
       ELSE boot' = "done" /\ UNCHANGED protocolType /\ uPC' = "select"
    /\ UNCHANGED <<faults, queue, sharedVars, hidVars, hidIdx>>

\* After an event the semaphore is posted whatever the switch said; at power
\* up only if a dock was found, and the UART switch is read if no HID dock is.
UPost ==
    /\ uPC = "post"
    /\ LET found == boot = "done" \/ globalState = "DOCKED"
       IN /\ sem' = IF found THEN sem + 1 ELSE sem
          /\ IF boot = "HID" /\ ~found
             THEN boot' = "UART" /\ protocolType' = "UART" /\ uPC' = "read"
             ELSE boot' = "done" /\ UNCHANGED protocolType /\ uPC' = "select"
    /\ UNCHANGED <<faults, queue, sharedVars, hidVars, hidIdx>>

\* select and recv: the next event, and which switch it names.
UReceive ==
    /\ uPC = "select" /\ queue # <<>> /\ uPC' = "read"
    /\ protocolType' = Head(queue) /\ queue' = Tail(queue)
    /\ UNCHANGED <<faults, sharedVars, hidVars, sem, boot, hidIdx>>

UeventThread ==
    /\ \/ UBind \/ UReadSwitch \/ USetState \/ USetProtocol
       \/ UOpenHid \/ UCheckHid \/ UPost \/ UReceive
    /\ UNCHANGED <<envVars, kernVars, dVars>>

-----------------------------------------------------------------------------
(* The protocol daemon.  None of its steps changes envVars, queue or uVars. *)

DWait ==
    /\ dPC = "wait" /\ sem > 0 /\ dPC' = "check"
    /\ sem' = sem - 1
    /\ UNCHANGED <<faults, kernVars, sharedVars, hidVars, tryComm, wakeLock,
                   commVars, callVars>>

DCheck ==
    /\ dPC = "check"
    /\ dPC' = IF globalState = "UNDOCKED" THEN "wait" ELSE "enable"
    /\ UNCHANGED <<faults, kernVars, sharedVars, hidVars, sem, tryComm,
                   wakeLock, commVars, callVars>>

\* A call of doIoctl.
CallIoctl(r) == req' = r /\ tries' = 0 /\ dPC' = "ioctl"

DEnableUart ==
    /\ dPC = "enable"
    /\ \/ globalProtocol = "UART" /\ CallIoctl("enable")
       \/ globalProtocol = "HID" /\ dPC' = "acquire" /\ UNCHANGED callVars
    /\ UNCHANGED <<faults, kernVars, sharedVars, hidVars, sem, tryComm,
                   wakeLock, commVars>>

\* The kernel refuses to take or to release the wake lock.
LockFails(k) ==
    /\ faults[k] < LockFaults
    /\ faults' = [faults EXCEPT ![k] = @ + 1]
    /\ UNCHANGED lockHeld

\* wakeLock = acquire_wake_lock(...): an error is not zero either, so that the
\* session goes on, without the lock, and ends in a release.
DAcquire ==
    /\ dPC = "acquire" /\ dPC' = "loop"
    /\ \/ wakeLock' = "length" /\ lockHeld' = TRUE /\ UNCHANGED faults
       \/ wakeLock' = "error" /\ LockFails("acquire")
    /\ tryComm' = 1
    /\ UNCHANGED <<report, sharedVars, hidVars, sem, commVars, callVars>>

\* Mutant of DLoop: the session ends without going through the release.
DLoopSkipsRelease ==
    /\ dPC = "loop"
    /\ IF tryComm # 0 /\ globalState = "DOCKED"
       THEN dPC' = "protocol" /\ step' = 1 /\ fresh' = {}
       ELSE dPC' = "wait" /\ UNCHANGED <<step, fresh>>
    /\ UNCHANGED <<faults, kernVars, sharedVars, hidVars, sem, tryComm,
                   wakeLock, tryWakeup, wakeupSuccess, ident, callVars>>

\* while (tryComm && globalState == DOCKED)
DLoop ==
    /\ dPC = "loop"
    /\ IF tryComm # 0 /\ globalState = "DOCKED"
       THEN dPC' = "protocol" /\ step' = 1 /\ fresh' = {}
       ELSE dPC' = "release" /\ UNCHANGED <<step, fresh>>
    /\ UNCHANGED <<faults, kernVars, sharedVars, hidVars, sem, tryComm,
                   wakeLock, tryWakeup, wakeupSuccess, ident, callVars>>

\* if (globalProtocol == UART) ... else if (globalProtocol == HID): two reads
\* of the variable, between which the other thread may change it.
DProtocol ==
    /\ \/ dPC = "protocol"
          /\ dPC' = IF globalProtocol = "UART" THEN "open" ELSE "else"
       \/ dPC = "else"
          /\ dPC' = IF globalProtocol = "HID" THEN "hid" ELSE "idcheck"
    /\ UNCHANGED <<faults, kernVars, sharedVars, hidVars, sem, tryComm,
                   wakeLock, commVars, callVars>>

\* An exchange fails: always without a dock, now and then with one.
CommFails(reachable) ==
    IF reachable
    THEN /\ faults["comm"] < CommFaults
         /\ faults' = [faults EXCEPT !["comm"] = @ + 1]
    ELSE UNCHANGED faults

\* SHAP_OpenChannel; when it fails the attempt is over.
DOpenChannel ==
    /\ dPC = "open"
    /\ \/ /\ dPC' = "wakeup" /\ tryWakeup' = 1 /\ wakeupSuccess' = FALSE
          /\ UNCHANGED faults
       \/ /\ dPC' = "idcheck" /\ CommFails(TRUE)
          /\ UNCHANGED <<tryWakeup, wakeupSuccess>>
    /\ UNCHANGED <<globalState, step, ident, fresh>>

\* Mutant of DWakeup: one try too many.
DWakeupOnceMore ==
    /\ dPC = "wakeup" /\ dPC' = "wakecheck"
    /\ \/ /\ plugged \in UartDocks /\ UNCHANGED faults
          /\ tryWakeup' = 0 /\ wakeupSuccess' = TRUE
       \/ /\ tryWakeup' = IF tryWakeup > MAX_TRY_WAKEUP THEN 0 ELSE tryWakeup + 1
          /\ UNCHANGED wakeupSuccess /\ CommFails(plugged \in UartDocks)
    /\ UNCHANGED <<globalState, step, ident, fresh>>

DWakeup ==
    /\ dPC = "wakeup" /\ dPC' = "wakecheck"
    /\ \/ /\ plugged \in UartDocks /\ UNCHANGED faults
          /\ tryWakeup' = 0 /\ wakeupSuccess' = TRUE
       \/ /\ tryWakeup' = IF tryWakeup = MAX_TRY_WAKEUP THEN 0 ELSE tryWakeup + 1
          /\ UNCHANGED wakeupSuccess /\ CommFails(plugged \in UartDocks)
    /\ UNCHANGED <<globalState, step, ident, fresh>>

DWakeCheck ==
    /\ dPC = "wakecheck"
    /\ tryWakeup' = IF globalState = "UNDOCKED" THEN 0 ELSE tryWakeup
    /\ dPC' = IF tryWakeup' # 0 THEN "wakeup"
              ELSE IF wakeupSuccess THEN "guard" ELSE "idcheck"
    /\ UNCHANGED <<faults, globalState, step, wakeupSuccess, ident, fresh>>

\* Every exchange with the dock but the first of a HID session is guarded.
DGuard ==
    /\ dPC \in {"guard", "hidguard"}
    /\ dPC' = IF globalState # "DOCKED" THEN "idcheck"
              ELSE IF dPC = "guard" THEN "uart" ELSE "hid"
    /\ UNCHANGED <<faults, globalState, commVars>>

\* Mutant of DReadUart: the status of the read is not looked at.
DReadUartUnchecked ==
    /\ dPC = "uart"
    /\ \/ /\ plugged \in UartDocks
          /\ ident' = [ident EXCEPT ![UartPart[step]] = plugged]
          /\ fresh' = fresh \cup {UartPart[step]} /\ UNCHANGED faults
       \/ CommFails(plugged \in UartDocks) /\ UNCHANGED <<ident, fresh>>
    /\ step' = step + 1
    /\ dPC' = IF step = UartSteps THEN "auth" ELSE "guard"
    /\ UNCHANGED <<globalState, tryWakeup, wakeupSuccess>>

\* SHAC_Read and copyResults.  A failed read ends the attempt.  A read may
\* succeed with a status packet instead of data (the run of ShaComm_status.cfg
\* shows how): what is copied then is nobody's identity.
DReadUart ==
    /\ dPC = "uart"
    /\ \/ /\ plugged \in UartDocks
          /\ \/ /\ ident' = [ident EXCEPT ![UartPart[step]] = plugged]
                /\ UNCHANGED faults
             \/ /\ faults["status"] < StatusFaults
                /\ faults' = [faults EXCEPT !["status"] = @ + 1]
                /\ ident' = [ident EXCEPT ![UartPart[step]] = NoDock]
          /\ fresh' = fresh \cup {UartPart[step]}
          /\ step' = step + 1
          /\ dPC' = IF step = UartSteps THEN "auth" ELSE "guard"
       \/ /\ dPC' = "idcheck" /\ CommFails(plugged \in UartDocks)
          /\ UNCHANGED <<ident, fresh, step>>
    /\ UNCHANGED <<globalState, tryWakeup, wakeupSuccess>>

\* write and read on hidFd, whatever it is by now.  Only an attached dock
\* answers; the last answer carries every part of the identity.
DExchangeHid ==
    /\ dPC = "hid"
    /\ \/ /\ DockBehind(hidFd) /\ step < HidSteps
          /\ step' = step + 1 /\ dPC' = "hidguard"
          /\ UNCHANGED <<faults, ident, fresh>>
       \/ /\ DockBehind(hidFd) /\ step = HidSteps
          /\ ident' = [p \in Parts |-> fds[hidFd]] /\ fresh' = Parts
          /\ dPC' = "auth" /\ UNCHANGED <<faults, step>>
       \/ /\ dPC' = "idcheck" /\ CommFails(DockBehind(hidFd))
          /\ UNCHANGED <<ident, fresh, step>>
    /\ UNCHANGED <<globalState, tryWakeup, wakeupSuccess>>

\* The last answer is in: the state is set, unconditionally.
DAuthenticated ==
    /\ dPC = "auth" /\ dPC' = "idcheck"
    /\ globalState' = "IDSUCC"
    /\ UNCHANGED <<faults, commVars>>

\* One attempt to identify the dock.
Attempt ==
    /\ \/ DOpenChannel \/ DWakeup \/ DWakeCheck \/ DGuard \/ DReadUart
       \/ DExchangeHid \/ DAuthenticated
    /\ UNCHANGED <<kernVars, globalProtocol, hidVars, sem, tryComm, wakeLock,
                   callVars>>

DIdCheck ==
    /\ dPC = "idcheck"
    /\ IF globalState = "IDSUCC"
       THEN tryComm' = 0 /\ CallIoctl("succ")
       ELSE dPC' = "still" /\ UNCHANGED <<tryComm, callVars>>
    /\ UNCHANGED <<faults, kernVars, sharedVars, hidVars, sem, wakeLock, commVars>>

\* Mutant of DRetry: the attempts are not counted.
DRetryForever ==
    /\ dPC = "still" /\ dPC' = "loop"
    /\ UNCHANGED <<faults, kernVars, sharedVars, hidVars, sem, wakeLock,
                   commVars, callVars, tryComm>>

\* Still docked without an identity: give up after MAX_TRY_COMM attempts.
DRetry ==
    /\ dPC = "still"
    /\ \/ /\ globalState = "DOCKED" /\ tryComm = MAX_TRY_COMM
          /\ tryComm' = 0 /\ CallIoctl("fail")
       \/ /\ globalState = "DOCKED" /\ tryComm # MAX_TRY_COMM
          /\ tryComm' = tryComm + 1 /\ dPC' = "loop" /\ UNCHANGED callVars
       \/ /\ globalState # "DOCKED"
          /\ dPC' = "loop" /\ UNCHANGED <<tryComm, callVars>>
    /\ UNCHANGED <<faults, kernVars, sharedVars, hidVars, sem, wakeLock, commVars>>

\* After a report the state is set again, because doIoctl changed it.
DReported ==
    /\ \/ dPC = "succ" /\ dPC' = "still" /\ globalState' = "IDSUCC"
       \/ dPC = "fail" /\ dPC' = "loop"  /\ globalState' = "IDFAIL"
    /\ UNCHANGED <<faults, kernVars, globalProtocol, hidVars, sem, tryComm,
                   wakeLock, commVars, callVars>>

\* Mutant of DRelease: the events that came during the session are dropped.
DReleaseDrain ==
    /\ dPC = "release" /\ dPC' = "wait"
    /\ lockHeld' = FALSE /\ wakeLock' = "zero" /\ sem' = 0
    /\ UNCHANGED <<faults, report, sharedVars, hidVars, tryComm, commVars,
                   callVars>>

\* Mutant of DRelease: wakeLock is reset before it is tested.
DReleaseForgets ==
    /\ dPC = "release" /\ dPC' = "wait" /\ wakeLock' = "zero"
    /\ UNCHANGED <<faults, kernVars, sharedVars, hidVars, sem, tryComm,
                   commVars, callVars>>

\* if (wakeLock) { release_wake_lock(...); wakeLock = 0; }, whatever became of
\* the release.
DRelease ==
    /\ dPC = "release" /\ dPC' = "wait"
    /\ \/ wakeLock = "zero" /\ UNCHANGED <<faults, lockHeld>>
       \/ wakeLock # "zero" /\ lockHeld' = FALSE /\ UNCHANGED faults
       \/ wakeLock # "zero" /\ LockFails("release")
    /\ wakeLock' = "zero"
    /\ UNCHANGED <<report, sharedVars, hidVars, sem, tryComm,
                   commVars, callVars>>

-----------------------------------------------------------------------------
(* doIoctl, called from three places of the daemon.                        *)

\* Only a report of success carries an identity.
DockId == IF req = "succ" THEN ident ELSE NoIdent

\* ioctl on /dev/cpcap: what the driver accepts is the report.
DIoctl ==
    /\ dPC = "ioctl"
    /\ \/ /\ report' = [kind |-> req, ident |-> DockId]
          /\ dPC' = "ioctl_ok" /\ UNCHANGED faults
       \/ /\ faults["ioctl"] < IoctlFaults
          /\ faults' = [faults EXCEPT !["ioctl"] = @ + 1]
          /\ dPC' = "ioctl_bad" /\ UNCHANGED report
    /\ UNCHANGED <<lockHeld, sharedVars, hidVars, sem, tryComm, wakeLock,
                   commVars, callVars>>

\* Mutant of DIoctlResult: a failed ioctl is not repeated.
DIoctlResultNoRetry ==
    /\ \/ dPC = "ioctl_bad" /\ globalState' = "UNDOCKED"
       \/ dPC = "ioctl_ok" /\ globalState' = "DOCKED"
    /\ dPC' = "hidtest"
    /\ UNCHANGED <<faults, kernVars, globalProtocol, hidVars, sem, tryComm,
                   wakeLock, commVars, callVars>>

\* A failure, 50 ms later, counts as undocked; a success as docked.
DIoctlResult ==
    /\ \/ /\ dPC = "ioctl_bad"
          /\ globalState' = "UNDOCKED" /\ tries' = tries + 1
          /\ dPC' = IF tries' < MAX_TRY_IOCTL THEN "ioctl" ELSE "hidtest"
       \/ /\ dPC = "ioctl_ok"
          /\ globalState' = "DOCKED" /\ UNCHANGED tries
          /\ dPC' = "hidtest"
    /\ UNCHANGED <<faults, kernVars, globalProtocol, hidVars, sem, tryComm,
                   wakeLock, commVars, req>>

\* Where doIoctl returns to.
Return == IF req = "enable" THEN "acquire" ELSE req

\* Mutant of DCloseHid: hidFd is not reset after the close.
DCloseHidNoReset ==
    /\ \/ /\ dPC = "hidtest"
          /\ dPC' = IF hidFd > 0 THEN "hidclose" ELSE Return
          /\ UNCHANGED fds
       \/ /\ dPC = "hidclose" /\ dPC' = Return
          /\ fds' = [f \in DOMAIN fds \ {hidFd} |-> fds[f]]
    /\ UNCHANGED <<faults, kernVars, sharedVars, hidFd, sem, tryComm, wakeLock,
                   commVars, callVars>>

\* if (hidFd > 0) { close(hidFd); hidFd = -1; } in three accesses.
DCloseHid ==
    /\ \/ /\ dPC = "hidtest"
          /\ dPC' = IF hidFd > 0 THEN "hidclose" ELSE Return
          /\ UNCHANGED hidVars
       \/ /\ dPC = "hidclose" /\ dPC' = "hidclear"
          /\ fds' = [f \in DOMAIN fds \ {hidFd} |-> fds[f]]
          /\ UNCHANGED hidFd
       \/ /\ dPC = "hidclear" /\ dPC' = Return
          /\ hidFd' = -1 /\ UNCHANGED fds
    /\ UNCHANGED <<faults, kernVars, sharedVars, sem, tryComm, wakeLock,
                   commVars, callVars>>

Daemon ==
    /\ \/ DWait \/ DCheck \/ DEnableUart \/ DAcquire \/ DLoop \/ DProtocol
       \/ Attempt \/ DIdCheck \/ DRetry \/ DReported \/ DRelease
       \/ DIoctl \/ DIoctlResult \/ DCloseHid
    /\ UNCHANGED <<envVars, queue, uVars>>

-----------------------------------------------------------------------------
Next ==
    \/ UeventThread
    \/ Daemon
    \/ \E d \in Docks : Plug(d)
    \/ Unplug
    \/ Restart

Spec == Init /\ [][Next]_vars

\* read(hidFd, ...) has no time-out: while a HID dock is attached nothing makes
\* it return but the dock's answer, and when the daemon came to it with another
\* device's descriptor, which hidFd need not hold any more, nothing at all need.
AwaitsAnswer ==
    /\ dPC = "hid" /\ step \in {2, 4}
    /\ plugged \in HidDocks \/ \E f \in DOMAIN fds : fds[f] = OtherDevice

\* Both threads keep running, but the daemon need not get past the read of an
\* answer; nobody has to plug, unplug or send a signal.
FairSpec == Spec /\ WF_vars(UeventThread) /\ WF_vars(Daemon /\ ~AwaitsAnswer)
-----------------------------------------------------------------------------
(* Properties.                                                             *)

DaemonPCs == {"wait", "check", "enable", "acquire", "loop", "protocol",
    "else", "open", "wakeup", "wakecheck", "guard", "uart", "hidguard", "hid",
    "auth", "idcheck", "still", "succ", "fail", "release", "ioctl",
    "ioctl_ok", "ioctl_bad", "hidtest", "hidclose", "hidclear"}

UeventPCs == {"bind", "read", "docked", "undocked", "protocol", "hidopen",
    "hidinfo", "post", "select"}

HidDevices == HidDocks \cup {NoDock, OtherDevice}

EnvTypes   == plugged \in Docks \cup {NoDock} /\ plugs \in Nat /\ restarts \in Nat
FaultTypes == faults \in [FaultKinds -> Nat]
QueueTypes == queue \in Seq(Protocols)
KernTypes  == /\ report \in [kind : Requests \cup {"none"}, ident : Ident]
              /\ lockHeld \in BOOLEAN
SharedTypes == globalState \in GlobalStates /\ globalProtocol \in Protocols
SemTypes   == sem \in Nat
HidTypes   == /\ hidFd \in {-1} \cup 1..MaxFd
              /\ \E open \in SUBSET (1..MaxFd) :
                   fds \in [open -> HidDevices]
UeventTypes == /\ uPC \in UeventPCs /\ protocolType \in Protocols
               /\ boot \in Protocols \cup {"done"} /\ hidIdx \in Nat
IdentTypes == ident \in Ident /\ fresh \subseteq Parts

DaemonTypes == /\ dPC \in DaemonPCs /\ req \in Requests
               /\ wakeupSuccess \in BOOLEAN /\ wakeLock \in LockResults

\* The exchange that is next exists.
StepTypes ==
    /\ step \in 1..HidSteps
    /\ dPC \in {"protocol", "else", "open", "wakeup", "wakecheck"} => step = 1
    /\ dPC \in {"guard", "uart"} => step <= UartSteps

\* No retry counter passes its limit.
RetryTypes ==
    /\ tryWakeup \in 0..MAX_TRY_WAKEUP
    /\ tryComm \in 0..MAX_TRY_COMM
    /\ tries \in 0..MAX_TRY_IOCTL
    /\ dPC \in {"ioctl", "ioctl_ok", "ioctl_bad"} => tries < MAX_TRY_IOCTL

\* Every variable keeps its type: hidFd is -1 or a descriptor number, and no
\* retry counter passes its limit.
TypeOK ==
    /\ EnvTypes /\ FaultTypes /\ QueueTypes /\ KernTypes /\ SharedTypes
    /\ SemTypes /\ HidTypes /\ UeventTypes /\ IdentTypes /\ DaemonTypes
    /\ StepTypes /\ RetryTypes

\* The uevent thread has found a dock and has yet to post the semaphore.
AboutToPost == uPC \in {"protocol", "hidopen", "hidinfo", "post"}

\* No lost wakeup.  While the shared state says that a dock waits to be
\* identified, the daemon is on its way to it: it is in a session it will
\* not leave without changing the state, a token is in the semaphore, or the
\* uevent thread is about to put one there.
DaemonLeaving == dPC \in {"wait", "release"} \/ (dPC = "loop" /\ tryComm = 0)

NoDockUnattended ==
    globalState = "DOCKED" /\ DaemonLeaving => sem > 0 \/ AboutToPost

\* The driver is told "identified" only with an identity all of whose parts
\* were read in the attempt that is being reported: statusFuse, FSNo and RomSN
\* live across attempts and sessions and are never cleared.
ReportingSuccess ==
    req = "succ" /\ dPC \in {"ioctl", "ioctl_ok", "ioctl_bad"}

IdentityIsFresh == ReportingSuccess => fresh = Parts

\* The daemon never talks through, or closes, a descriptor number that is not
\* open any more, although the uevent thread overwrites hidFd at any time.
HidHandleOpen ==
    hidFd # -1 /\ dPC # "hidclear" => hidFd \in DOMAIN fds

\* While the daemon waits, what the state says of the identification is what
\* the driver accepted last, provided that the ioctl does not fail
\* MAX_TRY_IOCTL times in a row.
ReportAgrees ==
    IoctlFaults < MAX_TRY_IOCTL /\ dPC = "wait" =>
        /\ globalState = "IDSUCC" => report.kind = "succ"
        /\ globalState = "IDFAIL" => report.kind = "fail"

\* Why IdentityIsFresh holds: during an attempt the state cannot be IDSUCC, and
\* it becomes IDSUCC only when the last part has been read.
Identifying == {"protocol", "else", "open", "wakeup", "wakecheck", "guard",
                "uart", "hidguard", "hid", "auth"}

IdentityInv ==
    /\ dPC \in Identifying => globalState \in {"UNDOCKED", "DOCKED"}
    /\ dPC \in {"guard", "uart"} => \A i \in 1..(step - 1) : UartPart[i] \in fresh
    /\ dPC = "auth" => fresh = Parts
    /\ dPC = "idcheck" /\ globalState = "IDSUCC" => fresh = Parts
    /\ IdentityIsFresh

\* Why ReportAgrees holds: from the moment doIoctl succeeds to the assignment
\* that follows it the state is neither IDSUCC nor IDFAIL, and doIoctl cannot
\* give up.
Agreement == /\ globalState = "IDSUCC" => report.kind = "succ"
             /\ globalState = "IDFAIL" => report.kind = "fail"

Closing == {"hidtest", "hidclose", "hidclear"}

ReportInv ==
    /\ faults["ioctl"] <= IoctlFaults
    /\ dPC \in {"ioctl", "ioctl_ok"} => tries <= faults["ioctl"]
    /\ dPC = "ioctl_bad" => tries < faults["ioctl"]
    /\ dPC \in Closing \cup {"ioctl_ok"} => report.kind = req
    /\ dPC \in {"succ", "fail"} => report.kind = dPC
    /\ dPC \in Identifying \cup Closing \cup {"succ", "fail"} =>
            globalState \in {"UNDOCKED", "DOCKED"}
    /\ dPC = "idcheck" => globalState # "IDFAIL"
    /\ dPC \in {"wait", "check", "enable", "acquire", "loop", "release", "still"}
            => Agreement

\* Every exchange with a dock and every report of its outcome happens with the
\* wake lock held, unless the kernel refused it to this very session; and the
\* daemon does not wait for events holding it, except by the release's failure.
SleepSafe ==
    /\ dPC \in {"open", "wakeup", "uart", "hid", "succ", "fail"} =>
            lockHeld \/ wakeLock = "error"
    /\ dPC = "wait" /\ lockHeld => restarts > 0 \/ faults["release"] > 0

\* The wake lock is accounted for: the result of an acquisition that did not
\* fail is kept only with the kernel's lock, and the kernel holds the lock
\* without one only after a termination, which released nothing
\* (accySigHandler, line 578), or a release that failed.
LockAccounted ==
    /\ wakeLock = "length" => lockHeld
    /\ lockHeld => wakeLock = "length" \/ restarts > 0 \/ faults["release"] > 0

\* The daemon is between the acquisition and the release of the wake lock.
\* doIoctl is called outside of that only to enable the UART.
Outside  == {"wait", "check", "enable", "acquire"}
IoctlPCs == {"ioctl", "ioctl_ok", "ioctl_bad"} \cup Closing

InSession == dPC \notin Outside /\ (dPC \in IoctlPCs => req # "enable")

\* What is left of a session: attempts to identify the dock, then stages of the
\* attempt, rounds of the stage's own loop, and steps of the round.  A session
\* whose counter is 0 starts to count again if the state says DOCKED.
AttemptsLeft ==
    IF tryComm # 0 THEN MAX_TRY_COMM - tryComm
    ELSE IF dPC = "still" /\ globalState = "DOCKED" THEN MAX_TRY_COMM ELSE 0

Reporting(r) == dPC = r \/ (dPC \in IoctlPCs /\ req = r)

StagesLeft ==
    CASE dPC \in {"open", "else", "protocol"}           -> 7
      [] dPC = "loop"    -> IF tryComm # 0 /\ globalState = "DOCKED" THEN 7 ELSE 0
      [] dPC \in {"wakeup", "wakecheck"}                -> 6
      [] dPC \in {"guard", "uart", "hidguard", "hid"}   -> 5
      [] dPC \in {"auth", "idcheck"}                    -> 4
      [] Reporting("succ")                              -> 3
      [] dPC = "still"                                  -> 2
      [] Reporting("fail")                              -> 1
      [] OTHER                                          -> 0

RoundsLeft ==
    CASE dPC \in {"ioctl", "ioctl_ok", "ioctl_bad"}     -> MAX_TRY_IOCTL - tries
      [] dPC \in {"wakeup", "wakecheck"} /\ tryWakeup # 0
                                                -> MAX_TRY_WAKEUP + 1 - tryWakeup
      [] dPC \in {"guard", "uart", "hidguard", "hid"}   -> HidSteps - step
      [] OTHER                                          -> 0

StepsLeft ==
    CASE dPC = "hidtest"                                -> 3
      [] dPC \in {"hidclose", "loop"}                   -> 2
      [] dPC \in {"hidclear", "ioctl", "auth", "guard", "hidguard", "wakecheck",
                  "protocol"}                           -> 1
      [] OTHER                                          -> 0

SessionLeft == <<AttemptsLeft, StagesLeft, RoundsLeft, StepsLeft>>

\* An earlier component has become smaller, down to 0 at the least.
SessionLess ==
    \E i \in 1..4 : /\ SessionLeft'[i] \in 0..(SessionLeft[i] - 1)
                    /\ \A j \in 1..(i - 1) : SessionLeft'[j] = SessionLeft[j]

\* Every step of the daemon in a session brings the session, and the wake lock
\* with it, nearer to its end, whichever exchanges fail; and what the rest of
\* the world does in the meantime prolongs a session only by finding a dock
\* where the state said that there is none or that it is dealt with.
SessionShrinks ==
    [][InSession /\ InSession' =>
          \/ SessionLess
          \/ dPC' = dPC /\ SessionLeft' = SessionLeft
          \/ dPC' = dPC /\ globalState # "DOCKED" /\ globalState' = "DOCKED"]_vars

\* The kernel has nothing to tell and the uevent thread nothing to do, and no
\* dock is attached.
UndockKnown ==
    plugged = NoDock /\ queue = <<>> /\ uPC = "select"

\* "If already undocked, why do anything" (Whisper_AccyMain.c:326): once the
\* detachment is known the daemon does not begin a session.
NoSessionWhenUndocked ==
    [][dPC = "check" /\ dPC' # "wait" => ~UndockKnown]_vars

\* The driver was told who d is.
Identified(d) ==
    report.kind = "succ" /\ \A p \in Parts : report.ident[p] = d

\* A UART dock is in the end identified, and as the one which is attached now,
\* whatever was plugged, unplugged, terminated or retried before, provided that the
\* switch could be read, that no read of the dock succeeded with a status packet,
\* that other faults are fewer than the daemon's retries make up for, and that it is
\* not left waiting for another device.
UartDockIdentified ==
    CommFaults < MAX_TRY_COMM /\ IoctlFaults < MAX_TRY_IOCTL =>
        <>[](plugged \in UartDocks /\ faults["switch"] = 0 /\ faults["status"] = 0 =>
                Identified(plugged) \/ AwaitsAnswer)

\* A HID dock that was there at the start, or is the first one plugged, is in
\* the end identified or given up by a report of failure, or the daemon is left
\* waiting for its answer, which nothing bounds, or its switch could not be read.
HidDockReported ==
    <>[](plugged \in HidDocks /\ plugs <= 1 /\ faults["switch"] = 0 =>
            Identified(plugged) \/ report.kind = "fail" \/ AwaitsAnswer)

\* The wake lock is released again and again, unless a termination or a failed
\* release left it behind: a dock keeps the tablet awake only by leaving the
\* daemon in the read of an answer, and only as long as it, or another hidraw
\* device that was opened for it, stays attached.
WakeLockReleased ==
    []<>(lockHeld => restarts > 0 \/ faults["release"] > 0 \/ AwaitsAnswer)
=============================================================================
