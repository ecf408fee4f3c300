------------------------- MODULE MasterClear_proofs -------------------------
(* Theorems about MasterClear, for every size, bound and number of tries.  *)
EXTENDS MasterClear, FiniteSetTheorems, SequenceTheorems, WellFoundedInduction, TLAPS

USE MasterClearAssumption

\* open returns a free descriptor.
LEMMA LowestIn == ASSUME NEW S \in SUBSET Nat, S # {} PROVE Lowest(S) \in S
<1>1. PICK f \in S : \A g \in S : ~ (<<g, f>> \in OpToRel(<, Nat))
  BY NatLessThanWellFounded, WFMin
<1>2. \A g \in S : ~ (g < f)
  BY <1>1 DEF OpToRel
<1>3. \A g \in S : f <= g
  BY <1>2
<1>. QED  BY <1>3 DEF Lowest

LEMMA LowestFree == TypeOK /\ Free # {} => Lowest(Free) \in Fds /\ fds[Lowest(Free)] = "free"
<1>1. Free \in SUBSET Nat
  BY DEF Free, Fds
<1>. QED  BY <1>1, LowestIn DEF Free

\* Unsigned arithmetic stays in range.
LEMMA WrapType ==
    ASSUME NEW n \in Int, -UINT32 <= n, n < 2 * UINT32 PROVE Wrap(n) \in 0..(UINT32 - 1)
BY DEF Wrap

\* A new header, and an empty line.
LEMMA NewTypes ==
    /\ NoHeader \in [0..(HdrSize - 1) -> Bytes \cup {NoByte}] /\ 0 \in 0..(UINT32 - 1)
    /\ <<>> \in Seq(Bytes)
BY DEF NoHeader

\* What the baseband says is bytes, put at the end of the line.
LEMMA SayType ==
    ASSUME TypeOK, NEW resp \in Responses, Say(resp) PROVE line' \in Seq(Bytes)
<1>1. [i \in 1..HdrSize |-> [resp |-> resp, at |-> i - 1]] \in Seq(Bytes)
  BY DEF Bytes
<1>. QED  BY <1>1 DEF Say, TypeOK

LEMMA ReadType ==
    ASSUME TypeOK, NEW n \in 1..Len(line), Read(n)
    PROVE  /\ total' \in 0..(UINT32 - 1) /\ line' \in Seq(Bytes)
           /\ header' \in [0..(HdrSize - 1) -> Bytes \cup {NoByte}]
           /\ wild' \in BOOLEAN /\ pc' \in {"read", "judge"}
<1>1. total \in Nat /\ total < UINT32 /\ line \in Seq(Bytes)
  BY DEF TypeOK
<1>2. n <= BytesWanted
  BY DEF Read
<1>2a. BytesWanted <= HdrSize - total \/ BytesWanted <= HdrSize - total + UINT32
  BY <1>1 DEF BytesWanted, Wrap
<1>3. total' \in 0..(UINT32 - 1)
  <2>1. total + n \in Int /\ -UINT32 <= total + n /\ total + n < 2 * UINT32
    BY <1>1, <1>2, <1>2a DEF BytesWanted, Wrap
  <2>. QED  BY <2>1, WrapType DEF Read
<1>4. line' \in Seq(Bytes)
  BY <1>1 DEF Read
<1>5. header' \in [0..(HdrSize - 1) -> Bytes \cup {NoByte}]
  <2>1. ASSUME NEW i \in 0..(HdrSize - 1), Wrap(i - total) < n
        PROVE  line[Wrap(i - total) + 1] \in Bytes
    BY <1>1, <2>1, WrapType
  <2>. QED  BY <2>1 DEF Read, TypeOK
<1>. QED  BY <1>3, <1>4, <1>5 DEF Read, TypeOK

\* Every variable keeps its type; the counters stay in their ranges, the bytes
\* read in those of a UINT32.
LEMMA TypeStep == TypeOK /\ [Next]_vars => TypeOK'
<1> SUFFICES ASSUME TypeOK, [Next]_vars PROVE TypeOK'
  OBVIOUS
<1>1. CASE Call
  BY <1>1, NewTypes DEF Call, TypeOK, NewHeader, bpVars
<1>2. CASE Unsuspend
  BY <1>2 DEF Unsuspend, TypeOK, Return, bpVars, readVars
<1>3. CASE UnsuspendFails
  BY <1>3 DEF UnsuspendFails, TypeOK, Return, bpVars, readVars
<1>4. CASE OpenControl
  BY <1>4, LowestFree DEF OpenControl, TypeOK, bpVars, readVars
<1>5. CASE OpenControlFails
  BY SMTT(30), <1>5 DEF OpenControlFails, TypeOK, bpVars, readVars
<1>6. CASE Shutdown
  BY <1>6, NewTypes DEF Shutdown, TypeOK, readVars
<1>7. CASE NormalMode
  BY <1>7 DEF NormalMode, TypeOK, bpVars, readVars
<1>8. CASE Powerup
  <2>1. fds' \in [Fds -> {"free", "control", "engine"}]
    BY <1>8 DEF Powerup, TypeOK
  <2>2. pc' = "init" /\ bp' \in {"off", "flash", "normal"}
    BY <1>8 DEF Powerup, TypeOK
  <2>3. calls' > 0
    BY <1>8 DEF Powerup, TypeOK
  <2>4. UNCHANGED <<calls, result, fd, cmd_engine_fd, try_count, usb, bootmode, ctlOk,
                    failures, readVars, pending, partial, line, unsolicited, cleared>>
    BY <1>8 DEF Powerup
  <2>. QED  BY <2>1, <2>2, <2>3, <2>4 DEF TypeOK, readVars
<1>9. CASE ControlFails
  <2>1. pc' = "init" /\ calls' = calls /\ calls > 0
    BY <1>9 DEF ControlFails, TypeOK
  <2>2. failures' \in Nat /\ ctlOk' \in BOOLEAN
    <3>1. failures' = failures + 1 /\ failures \in Nat
      BY <1>9 DEF ControlFails, TypeOK
    <3>2. ctlOk' \in BOOLEAN
      BY <1>9 DEF ControlFails
    <3>. QED  BY <3>1, <3>2
  <2>3. UNCHANGED <<calls, result, fds, fd, cmd_engine_fd, try_count, usb, bootmode,
                    readVars, bpVars>>
    BY <1>9 DEF ControlFails
  <2>. QED  BY <2>1, <2>2, <2>3 DEF TypeOK, bpVars, readVars
<1>10. CASE InitEngine
  BY <1>10 DEF InitEngine, TypeOK, bpVars, readVars
<1>11. CASE Connect
  BY <1>11, LowestFree DEF Connect, TypeOK, readVars
<1>12. CASE ConnectFails
  BY <1>12 DEF ConnectFails, TypeOK, Return, bpVars, readVars
<1>13. CASE Write
  BY <1>13 DEF Write, TypeOK, readVars, Calls
<1>14. CASE WriteFails
  BY <1>14 DEF WriteFails, TypeOK, Return, readVars
<1>15. ASSUME NEW n \in 1..Len(line), Read(n) PROVE TypeOK'
  <2>1. /\ total' \in 0..(UINT32 - 1) /\ line' \in Seq(Bytes)
        /\ header' \in [0..(HdrSize - 1) -> Bytes \cup {NoByte}]
        /\ wild' \in BOOLEAN /\ pc' \in {"read", "judge"}
    BY <1>15, ReadType
  <2>2. calls > 0
    BY <1>15 DEF Read, TypeOK
  <2>3. UNCHANGED <<calls, result, fds, fd, cmd_engine_fd, try_count, usb, bootmode, ctlOk,
                    failures, erred, bp, pending, partial, unsolicited, cleared>>
    BY <1>15 DEF Read
  <2>. QED  BY <2>1, <2>2, <2>3 DEF TypeOK
<1>16. CASE ReadFails
  BY <1>16, WrapType DEF ReadFails, TypeOK, bpVars
<1>17. CASE ReadEnds
  BY SMTT(30), <1>17, NewTypes DEF ReadEnds, TypeOK, Return, NewHeader, bpVars
<1>18. CASE Judge
  <2>1. PICK code \in rsp_codes, flag \in fail_flags :
          IF FlagFail(flag) \/ code \notin Accepted
          THEN /\ Return(1) /\ failures' = failures + 1 /\ NewHeader
               /\ UNCHANGED <<fds, line>>
          ELSE /\ Return(0) /\ line' = <<>> /\ UNCHANGED <<failures, readVars>>
               /\ fds' = [fds EXCEPT ![cmd_engine_fd] = "free"]
    BY <1>18 DEF Judge
  <2>2. UNCHANGED <<calls, fd, cmd_engine_fd, try_count, usb, bootmode, ctlOk, bp, pending,
                    partial, unsolicited, cleared>>
    BY <1>18 DEF Judge
  <2>3. CASE Return(1) /\ failures' = failures + 1 /\ NewHeader /\ UNCHANGED <<fds, line>>
    BY SMTT(30), <2>2, <2>3, NewTypes DEF TypeOK, Return, NewHeader
  <2>4. CASE /\ Return(0) /\ line' = <<>> /\ UNCHANGED <<failures, readVars>>
             /\ fds' = [fds EXCEPT ![cmd_engine_fd] = "free"]
    <3>1. fds' \in [Fds -> {"free", "control", "engine"}]
      BY <2>4 DEF TypeOK
    <3>2. pc' = "idle" /\ result' = 0 /\ line' \in Seq(Bytes) /\ failures' = failures
      BY <2>4 DEF Return
    <3>3. UNCHANGED <<total, header, erred, wild>>
      BY <2>4 DEF readVars
    <3>. QED  BY SMTT(30), <2>2, <3>1, <3>2, <3>3 DEF TypeOK
  <2>. QED  BY <2>1, <2>3, <2>4
<1>19. CASE BpSpeak
  <2>1. [call |-> 0, code |-> "CMD_RSP_GENERIC", fail_flag |-> 0] \in Responses
    BY DEF Responses, Codes, Accepted
  <2>2. line' \in Seq(Bytes)
    BY <1>19, <2>1, SayType DEF BpSpeak
  <2>. QED  BY <1>19, <2>2 DEF BpSpeak, TypeOK, readVars
<1>20. ASSUME NEW c \in Calls, BpAnswer(c) PROVE TypeOK'
  <2>1. \A code \in {"CMD_RSP_GENERIC", "error"}, flag \in 0..1 :
            [call |-> c, code |-> code, fail_flag |-> flag] \in Responses
    BY DEF Responses, Codes, Accepted, Calls
  <2>2. line' \in Seq(Bytes)
    BY <1>20, <2>1, SayType DEF BpAnswer
  <2>. QED  BY <1>20, <2>2 DEF BpAnswer, TypeOK, readVars
<1>21. CASE UNCHANGED vars
  BY <1>21 DEF vars, TypeOK, bpVars, readVars
<1>. QED
  BY <1>1, <1>2, <1>3, <1>4, <1>5, <1>6, <1>7, <1>8, <1>9, <1>10, <1>11, <1>12, <1>13,
     <1>14, <1>15, <1>16, <1>17, <1>18, <1>19, <1>20, <1>21 DEF Next, Steps, Baseband

\* Every variable keeps its type.
THEOREM ClearTypeCorrect == Spec => []TypeOK
<1>1. Init => TypeOK
  BY NewTypes DEF Init, TypeOK
<1>. QED  BY <1>1, TypeStep, PTL DEF Spec

-----------------------------------------------------------------------------
(* The handle, the baseband and the descriptors.                           *)

\* In the control writes the descriptor is the one that was opened for them.
ControlHeld ==
    pc \in {"shutdown", "bootmode", "powerup"} => fd \in Fds /\ fds[fd] = "control"

HandleInv == HandleIsEngine /\ ControlHeld

LEMMA HandleStep == TypeOK /\ HandleInv /\ [Next]_vars => HandleInv'
<1> SUFFICES ASSUME TypeOK, HandleInv, [Next]_vars PROVE HandleInv'
  OBVIOUS
<1>. USE DEF HandleInv, HandleIsEngine, ControlHeld
<1>1. CASE Call \/ Unsuspend \/ UnsuspendFails
  BY <1>1 DEF Call, Unsuspend, UnsuspendFails, Return
<1>2. CASE OpenControl
  BY <1>2, LowestFree DEF OpenControl, TypeOK
<1>3. CASE OpenControlFails \/ ControlFails \/ Powerup
  BY <1>3 DEF OpenControlFails, ControlFails, Powerup
<1>4. CASE Shutdown \/ NormalMode
  BY <1>4 DEF Shutdown, NormalMode
<1>5. CASE InitEngine \/ ConnectFails
  BY <1>5 DEF InitEngine, ConnectFails, Return
<1>6. CASE Connect
  BY <1>6, LowestFree DEF Connect, TypeOK
<1>7. CASE Write \/ WriteFails
  BY <1>7 DEF Write, WriteFails, Return
<1>8. ASSUME NEW n \in 1..Len(line), Read(n) PROVE HandleInv'
  BY <1>8 DEF Read
<1>9. CASE ReadFails \/ ReadEnds
  BY <1>9 DEF ReadFails, ReadEnds, Return
<1>10. CASE Judge
  BY <1>10 DEF Judge, Return
<1>11. CASE Baseband
  BY <1>11 DEF Baseband, BpSpeak, BpAnswer
<1>12. CASE UNCHANGED vars
  BY <1>12 DEF vars
<1>. QED
  BY <1>1, <1>2, <1>3, <1>4, <1>5, <1>6, <1>7, <1>8, <1>9, <1>10, <1>11, <1>12
     DEF Next, Steps

\* The command goes to, and the response comes from, a line this call opened.
THEOREM HandleCorrect == Spec => []HandleIsEngine
<1>1. Init => HandleInv
  BY DEF Init, HandleInv, HandleIsEngine, ControlHeld
<1>2. HandleInv => HandleIsEngine
  BY DEF HandleInv
<1>. QED  BY <1>1, <1>2, HandleStep, ClearTypeCorrect, PTL DEF Spec

\* Between the writes that succeed the baseband is off, and then set to normal.
BpInv ==
    /\ BpLeftNormal
    /\ ctlOk /\ pc \in {"bootmode", "powerup"} => bp = "off"
    /\ ctlOk /\ pc = "powerup" => bootmode = "normal"

LEMMA BpStep == TypeOK /\ BpInv /\ [Next]_vars => BpInv'
<1> SUFFICES ASSUME TypeOK, BpInv, [Next]_vars PROVE BpInv'
  OBVIOUS
<1>. USE DEF BpInv, BpLeftNormal, bpVars
<1>1. CASE Call \/ Unsuspend \/ UnsuspendFails
  BY <1>1 DEF Call, Unsuspend, UnsuspendFails, Return
<1>2. CASE OpenControl \/ OpenControlFails \/ ControlFails
  BY <1>2 DEF OpenControl, OpenControlFails, ControlFails
<1>3. CASE Shutdown
  BY <1>3 DEF Shutdown
<1>4. CASE NormalMode
  BY <1>4 DEF NormalMode
<1>5. CASE Powerup
  BY <1>5 DEF Powerup
<1>6. CASE InitEngine \/ Connect \/ ConnectFails
  BY <1>6 DEF InitEngine, Connect, ConnectFails, Return
<1>7. CASE Write \/ WriteFails
  <2>1. /\ bp' = bp /\ ctlOk' = ctlOk /\ bootmode' = bootmode
        /\ pc = "write" /\ pc' \in {"read", "idle"} /\ (pc' = "idle" => result' = 1)
    <3>1. CASE Write
      BY <3>1 DEF Write
    <3>2. CASE WriteFails
      BY <3>2 DEF WriteFails, Return
    <3>. QED  BY <1>7, <3>1, <3>2
  <2>. QED  BY <2>1
<1>8. ASSUME NEW n \in 1..Len(line), Read(n) PROVE BpInv'
  BY <1>8 DEF Read
<1>9. CASE ReadFails \/ ReadEnds
  BY <1>9 DEF ReadFails, ReadEnds, Return
<1>10. CASE Judge
  BY <1>10 DEF Judge, Return
<1>11. CASE Baseband
  <2>1. UNCHANGED <<bp, ctlOk, bootmode, pc, result>>
    BY <1>11 DEF Baseband, BpSpeak, BpAnswer
  <2>. QED  BY <2>1
<1>12. CASE UNCHANGED vars
  BY <1>12 DEF vars
<1>. QED
  BY <1>1, <1>2, <1>3, <1>4, <1>5, <1>6, <1>7, <1>8, <1>9, <1>10, <1>11, <1>12
     DEF Next, Steps

\* After three control writes that succeed the baseband runs in normal mode.
THEOREM RestartCorrect == Spec => []BpLeftNormal
<1>1. Init => BpInv
  BY DEF Init, BpInv, BpLeftNormal
<1>2. BpInv => BpLeftNormal
  BY DEF BpInv
<1>. QED  BY <1>1, <1>2, BpStep, ClearTypeCorrect, PTL DEF Spec

\* One descriptor may be in use, by the control writes or by the line.
InUse == IF pc \in {"shutdown", "bootmode", "powerup", "write", "read", "judge"} THEN 1 ELSE 0
LeakInv == Cardinality(Fds \ Free) <= failures + InUse

LEMMA FdsFinite ==
    /\ IsFiniteSet(Fds \ Free) /\ Cardinality(Fds \ Free) \in Nat
<1>1. IsFiniteSet(Fds)
  BY FS_Interval DEF Fds
<1>2. IsFiniteSet(Fds \ Free)
  BY <1>1, FS_Subset
<1>. QED  BY <1>2, FS_CardinalityType

LEMMA InUseIs ==
    /\ InUse \in 0..1
    /\ pc \in {"shutdown", "bootmode", "powerup", "write", "read", "judge"} <=> InUse = 1
BY DEF InUse

\* open adds one descriptor to those in use, close removes one.
LEMMA OpenCounts ==
    ASSUME TypeOK, NEW f \in Fds, fds[f] = "free",
           NEW use \in {"control", "engine"}, fds' = [fds EXCEPT ![f] = use]
    PROVE  Cardinality((Fds \ Free)') = Cardinality(Fds \ Free) + 1
<1>1. (Fds \ Free)' = (Fds \ Free) \cup {f} /\ f \notin Fds \ Free
  BY DEF Free, TypeOK
<1>. QED  BY <1>1, FdsFinite, FS_AddElement

LEMMA CloseCounts ==
    ASSUME TypeOK, NEW f \in Fds, fds[f] # "free", fds' = [fds EXCEPT ![f] = "free"]
    PROVE  Cardinality((Fds \ Free)') = Cardinality(Fds \ Free) - 1
<1>1. (Fds \ Free)' = (Fds \ Free) \ {f} /\ f \in Fds \ Free
  BY DEF Free, TypeOK
<1>. QED  BY ZenonT(30), <1>1, FdsFinite, FS_RemoveElement

LEMMA LeakStep == TypeOK /\ HandleInv /\ LeakInv /\ [Next]_vars => LeakInv'
<1> SUFFICES ASSUME TypeOK, HandleInv, LeakInv, [Next]_vars PROVE LeakInv'
  OBVIOUS
<1>a. failures \in Nat /\ Cardinality(Fds \ Free) \in Nat /\ InUse \in 0..1
  BY FdsFinite, InUseIs DEF TypeOK
<1>b. (fds' = fds) => Cardinality((Fds \ Free)') = Cardinality(Fds \ Free)
  BY DEF Free
<1>1. CASE Call \/ Unsuspend \/ UnsuspendFails
  BY <1>1, <1>a, <1>b DEF Call, Unsuspend, UnsuspendFails, Return, LeakInv, InUse
<1>2. CASE OpenControl
  <2>1. Cardinality((Fds \ Free)') = Cardinality(Fds \ Free) + 1
    BY <1>2, LowestFree, OpenCounts DEF OpenControl
  <2>2. InUse = 0 /\ InUse' = 1 /\ failures' = failures
    BY <1>2 DEF OpenControl, InUse
  <2>. QED  BY <2>1, <2>2, <1>a DEF LeakInv
<1>3. CASE OpenControlFails \/ ControlFails
  BY <1>3, <1>a, <1>b DEF OpenControlFails, ControlFails, LeakInv, InUse
<1>4. CASE Shutdown \/ NormalMode
  BY <1>4, <1>a, <1>b DEF Shutdown, NormalMode, LeakInv, InUse
<1>5. CASE Powerup
  <2>1. Cardinality((Fds \ Free)') = Cardinality(Fds \ Free) - 1
    BY <1>5, CloseCounts DEF Powerup, HandleInv, ControlHeld
  <2>2. InUse = 1 /\ InUse' = 0 /\ failures' = failures
    BY <1>5 DEF Powerup, InUse
  <2>. QED  BY <2>1, <2>2, <1>a DEF LeakInv
<1>6. CASE InitEngine \/ ConnectFails
  BY <1>6, <1>a, <1>b DEF InitEngine, ConnectFails, Return, LeakInv, InUse
<1>7. CASE Connect
  <2>1. Cardinality((Fds \ Free)') = Cardinality(Fds \ Free) + 1
    BY <1>7, LowestFree, OpenCounts DEF Connect
  <2>2. InUse = 0 /\ InUse' = 1 /\ failures' = failures
    BY <1>7 DEF Connect, InUse
  <2>. QED  BY <2>1, <2>2, <1>a DEF LeakInv
<1>8. CASE Write \/ WriteFails
  <2>1. /\ fds' = fds /\ pc = "write"
        /\ \/ pc' = "read" /\ failures' = failures
           \/ pc' = "idle" /\ failures' = failures + 1
    <3>1. CASE Write
      BY <3>1 DEF Write
    <3>2. CASE WriteFails
      BY <3>2 DEF WriteFails, Return
    <3>. QED  BY <1>8, <3>1, <3>2
  <2>. QED  BY <2>1, <1>a, <1>b DEF LeakInv, InUse
<1>9. ASSUME NEW n \in 1..Len(line), Read(n) PROVE LeakInv'
  BY <1>9, <1>a, <1>b DEF Read, LeakInv, InUse
<1>10. CASE ReadFails \/ ReadEnds
  BY <1>10, <1>a, <1>b DEF ReadFails, ReadEnds, Return, LeakInv, InUse
<1>11. CASE Judge
  <2>1. InUse = 1 /\ InUse' = 0
    BY <1>11 DEF Judge, Return, InUse
  <2>2. CASE failures' = failures + 1 /\ fds' = fds
    BY <2>1, <2>2, <1>a, <1>b DEF LeakInv
  <2>3. CASE failures' = failures /\ fds' = [fds EXCEPT ![cmd_engine_fd] = "free"]
    <3>1. Cardinality((Fds \ Free)') = Cardinality(Fds \ Free) - 1
      BY <1>11, <2>3, CloseCounts DEF Judge, HandleInv, HandleIsEngine
    <3>. QED  BY <2>1, <2>3, <3>1, <1>a DEF LeakInv
  <2>. QED  BY <1>11, <2>2, <2>3 DEF Judge
<1>12. CASE Baseband
  BY <1>12, <1>a, <1>b DEF Baseband, BpSpeak, BpAnswer, LeakInv, InUse
<1>13. CASE UNCHANGED vars
  BY <1>13, <1>a, <1>b DEF vars, LeakInv, InUse
<1>. QED
  BY <1>1, <1>2, <1>3, <1>4, <1>5, <1>6, <1>7, <1>8, <1>9, <1>10, <1>11, <1>12, <1>13
     DEF Next, Steps

\* A call leaves a descriptor open only where a step failed after an open.
THEOREM LeaksCorrect == Spec => []LeaksAreFailures
<1>1. Init => HandleInv
  BY DEF Init, HandleInv, HandleIsEngine, ControlHeld
<1>2. Init => LeakInv
  <2> SUFFICES ASSUME Init PROVE LeakInv
    OBVIOUS
  <2>1. Fds \ Free = {}
    BY DEF Init, Free
  <2>. QED  BY <2>1, FS_EmptySet DEF LeakInv, InUse, Init
<1>3. TypeOK /\ LeakInv => LeaksAreFailures
  BY DEF LeakInv, LeaksAreFailures, InUse, TypeOK
<1>4. Spec => []TypeOK
  BY ClearTypeCorrect
<1>. QED  BY <1>1, <1>2, <1>3, <1>4, HandleStep, LeakStep, PTL DEF Spec

-----------------------------------------------------------------------------
(* The header that is read.                                                *)

\* Responses stand in the line one after the other, and the last one is whole.
LineInOrder ==
    /\ \A j, k \in 1..Len(line) :
         j <= k /\ line[j].at + (k - j) < HdrSize =>
            line[k].resp = line[j].resp /\ line[k].at = line[j].at + (k - j)
    /\ line # <<>> => line[Len(line)].at = HdrSize - 1

\* The first bytes of the header are of one response, and the line goes on with it.
HeaderGrows ==
    /\ total < HdrSize
    /\ total > 0 => line # <<>>
    /\ line # <<>> => line[1].at = total
    /\ total > 0 => /\ header[0].resp \in Responses
                    /\ line[1].resp = header[0].resp
    /\ \A i \in 0..(total - 1) : header[i] = [resp |-> header[0].resp, at |-> i]

HeaderIsWhole ==
    /\ header[0].resp \in Responses
    /\ \A i \in 0..(HdrSize - 1) : header[i] = [resp |-> header[0].resp, at |-> i]

BeforeRead == {"setup", "control", "shutdown", "bootmode", "powerup", "init", "connect"}
ReadInv ==
    /\ LineInOrder
    /\ pc \in BeforeRead => total = 0
    /\ pc \in BeforeRead \cup {"write"} => ~wild
    /\ pc = "write" => total = 0 /\ HeaderGrows
    /\ pc \in {"read", "judge"} /\ ~erred => ~wild
    /\ pc = "read" /\ ~erred => HeaderGrows
    /\ pc = "judge" /\ ~erred => HeaderIsWhole

\* A response put at the end of the line leaves it in order, and its beginning
\* as it was.
LEMMA SayOrder ==
    ASSUME TypeOK, LineInOrder, NEW resp \in Responses, Say(resp)
    PROVE  /\ LineInOrder'
           /\ line # <<>> => line' # <<>> /\ line'[1] = line[1]
           /\ line = <<>> /\ line' # <<>> => line'[1].at = 0
<1> DEFINE block == [i \in 1..HdrSize |-> [resp |-> resp, at |-> i - 1]]
<1>1. CASE line' = line
  BY <1>1 DEF LineInOrder
<1>2. CASE line' = line \o block
  <2>1. line \in Seq(Bytes) /\ block \in Seq(Bytes) /\ Len(block) = HdrSize
    BY DEF TypeOK, Bytes
  <2>2. /\ Len(line') = Len(line) + HdrSize /\ Len(line) \in Nat
        /\ \A k \in 1..Len(line) : line'[k] = line[k]
        /\ \A k \in (Len(line) + 1)..(Len(line) + HdrSize) :
              line'[k] = [resp |-> resp, at |-> k - Len(line) - 1]
    BY <1>2, <2>1
  <2>. HIDE DEF block
  <2>3. \A k \in 1..Len(line) : line[k] \in Bytes
    BY <2>1
  <2>4. ASSUME NEW j \in 1..Len(line'), NEW k \in 1..Len(line'),
               j <= k, line'[j].at + (k - j) < HdrSize
        PROVE  line'[k].resp = line'[j].resp /\ line'[k].at = line'[j].at + (k - j)
    <3>1. CASE k <= Len(line)
      <4>1. j \in 1..Len(line) /\ k \in 1..Len(line)
        BY <2>2, <2>4, <3>1
      <4>2. line'[j] = line[j] /\ line'[k] = line[k]
        BY <2>2, <4>1
      <4>. QED  BY <2>4, <4>1, <4>2 DEF LineInOrder
    <3>2. CASE j > Len(line)
      <4>1. /\ j \in (Len(line) + 1)..(Len(line) + HdrSize)
            /\ k \in (Len(line) + 1)..(Len(line) + HdrSize)
        BY <2>2, <2>4, <3>2
      <4>2. /\ line'[j].resp = resp /\ line'[j].at = j - Len(line) - 1
            /\ line'[k].resp = resp /\ line'[k].at = k - Len(line) - 1
        <5>1. /\ line'[j] = [resp |-> resp, at |-> j - Len(line) - 1]
              /\ line'[k] = [resp |-> resp, at |-> k - Len(line) - 1]
          BY <2>2, <4>1
        <5>. QED  BY <5>1
      <4>3. k - Len(line) - 1 = (j - Len(line) - 1) + (k - j)
        <5>1. j \in Int /\ k \in Int /\ Len(line) \in Int
          BY <2>2, <4>1
        <5>. QED  BY <5>1
      <4>. QED  BY <4>2, <4>3
    <3>3. CASE j <= Len(line) /\ k > Len(line)
      <4>1. line'[j] = line[j] /\ line[j].at \in Nat
        BY <2>2, <2>3, <3>3 DEF Bytes
      <4>2. line[j].at + (Len(line) - j) < HdrSize - 1
        BY <2>2, <2>4, <3>3, <4>1
      <4>3. j \in 1..Len(line) /\ Len(line) \in 1..Len(line) /\ line # <<>>
        BY <2>2, <3>3
      <4>4. line[Len(line)].at = line[j].at + (Len(line) - j)
        BY SMTT(30), <4>2, <4>3, <2>2, <4>1 DEF LineInOrder
      <4>. QED  BY <4>2, <4>3, <4>4 DEF LineInOrder
    <3>. QED  BY <2>2, <3>1, <3>2, <3>3
  <2>5. line'[Len(line')].at = HdrSize - 1
    <3>1. Len(line') \in (Len(line) + 1)..(Len(line) + HdrSize)
      BY <2>2
    <3>2. line'[Len(line')] = [resp |-> resp, at |-> Len(line') - Len(line) - 1]
      BY <2>2, <3>1
    <3>. QED  BY <2>2, <3>2
  <2>6. LineInOrder'
    BY <2>4, <2>5 DEF LineInOrder
  <2>7. line # <<>> => line' # <<>> /\ line'[1] = line[1]
    <3>1. line # <<>> => Len(line) > 0
      BY <2>1
    <3>. QED  BY <2>2, <3>1
  <2>8. line = <<>> => line'[1].at = 0
    <3>1. line = <<>> => Len(line) = 0 /\ 1 \in (Len(line) + 1)..(Len(line) + HdrSize)
      BY <2>2
    <3>2. line = <<>> => line'[1] = [resp |-> resp, at |-> 1 - Len(line) - 1]
      BY <2>2, <3>1
    <3>. QED  BY <3>1, <3>2
  <2>. QED  BY <2>6, <2>7, <2>8
<1>. QED  BY <1>1, <1>2 DEF Say

\* What read leaves in the line is in order.
LEMMA RestOrder ==
    ASSUME TypeOK, LineInOrder, NEW n \in 1..Len(line),
           line' = SubSeq(line, n + 1, Len(line))
    PROVE  /\ LineInOrder'
           /\ n < Len(line) => line' # <<>> /\ line'[1] = line[n + 1]
           /\ n = Len(line) => line' = <<>>
<1>1. line \in Seq(Bytes)
  BY DEF TypeOK
<1>2. /\ Len(line') = Len(line) - n /\ Len(line) \in Nat
      /\ \A k \in 1..(Len(line) - n) : line'[k] = line[k + n]
  BY <1>1
<1>2a. n \in Int /\ 1 <= n /\ n <= Len(line) /\ Len(line) \in Int /\ Len(line') = Len(line) - n
  BY <1>1, <1>2
<1>3. \A k \in 1..Len(line) : line[k] \in Bytes
  BY <1>1
<1>4. ASSUME NEW j \in 1..Len(line'), NEW k \in 1..Len(line'),
             j <= k, line'[j].at + (k - j) < HdrSize
      PROVE  line'[k].resp = line'[j].resp /\ line'[k].at = line'[j].at + (k - j)
  <2>1. j + n \in 1..Len(line) /\ k + n \in 1..Len(line) /\ (k + n) - (j + n) = k - j
    <3>1. j \in Int /\ k \in Int /\ 1 <= j /\ j <= Len(line) - n /\ 1 <= k /\ k <= Len(line) - n
      BY <1>2a
    <3>. QED  BY <1>2a, <3>1
  <2>2. line[j + n].at + ((k + n) - (j + n)) < HdrSize
    BY <1>2, <1>4, <2>1
  <2>3. /\ line[k + n].resp = line[j + n].resp
        /\ line[k + n].at = line[j + n].at + ((k + n) - (j + n))
    BY <1>4, <2>1, <2>2 DEF LineInOrder
  <2>. QED  BY <1>2, <2>1, <2>3
<1>5. line' \in Seq(Bytes)
  BY <1>1
<1>6. line' # <<>> => line'[Len(line')].at = HdrSize - 1
  <2> SUFFICES ASSUME line' # <<>> PROVE line'[Len(line')].at = HdrSize - 1
    OBVIOUS
  <2>1. Len(line') \in 1..(Len(line) - n)
    BY <1>2, <1>5
  <2>2. line'[Len(line')] = line[Len(line') + n] /\ Len(line') + n = Len(line)
    <3>1. Len(line') + n = Len(line)
      BY <1>2a
    <3>. QED  BY <1>2, <2>1, <3>1
  <2>3. line # <<>>
    BY <1>2a
  <2>. QED  BY <2>2, <2>3 DEF LineInOrder
<1>7. LineInOrder'
  BY <1>4, <1>6 DEF LineInOrder
<1>8. n < Len(line) => line' # <<>> /\ line'[1] = line[n + 1]
  <2> SUFFICES ASSUME n < Len(line) PROVE line' # <<>> /\ line'[1] = line[n + 1]
    OBVIOUS
  <2>1. 1 \in 1..(Len(line) - n) /\ Len(line') # 0
    BY <1>2a
  <2>2. line'[1] = line[1 + n] /\ 1 + n = n + 1
    BY <1>2, <1>2a, <2>1
  <2>3. line' # <<>>
    BY <2>1
  <2>. QED  BY <2>2, <2>3
<1>9. n = Len(line) => line' = <<>>
  BY <1>2, <1>5
<1>. QED  BY <1>7, <1>8, <1>9

\* One read of a response that was read from its beginning goes on with it, and
\* the header is whole when it ends.
LEMMA ReadGrows ==
    ASSUME TypeOK, LineInOrder, HeaderGrows, ~wild, NEW n \in 1..Len(line), Read(n)
    PROVE  /\ ~wild'
           /\ pc' = "read" => HeaderGrows'
           /\ pc' = "judge" => HeaderIsWhole'
<1>1. /\ total \in Nat /\ total < HdrSize /\ line \in Seq(Bytes) /\ line # <<>>
      /\ Len(line) \in Nat /\ line[1].at = total /\ line[1] \in Bytes
  <2>1. total \in Nat /\ total < HdrSize /\ line \in Seq(Bytes)
    BY DEF TypeOK, HeaderGrows
  <2>2. Len(line) \in Nat /\ Len(line) >= 1 /\ line # <<>> /\ line[1] \in Bytes
    BY <2>1
  <2>. QED  BY <2>1, <2>2 DEF HeaderGrows
<1>2. n <= HdrSize - total
  BY <1>1 DEF Read, BytesWanted, Wrap
<1>3. total' = total + n /\ total' <= HdrSize
  <2>1. total' = Wrap(total + n) /\ n \in Nat
    BY <1>1 DEF Read
  <2>2. total + n \in Nat /\ total + n <= HdrSize /\ total + n < UINT32
    BY <1>1, <1>2, <2>1
  <2>. QED  BY <2>1, <2>2 DEF Wrap
<1>4. \A k \in 0..(n - 1) : Wrap(total + k) = total + k /\ total + k < HdrSize
  BY <1>1, <1>2 DEF Wrap
<1>5. ~wild'
  <2>1. ~ \E k \in 0..(n - 1) : Wrap(total + k) >= HdrSize
    <3>1. ASSUME NEW k \in 0..(n - 1)
          PROVE  Wrap(total + k) \in Int /\ Wrap(total + k) < HdrSize
      <4>1. Wrap(total + k) = total + k /\ total + k < HdrSize
        BY <1>4
      <4>2. total + k \in Int
        BY <1>1
      <4>. QED  BY <4>1, <4>2
    <3>2. \A x \in Int : x < HdrSize => ~ (x >= HdrSize)
      OBVIOUS
    <3>. QED  BY <3>1, <3>2
  <2>. QED  BY <2>1 DEF Read
<1>6. \A i \in 0..(HdrSize - 1) :
        Wrap(i - total) = IF i < total THEN i - total + UINT32 ELSE i - total
  BY <1>1 DEF Wrap
<1>7. \A i \in 0..(HdrSize - 1) :
        header'[i] = IF i < total \/ i - total >= n THEN header[i] ELSE line[i - total + 1]
  <2>1. ASSUME NEW i \in 0..(HdrSize - 1)
        PROVE (Wrap(i - total) < n) <=> ~(i < total \/ i - total >= n)
    BY <1>1, <1>2, <1>6
  <2>. QED  BY <2>1, <1>6 DEF Read
<1>8. \A k \in 1..n : line[k].resp = line[1].resp /\ line[k].at = total + k - 1
  BY SMTT(30), <1>1, <1>2 DEF LineInOrder
<1>9. \A k \in 1..n : line[k] = [resp |-> line[1].resp, at |-> total + k - 1]
  <2>1. \A k \in 1..n : line[k] \in Bytes
    BY <1>1
  <2>. QED  BY <2>1, <1>8 DEF Bytes
<1>10. header'[0].resp = line[1].resp /\ line[1].resp \in Responses
  <2>1. CASE total = 0
    BY <2>1, <1>1, <1>7 DEF Bytes
  <2>2. CASE total > 0
    BY <2>2, <1>1, <1>7 DEF HeaderGrows
  <2>. QED  BY <1>1, <2>1, <2>2
<1>11. ASSUME NEW i \in 0..(total' - 1)
       PROVE  header'[i] = [resp |-> header'[0].resp, at |-> i]
  <2>1. CASE i < total
    <3>1. header'[i] = header[i] /\ total > 0
      BY <2>1, <1>1, <1>3, <1>7
    <3>2. header[i] = [resp |-> header[0].resp, at |-> i] /\ line[1].resp = header[0].resp
      BY <2>1, <3>1, <1>1 DEF HeaderGrows
    <3>. QED  BY <3>1, <3>2, <1>10
  <2>2. CASE i >= total
    <3>1. i - total + 1 \in 1..n /\ i \in 0..(HdrSize - 1)
      BY <2>2, <1>1, <1>2, <1>3
    <3>2. header'[i] = line[i - total + 1]
      BY <2>2, <3>1, <1>1, <1>7
    <3>3. line[i - total + 1] = [resp |-> line[1].resp, at |-> total + (i - total + 1) - 1]
      BY <3>1, <1>9
    <3>4. total + (i - total + 1) - 1 = i
      BY <1>1
    <3>. QED  BY <3>2, <3>3, <3>4, <1>10
  <2>. QED  BY <2>1, <2>2, <1>1, <1>3
<1>12. pc' = "judge" => HeaderIsWhole'
  <2>1. pc' = "judge" => total' = HdrSize
    BY DEF Read
  <2>. QED  BY <2>1, <1>10, <1>11 DEF HeaderIsWhole
<1>13. pc' = "read" => HeaderGrows'
  <2> SUFFICES ASSUME pc' = "read" PROVE HeaderGrows'
    OBVIOUS
  <2>1. total' < HdrSize
    <3>1. total' # HdrSize
      BY DEF Read
    <3>. QED  BY <1>1, <1>3, <3>1
  <2>2. n < Len(line)
    <3>1. line[n].at = total + n - 1
      BY <1>8
    <3>2. line[n].at < HdrSize - 1
      BY <3>1, <2>1, <1>1, <1>3
    <3>. QED  BY <3>2, <1>1 DEF LineInOrder
  <2>3. line' # <<>> /\ line'[1] = line[n + 1]
    BY <2>2, RestOrder DEF Read
  <2>4. line[n + 1].resp = line[1].resp /\ line[n + 1].at = total + n
    BY <2>1, <2>2, <1>1, <1>3 DEF LineInOrder
  <2>. QED  BY <2>1, <2>3, <2>4, <1>3, <1>10, <1>11 DEF HeaderGrows
<1>. QED  BY <1>5, <1>12, <1>13

\* A new call has read nothing.
LEMMA NewHeaderIs == NewHeader => total' = 0 /\ ~wild'
BY DEF NewHeader

LEMMA ReadStep == TypeOK /\ ReadInv /\ [Next]_vars => ReadInv'
<1> SUFFICES ASSUME TypeOK, ReadInv, [Next]_vars PROVE ReadInv'
  OBVIOUS
<1>. USE DEF ReadInv, BeforeRead
<1>a. LineInOrder
  OBVIOUS
<1>b. line' = line => LineInOrder'
  BY DEF LineInOrder
<1>c. line' = <<>> => LineInOrder'
  BY DEF LineInOrder
<1>d. UNCHANGED <<total, header, line>> => HeaderGrows' = HeaderGrows /\ HeaderIsWhole' = HeaderIsWhole
  BY DEF HeaderGrows, HeaderIsWhole
<1>1. CASE Call
  <2>1. pc' = "setup" /\ total' = 0 /\ ~wild' /\ line' = line
    BY <1>1, NewHeaderIs DEF Call, bpVars
  <2>. QED  BY <2>1, <1>b
<1>2. CASE Unsuspend \/ UnsuspendFails
  <2>1. UNCHANGED <<line, total, wild>> /\ pc = "setup" /\ pc' \in {"control", "idle", "crashed"}
    BY <1>2 DEF Unsuspend, UnsuspendFails, Return, bpVars, readVars
  <2>. QED  BY <2>1, <1>b
<1>3. CASE OpenControl \/ OpenControlFails \/ ControlFails \/ NormalMode
  <2>1. UNCHANGED <<line, total, wild>> /\ pc \in BeforeRead /\ pc' \in BeforeRead \ {"connect"}
    BY <1>3 DEF OpenControl, OpenControlFails, ControlFails, NormalMode, bpVars, readVars
  <2>. QED  BY <2>1, <1>b
<1>4. CASE Shutdown
  <2>1. line' = <<>> /\ UNCHANGED <<total, wild>> /\ pc = "shutdown" /\ pc' = "bootmode"
    BY <1>4 DEF Shutdown, readVars
  <2>. QED  BY <2>1, <1>c
<1>5. CASE Powerup \/ InitEngine \/ ConnectFails
  <2>1. UNCHANGED <<line, total, wild>> /\ pc \in BeforeRead /\ pc' \in {"init", "connect", "idle"}
    BY <1>5 DEF Powerup, InitEngine, ConnectFails, Return, bpVars, readVars
  <2>. QED  BY <2>1, <1>b
<1>6. CASE Connect
  <2>1. line' = <<>> /\ UNCHANGED <<total, wild>> /\ pc = "connect" /\ pc' = "write"
    BY <1>6 DEF Connect, readVars
  <2>2. HeaderGrows'
    BY <2>1 DEF HeaderGrows
  <2>. QED  BY <2>1, <2>2, <1>c
<1>7. CASE Write
  <2>1. UNCHANGED <<line, total, header, wild>> /\ pc = "write" /\ pc' = "read"
    BY <1>7 DEF Write, readVars
  <2>. QED  BY <2>1, <1>b, <1>d
<1>8. CASE WriteFails \/ ReadEnds
  <2>1. line' = line /\ pc' = "idle"
    <3>1. CASE WriteFails
      BY <3>1 DEF WriteFails, Return
    <3>2. CASE ReadEnds
      BY <3>2 DEF ReadEnds, Return, bpVars
    <3>. QED  BY <1>8, <3>1, <3>2
  <2>. QED  BY <2>1, <1>b
<1>9. ASSUME NEW n \in 1..Len(line), Read(n) PROVE ReadInv'
  <2>1. pc = "read" /\ pc' \in {"read", "judge"} /\ erred' = erred
    BY <1>9 DEF Read
  <2>2. LineInOrder'
    BY <1>9, RestOrder DEF Read
  <2>3. ~erred => /\ ~wild'
                  /\ pc' = "read" => HeaderGrows'
                  /\ pc' = "judge" => HeaderIsWhole'
    BY <1>9, <2>1, ReadGrows
  <2>. QED  BY <2>1, <2>2, <2>3
<1>10. CASE ReadFails
  <2>1. line' = line /\ erred' /\ pc' \in {"read", "judge"}
    BY <1>10 DEF ReadFails, bpVars
  <2>. QED  BY <2>1, <1>b
<1>11. CASE Judge
  <2>1. pc' = "idle" /\ (line' = line \/ line' = <<>>)
    BY <1>11 DEF Judge, Return
  <2>. QED  BY <2>1, <1>b, <1>c
<1>12. ASSUME NEW resp \in Responses, Say(resp), UNCHANGED <<pc, readVars>> PROVE ReadInv'
  <2>1. /\ LineInOrder'
        /\ line # <<>> => line' # <<>> /\ line'[1] = line[1]
        /\ line = <<>> /\ line' # <<>> => line'[1].at = 0
    BY <1>12, SayOrder
  <2>2. UNCHANGED <<pc, total, header, erred, wild>>
    BY <1>12 DEF readVars
  <2>3. HeaderGrows => HeaderGrows'
    <3>1. TypeOK => total \in Nat
      BY DEF TypeOK
    <3>. QED  BY <2>1, <2>2, <3>1 DEF HeaderGrows
  <2>4. HeaderIsWhole' = HeaderIsWhole
    BY <2>2 DEF HeaderIsWhole
  <2>. QED  BY <2>1, <2>2, <2>3, <2>4
<1>13. CASE BpSpeak
  <2>1. [call |-> 0, code |-> "CMD_RSP_GENERIC", fail_flag |-> 0] \in Responses
    BY DEF Responses, Codes, Accepted
  <2>. QED  BY <1>12, <1>13, <2>1 DEF BpSpeak
<1>14. ASSUME NEW c \in Calls, BpAnswer(c) PROVE ReadInv'
  <2>1. \A code \in {"CMD_RSP_GENERIC", "error"}, flag \in 0..1 :
            [call |-> c, code |-> code, fail_flag |-> flag] \in Responses
    BY DEF Responses, Codes, Accepted, Calls
  <2>2. PICK resp \in Responses : Say(resp)
    BY <1>14, <2>1 DEF BpAnswer
  <2>. QED  BY <1>12, <1>14, <2>2 DEF BpAnswer
<1>15. CASE UNCHANGED vars
  <2>1. UNCHANGED <<pc, line, total, header, erred, wild>>
    BY <1>15 DEF vars, bpVars, readVars
  <2>. QED  BY <2>1, <1>b, <1>d
<1>. QED
  BY <1>1, <1>2, <1>3, <1>4, <1>5, <1>6, <1>7, <1>8, <1>9, <1>10, <1>11, <1>13, <1>14,
     <1>15 DEF Next, Steps, Baseband

LEMMA InitRead == Init => ReadInv
BY DEF Init, ReadInv, BeforeRead, LineInOrder

LEMMA ReadInvCorrect == Spec => []ReadInv
BY InitRead, ReadStep, ClearTypeCorrect, PTL DEF Spec

\* Unless a read failed, a header that is judged is one response, whole and in
\* order, however many reads it took.
THEOREM HeaderCorrect == Spec => []HeaderIsRead
<1>1. ReadInv => HeaderIsRead
  BY DEF ReadInv, HeaderIsRead, HeaderIsWhole
<1>. QED  BY <1>1, ReadInvCorrect, PTL

-----------------------------------------------------------------------------
(* Whose answer is judged.                                                 *)

\* After a restart that succeeded the baseband knows of no earlier command.
AnswerInv ==
    /\ ctlOk /\ pc \in {"bootmode", "powerup", "init", "connect", "write", "read", "judge"} =>
         /\ pending \subseteq {calls}
         /\ \A k \in 1..Len(line) : line[k].resp.call \in {0, calls}
    /\ pc \notin {"idle", "crashed"} /\ ctlOk =>
         \A i \in 0..(HdrSize - 1) : header[i].resp.call \in {0, calls}
    /\ SuccessIsAnswered

LEMMA SayAnswers ==
    ASSUME TypeOK, NEW resp \in Responses, Say(resp), resp.call \in {0, calls},
           \A k \in 1..Len(line) : line[k].resp.call \in {0, calls}
    PROVE  \A k \in 1..Len(line') : line'[k].resp.call \in {0, calls}
<1> DEFINE block == [i \in 1..HdrSize |-> [resp |-> resp, at |-> i - 1]]
<1>1. CASE line' = line
  BY <1>1
<1>2. CASE line' = line \o block
  <2>1. line \in Seq(Bytes) /\ block \in Seq(Bytes) /\ Len(block) = HdrSize
    <3>1. \A i \in 1..HdrSize : [resp |-> resp, at |-> i - 1] \in Bytes
      BY DEF Bytes
    <3>. QED  BY SMTT(30), <3>1 DEF TypeOK
  <2>2. /\ Len(line') = Len(line) + HdrSize /\ Len(line) \in Nat
        /\ \A k \in 1..Len(line) : line'[k] = line[k]
        /\ \A k \in (Len(line) + 1)..(Len(line) + HdrSize) :
              line'[k] = [resp |-> resp, at |-> k - Len(line) - 1]
    BY <1>2, <2>1
  <2>3. ASSUME NEW k \in 1..Len(line') PROVE line'[k].resp.call \in {0, calls}
    <3>1. CASE k <= Len(line)
      BY <2>2, <3>1
    <3>2. CASE k > Len(line)
      <4>1. line'[k] = [resp |-> resp, at |-> k - Len(line) - 1]
        <5>1. k \in (Len(line) + 1)..(Len(line) + HdrSize)
          BY <2>2, <3>2
        <5>. QED  BY <2>2, <5>1
      <4>. QED  BY <4>1
    <3>. QED  BY <2>2, <3>1, <3>2
  <2>. QED  BY <2>3
<1>. QED  BY <1>1, <1>2 DEF Say

\* Every byte that read takes, and so every byte of the header, answers nothing
\* or the call.
LEMMA ReadAnswers ==
    ASSUME TypeOK, NEW n \in 1..Len(line), Read(n),
           \A k \in 1..Len(line) : line[k].resp.call \in {0, calls},
           \A i \in 0..(HdrSize - 1) : header[i].resp.call \in {0, calls}
    PROVE  /\ \A k \in 1..Len(line') : line'[k].resp.call \in {0, calls}
           /\ \A i \in 0..(HdrSize - 1) : header'[i].resp.call \in {0, calls}
<1>1. line \in Seq(Bytes) /\ total \in Nat /\ total < UINT32
  BY DEF TypeOK
<1>2. /\ Len(line') = Len(line) - n /\ Len(line) \in Nat
      /\ \A k \in 1..(Len(line) - n) : line'[k] = line[k + n]
  BY <1>1 DEF Read
<1>3. ASSUME NEW k \in 1..Len(line') PROVE line'[k].resp.call \in {0, calls}
  <2>1. k + n \in 1..Len(line) /\ k \in 1..(Len(line) - n)
    BY <1>2
  <2>. QED  BY <1>2, <2>1
<1>4. ASSUME NEW i \in 0..(HdrSize - 1) PROVE header'[i].resp.call \in {0, calls}
  <2>1. CASE Wrap(i - total) < n
    <3>1. header'[i] = line[Wrap(i - total) + 1]
      BY <2>1 DEF Read
    <3>2. Wrap(i - total) + 1 \in 1..Len(line)
      BY <2>1, <1>1, WrapType
    <3>. QED  BY <3>1, <3>2
  <2>2. CASE ~ (Wrap(i - total) < n)
    BY <2>2 DEF Read
  <2>. QED  BY <2>1, <2>2
<1>. QED  BY <1>3, <1>4

LEMMA AnswerStep == TypeOK /\ ReadInv /\ AnswerInv /\ [Next]_vars => AnswerInv'
<1> SUFFICES ASSUME TypeOK, ReadInv, AnswerInv, [Next]_vars PROVE AnswerInv'
  OBVIOUS
<1>. USE DEF AnswerInv, SuccessIsAnswered
<1>1. CASE Call
  <2>1. pc' = "setup" /\ header' = NoHeader
    BY <1>1 DEF Call, NewHeader
  <2>2. \A i \in 0..(HdrSize - 1) : NoHeader[i].resp.call = 0
    BY DEF NoHeader, NoByte
  <2>. QED  BY <2>1, <2>2
<1>2. CASE Unsuspend \/ UnsuspendFails
  <2>1. /\ UNCHANGED <<calls, ctlOk, header>> /\ pc = "setup"
        /\ pc' \in {"control", "idle", "crashed"} /\ (pc' = "idle" => result' = 1)
    BY <1>2 DEF Unsuspend, UnsuspendFails, Return, readVars
  <2>. QED  BY <2>1
<1>3. CASE OpenControl
  <2>1. UNCHANGED <<calls, ctlOk, header>> /\ pc = "control" /\ pc' = "shutdown"
    BY <1>3 DEF OpenControl, readVars
  <2>. QED  BY <2>1
<1>4. CASE OpenControlFails \/ ControlFails
  <2>1. ~ctlOk' /\ pc' = "init"
    BY <1>4 DEF OpenControlFails, ControlFails
  <2>. QED  BY <2>1
<1>5. CASE Shutdown
  <2>1. /\ line' = <<>> /\ pending' = {} /\ UNCHANGED <<calls, ctlOk, header>>
        /\ pc = "shutdown" /\ pc' = "bootmode"
    BY <1>5 DEF Shutdown, readVars
  <2>. QED  BY <2>1
<1>6. CASE NormalMode \/ Powerup \/ InitEngine
  <2>1. /\ UNCHANGED <<line, pending, calls, ctlOk, header>>
        /\ pc \in {"bootmode", "powerup", "init"} /\ pc' \in {"powerup", "init", "connect"}
    BY <1>6 DEF NormalMode, Powerup, InitEngine, bpVars, readVars
  <2>. QED  BY <2>1
<1>7. CASE Connect
  <2>1. /\ line' = <<>> /\ UNCHANGED <<pending, calls, ctlOk, header>>
        /\ pc = "connect" /\ pc' = "write"
    BY <1>7 DEF Connect, readVars
  <2>. QED  BY <2>1
<1>8. CASE ConnectFails
  <2>1. /\ UNCHANGED <<line, pending, calls, ctlOk, header>> /\ pc = "connect"
        /\ pc' \in {"connect", "idle"} /\ (pc' = "idle" => result' = 1)
    BY <1>8 DEF ConnectFails, Return, bpVars, readVars
  <2>. QED  BY <2>1
<1>9. CASE Write
  <2>1. /\ UNCHANGED <<line, calls, ctlOk, header>> /\ pc = "write" /\ pc' = "read"
        /\ pending' \subseteq pending \cup {calls}
    BY <1>9 DEF Write, readVars
  <2>. QED  BY <2>1
<1>10. CASE WriteFails
  BY <1>10 DEF WriteFails, Return
<1>11. ASSUME NEW n \in 1..Len(line), Read(n) PROVE AnswerInv'
  <2>1. UNCHANGED <<calls, ctlOk, pending>> /\ pc = "read" /\ pc' \in {"read", "judge"}
    BY <1>11 DEF Read
  <2>2. ctlOk => /\ \A k \in 1..Len(line') : line'[k].resp.call \in {0, calls}
                 /\ \A i \in 0..(HdrSize - 1) : header'[i].resp.call \in {0, calls}
    BY <1>11, <2>1, ReadAnswers
  <2>. QED  BY <2>1, <2>2
<1>12. CASE ReadFails
  <2>1. /\ UNCHANGED <<calls, ctlOk, pending, line, header>>
        /\ pc = "read" /\ pc' \in {"read", "judge"}
    BY <1>12 DEF ReadFails, bpVars
  <2>. QED  BY <2>1
<1>13. CASE ReadEnds
  BY <1>13 DEF ReadEnds, Return
<1>14. CASE Judge
  <2>1. /\ pc = "judge" /\ pc' = "idle" /\ UNCHANGED <<calls, ctlOk>>
        /\ result' = 1 \/ UNCHANGED <<header, erred>>
    BY <1>14 DEF Judge, Return, readVars
  <2>2. ~erred => header[CodeAt] = [resp |-> header[0].resp, at |-> CodeAt]
    BY <2>1 DEF ReadInv, HeaderIsWhole
  <2>. QED  BY <2>1, <2>2
<1>15. ASSUME NEW resp \in Responses, Say(resp), pending' \subseteq pending,
              resp.call = 0 \/ resp.call \in pending,
              UNCHANGED <<pc, calls, result, ctlOk, readVars>>
       PROVE  AnswerInv'
  <2>1. UNCHANGED <<pc, calls, result, ctlOk, header, erred>>
    BY <1>15 DEF readVars
  <2>2. /\ pending \subseteq {calls}
        /\ \A k \in 1..Len(line) : line[k].resp.call \in {0, calls}
        => \A k \in 1..Len(line') : line'[k].resp.call \in {0, calls}
    BY <1>15, SayAnswers
  <2>. QED  BY <1>15, <2>1, <2>2
<1>16. CASE BpSpeak
  <2>1. [call |-> 0, code |-> "CMD_RSP_GENERIC", fail_flag |-> 0] \in Responses
    BY DEF Responses, Codes, Accepted
  <2>. QED  BY <1>15, <1>16, <2>1 DEF BpSpeak
<1>17. ASSUME NEW c \in Calls, BpAnswer(c) PROVE AnswerInv'
  <2>1. \A code \in {"CMD_RSP_GENERIC", "error"}, flag \in 0..1 :
            [call |-> c, code |-> code, fail_flag |-> flag] \in Responses
    BY DEF Responses, Codes, Accepted, Calls
  <2>2. PICK resp \in Responses : Say(resp) /\ resp.call = c
    BY <1>17, <2>1 DEF BpAnswer
  <2>. QED  BY <1>15, <1>17, <2>2 DEF BpAnswer
<1>18. CASE UNCHANGED vars
  <2>1. UNCHANGED <<pc, calls, result, ctlOk, line, pending, header, erred>>
    BY <1>18 DEF vars, bpVars, readVars
  <2>. QED  BY <2>1
<1>. QED
  BY <1>1, <1>2, <1>3, <1>4, <1>5, <1>6, <1>7, <1>8, <1>9, <1>10, <1>11, <1>12, <1>13,
     <1>14, <1>16, <1>17, <1>18 DEF Next, Steps, Baseband

\* A call that succeeds after a restart that did judges no answer to another call.
THEOREM AnswerCorrect == Spec => []SuccessIsAnswered
<1>1. Init => AnswerInv
  BY DEF Init, AnswerInv, SuccessIsAnswered
<1>2. AnswerInv => SuccessIsAnswered
  BY DEF AnswerInv
<1>. QED  BY <1>1, <1>2, AnswerStep, ClearTypeCorrect, ReadInvCorrect, PTL DEF Spec
-----------------------------------------------------------------------------
(* A call takes a bounded number of steps.                                 *)

\* How many bytes are missing, whatever the unsigned counter has gone through.
LEMMA MissingCounts ==
    ASSUME NEW t \in 0..(UINT32 - 1), NEW n \in Nat, n <= Wrap(HdrSize - t)
    PROVE  /\ Wrap(HdrSize - Wrap(t + n)) = Wrap(HdrSize - t) - n
           /\ Wrap(HdrSize - t) \in 0..(UINT32 - 1)
BY DEF Wrap

LEMMA MissingGrows ==
    ASSUME NEW t \in 0..(UINT32 - 1)
    PROVE  \/ Wrap(t - 1) = HdrSize /\ Wrap(HdrSize - t) = UINT32 - 1
           \/ Wrap(HdrSize - Wrap(t - 1)) = Wrap(HdrSize - t) + 1
BY DEF Wrap

\* The bound at each place of the call.
LEMMA StepsLeftAt ==
    /\ pc \in {"idle", "crashed"} => StepsLeft = 0
    /\ pc = "judge" => StepsLeft = 1
    /\ pc = "read" => StepsLeft = 1 + Missing
    /\ pc = "write" => StepsLeft = 2 + HdrSize
    /\ pc = "connect" => StepsLeft = ConnectLeft + 1 - try_count
    /\ pc = "init" => StepsLeft = ConnectLeft + 1
    /\ pc = "powerup" => StepsLeft = ConnectLeft + 2
    /\ pc = "bootmode" => StepsLeft = ConnectLeft + 3
    /\ pc = "shutdown" => StepsLeft = ConnectLeft + 4
    /\ pc = "control" => StepsLeft = ConnectLeft + 5
    /\ pc = "setup" => StepsLeft = ConnectLeft + 6
BY DEF StepsLeft

LEMMA ShrinkStep ==
    ASSUME TypeOK, ReadInv, [Next]_vars, pc # "idle"
    PROVE  \/ StepsLeft' < StepsLeft
           \/ ReadFails /\ StepsLeft' = StepsLeft + 1
           \/ Baseband /\ StepsLeft' = StepsLeft
           \/ UNCHANGED vars
<1> DEFINE At == /\ pc \in {"idle", "crashed"} => StepsLeft = 0
                 /\ pc = "judge" => StepsLeft = 1
                 /\ pc = "read" => StepsLeft = 1 + Missing
                 /\ pc = "write" => StepsLeft = 2 + HdrSize
                 /\ pc = "connect" => StepsLeft = ConnectLeft + 1 - try_count
                 /\ pc = "init" => StepsLeft = ConnectLeft + 1
                 /\ pc = "powerup" => StepsLeft = ConnectLeft + 2
                 /\ pc = "bootmode" => StepsLeft = ConnectLeft + 3
                 /\ pc = "shutdown" => StepsLeft = ConnectLeft + 4
                 /\ pc = "control" => StepsLeft = ConnectLeft + 5
                 /\ pc = "setup" => StepsLeft = ConnectLeft + 6
<1>a. At /\ At'
  BY StepsLeftAt, PTL
<1>b. /\ total \in 0..(UINT32 - 1) /\ total' \in 0..(UINT32 - 1)
      /\ try_count \in 1..CMD_ENGINE_CONNECT_MAX_TRY
      /\ try_count' \in 1..CMD_ENGINE_CONNECT_MAX_TRY
  BY TypeStep DEF TypeOK
<1>c. /\ HdrSize \in Nat \ {0, 1} /\ CMD_ENGINE_CONNECT_MAX_TRY \in Nat
      /\ ConnectLeft \in Nat /\ ConnectLeft = 2 + HdrSize + CMD_ENGINE_CONNECT_MAX_TRY
  BY DEF ConnectLeft
<1>d. Missing \in 0..(UINT32 - 1)
  BY <1>b, WrapType DEF Missing
<1>. HIDE DEF At
<1>1. CASE Unsuspend \/ UnsuspendFails
  <2>1. pc = "setup" /\ pc' \in {"control", "idle", "crashed"}
    BY <1>1 DEF Unsuspend, UnsuspendFails, Return
  <2>. QED  BY <1>a, <1>c, <2>1 DEF At
<1>2. CASE OpenControl \/ OpenControlFails
  <2>1. pc = "control" /\ pc' \in {"shutdown", "init"}
    BY <1>2 DEF OpenControl, OpenControlFails
  <2>. QED  BY <1>a, <1>c, <2>1 DEF At
<1>3. CASE Shutdown \/ NormalMode \/ Powerup \/ ControlFails
  <2>1. \/ pc = "shutdown" /\ pc' \in {"bootmode", "init"}
        \/ pc = "bootmode" /\ pc' \in {"powerup", "init"}
        \/ pc = "powerup" /\ pc' = "init"
    BY <1>3 DEF Shutdown, NormalMode, Powerup, ControlFails
  <2>. QED  BY <1>a, <1>c, <2>1 DEF At
<1>4. CASE InitEngine
  <2>1. pc = "init" /\ pc' = "connect" /\ try_count' = 1
    BY <1>4 DEF InitEngine
  <2>. QED  BY <1>a, <1>c, <2>1 DEF At
<1>5. CASE Connect
  <2>1. pc = "connect" /\ pc' = "write"
    BY <1>5 DEF Connect
  <2>. QED  BY <1>a, <1>b, <1>c, <2>1 DEF At
<1>6. CASE ConnectFails
  <2>1. pc = "connect" /\ (pc' = "idle" \/ (pc' = pc /\ try_count' = try_count + 1))
    BY <1>6 DEF ConnectFails, Return
  <2>. QED  BY <1>a, <1>b, <1>c, <2>1 DEF At
<1>7. CASE Write \/ WriteFails
  <2>1. pc = "write" /\ (pc' = "idle" \/ (pc' = "read" /\ total' = total))
    BY <1>7 DEF Write, WriteFails, Return, readVars
  <2>2. total = 0
    BY <2>1 DEF ReadInv
  <2>3. CASE pc' = "idle"
    BY <1>a, <1>c, <2>1, <2>3 DEF At
  <2>4. CASE pc' = "read" /\ total' = total
    <3>1. Missing' = HdrSize
      BY <2>2, <2>4 DEF Missing, Wrap
    <3>. QED  BY <1>a, <1>c, <2>1, <2>4, <3>1 DEF At
  <2>. QED  BY <2>1, <2>3, <2>4
<1>8. ASSUME NEW n \in 1..Len(line), Read(n) PROVE StepsLeft' < StepsLeft
  <2>1. n \in Nat /\ n >= 1
    BY DEF TypeOK
  <2>2. pc = "read" /\ n <= Missing /\ total' = Wrap(total + n) /\ pc' \in {"read", "judge"}
    BY <1>8 DEF Read, BytesWanted, Missing
  <2>3. Missing' = Missing - n
    <3>1. Wrap(HdrSize - Wrap(total + n)) = Wrap(HdrSize - total) - n
      BY <1>b, <2>1, <2>2, MissingCounts DEF Missing
    <3>. QED  BY <2>2, <3>1 DEF Missing
  <2>. QED  BY <1>a, <1>d, <2>1, <2>2, <2>3 DEF At
<1>9. CASE ReadFails
  <2>1. /\ pc = "read" /\ total' = Wrap(total - 1)
        /\ pc' = IF total' = HdrSize THEN "judge" ELSE "read"
    BY <1>9 DEF ReadFails
  <2>2. \/ total' = HdrSize /\ Missing = UINT32 - 1
        \/ Missing' = Missing + 1
    BY <1>b, <2>1, MissingGrows DEF Missing
  <2>3. CASE pc' = "judge"
    <3>1. Missing > 0
      <4>1. total' = HdrSize => Missing' = 0
        BY <1>c DEF Missing, Wrap
      <4>. QED  BY <1>c, <1>d, <2>1, <2>2, <2>3, <4>1
    <3>. QED  BY <1>a, <1>d, <2>1, <2>3, <3>1 DEF At
  <2>4. CASE pc' = "read"
    BY <1>9, <1>a, <1>d, <2>1, <2>2, <2>4 DEF At
  <2>. QED  BY <2>1, <2>3, <2>4
<1>10. CASE ReadEnds
  <2>1. pc = "read" /\ pc' = "idle"
    BY <1>10 DEF ReadEnds, Return
  <2>. QED  BY <1>a, <1>d, <2>1 DEF At
<1>11. CASE Judge
  <2>1. pc = "judge" /\ pc' = "idle"
    BY <1>11 DEF Judge, Return
  <2>. QED  BY <1>a, <2>1 DEF At
<1>12. CASE Baseband
  <2>1. UNCHANGED <<pc, try_count, total>>
    BY <1>12 DEF Baseband, BpSpeak, BpAnswer, readVars
  <2>2. StepsLeft' = StepsLeft
    BY <2>1 DEF StepsLeft, Missing, ConnectLeft, Wrap
  <2>. QED  BY <1>12, <2>2
<1>13. ~Call
  BY DEF Call
<1>. QED
  BY <1>1, <1>2, <1>3, <1>4, <1>5, <1>6, <1>7, <1>8, <1>9, <1>10, <1>11, <1>12, <1>13
     DEF Next, Steps

\* Every step of a call but a failed read, which costs one more, brings it nearer
\* to its end: from any state of any behaviour a call has but boundedly many steps
\* left, if its reads succeed.
THEOREM ShrinkCorrect == Spec => CallShrinks
<1>1. TypeOK /\ ReadInv /\ [Next]_vars =>
        [pc # "idle" =>
           \/ StepsLeft' < StepsLeft
           \/ ReadFails /\ StepsLeft' = StepsLeft + 1
           \/ Baseband /\ StepsLeft' = StepsLeft]_vars
  BY ShrinkStep
<1>. QED  BY <1>1, ClearTypeCorrect, ReadInvCorrect, PTL DEF Spec, CallShrinks
=============================================================================
