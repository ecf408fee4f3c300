---------------------------- MODULE MasterClear ----------------------------
(***************************************************************************)
(* The master clear of the baseband processor                              *)
(* (recovery/masterclear_bp.c): wake the USB bus, restart the baseband in  *)
(* normal mode, connect to its command engine, send one command and read   *)
(* the header of the response.  Every step may fail, and the recovery menu *)
(* may call it again.  The baseband, its line and the descriptor table are *)
(* external.                                                               *)
(***************************************************************************)
EXTENDS Integers, Sequences, FiniteSets

CONSTANTS
    CMD_ENGINE_CONNECT_MAX_TRY,
    HdrSize,        \* bytes of CMD_DEFS_CMD_RSP_HDR_T ...
    CodeAt,         \* ... and where among them rsp_code is
    UINT32,         \* the number of values of the type
    MaxFd,          \* size of the descriptor table
    MaxCalls,       \* bound: calls of bp_master_clear
    Unsolicited     \* bound: unsolicited responses

ASSUME MasterClearAssumption ==
    /\ CMD_ENGINE_CONNECT_MAX_TRY \in Nat \ {0}
    /\ HdrSize \in Nat \ {0, 1} /\ CodeAt \in 1..(HdrSize - 1)
    /\ UINT32 \in Nat /\ UINT32 > 2 * HdrSize
    /\ MaxFd \in Nat /\ MaxCalls \in Nat /\ Unsolicited \in Nat

Fds == 0..(MaxFd - 1)
Calls == 1..MaxCalls

\* What a rsp_code is compared with; any other code is one of the errors.
Accepted == {"CMD_RSP_GENERIC", "NOT_SET"}
Codes == Accepted \cup {"error"}

\* A response: the call it answers, or 0 if none, and its code and fail_flag,
\* which is one bit.
Responses == [call : 0..MaxCalls, code : Codes, fail_flag : 0..1]
Bytes == [resp : Responses, at : 0..(HdrSize - 1)]
NoByte == [resp |-> [call |-> 0, code |-> "error", fail_flag |-> 0], at |-> HdrSize]

VARIABLES
    pc, calls, result,          \* of bp_master_clear; -1 before it returns
    fds, fd, cmd_engine_fd,     \* the descriptor table, mdm_ctrl's and the line's
    try_count, total, header,   \* of CMD_ENGINE_init and CMD_ENGINE_read
    usb, bp, bootmode,          \* the bus, the baseband and how it will start
    pending, partial, line,     \* commands it has not answered, half a command
                                \* and the bytes that can be read
    unsolicited,
    cleared,                    \* auxiliary: calls whose command was carried out
    ctlOk, erred, wild,         \* auxiliary: of the call, whether the restart
                                \* succeeded, a read failed, a byte missed header
    failures                    \* auxiliary: failures that left a descriptor open

bpVars == <<bp, pending, partial, line, unsolicited, cleared>>
readVars == <<total, header, erred, wild>>
vars == <<pc, calls, result, fds, fd, cmd_engine_fd, try_count, usb, bootmode, ctlOk,
          failures, readVars, bpVars>>

Free == {f \in Fds : fds[f] = "free"}
Lowest(S) == CHOOSE f \in S : \A g \in S : f <= g
\* Mutant of Wrap: a signed counter.
WrapSigned(n) == n

\* UINT32 arithmetic, for a result that is off by less than the modulus.
Wrap(n) == IF n < 0 THEN n + UINT32 ELSE IF n >= UINT32 THEN n - UINT32 ELSE n
NoHeader == [i \in 0..(HdrSize - 1) |-> NoByte]

Init ==
    /\ pc = "idle" /\ calls = 0 /\ result = -1
    /\ fds = [f \in Fds |-> "free"] /\ fd = -1 /\ cmd_engine_fd = -1
    /\ try_count = 1 /\ total = 0 /\ header = NoHeader
    /\ usb \in {"auto", "on"}
    /\ bp \in {"off", "flash", "normal"} /\ bootmode \in {"flash", "normal"}
    /\ pending = {} /\ partial = FALSE /\ line = <<>>
    /\ unsolicited = 0 /\ cleared = {}
    /\ ctlOk = FALSE /\ erred = FALSE /\ wild = FALSE /\ failures = 0

Return(r) == pc' = "idle" /\ result' = r
NewHeader == total' = 0 /\ header' = NoHeader /\ erred' = FALSE /\ wild' = FALSE

-----------------------------------------------------------------------------
(* set_usb_unsuspend.                                                      *)

\* bp_master_clear is called; its variables, and its callees', are new.
Call ==
    /\ pc = "idle" /\ calls < MaxCalls
    /\ calls' = calls + 1 /\ pc' = "setup" /\ result' = -1 /\ ctlOk' = TRUE
    /\ fd' = -1 /\ NewHeader
    /\ UNCHANGED <<fds, cmd_engine_fd, try_count, usb, bootmode, failures, bpVars>>

\* The file takes what was written only when fclose flushes it, and the result
\* of fclose is not looked at.
Unsuspend ==
    /\ pc = "setup" /\ Free # {}
    /\ \/ usb' \in {usb, "on"} /\ pc' = "control" /\ UNCHANGED result
       \/ Return(1) /\ UNCHANGED usb
    /\ UNCHANGED <<calls, fds, fd, cmd_engine_fd, try_count, bootmode, ctlOk, failures,
                   readVars, bpVars>>

\* fopen fails: fclose(NULL) may crash.
UnsuspendFails ==
    /\ pc = "setup"
    /\ \/ pc' = "crashed" /\ UNCHANGED result
       \/ Return(1)
    /\ UNCHANGED <<calls, fds, fd, cmd_engine_fd, try_count, usb, bootmode, ctlOk,
                   failures, readVars, bpVars>>

-----------------------------------------------------------------------------
(* bp_flashmode_to_normalmode; bp_master_clear ignores its result.         *)

OpenControl ==
    /\ pc = "control" /\ Free # {}
    /\ fd' = Lowest(Free) /\ fds' = [fds EXCEPT ![fd'] = "control"]
    /\ pc' = "shutdown"
    /\ UNCHANGED <<calls, result, cmd_engine_fd, try_count, usb, bootmode, ctlOk,
                   failures, readVars, bpVars>>

OpenControlFails ==
    /\ pc = "control"
    /\ pc' = "init" /\ ctlOk' = FALSE
    /\ UNCHANGED <<calls, result, fds, fd, cmd_engine_fd, try_count, usb, bootmode,
                   failures, readVars, bpVars>>

\* Mutant of Shutdown: the baseband is left running.
ShutdownSkipped ==
    /\ pc = "shutdown" /\ pc' = "bootmode"
    /\ UNCHANGED <<calls, result, fds, fd, cmd_engine_fd, try_count, usb, bootmode,
                   ctlOk, failures, readVars, bpVars>>

\* Whatever the baseband had received or had to say is gone.
Shutdown ==
    /\ pc = "shutdown" /\ pc' = "bootmode"
    /\ bp' = "off" /\ pending' = {} /\ partial' = FALSE /\ line' = <<>>
    /\ UNCHANGED <<calls, result, fds, fd, cmd_engine_fd, try_count, usb, bootmode,
                   ctlOk, failures, readVars, unsolicited, cleared>>

\* Mutant of NormalMode: MDM_CMD_FLASH_MODE is written.
FlashMode ==
    /\ pc = "bootmode" /\ pc' = "powerup" /\ bootmode' = "flash"
    /\ UNCHANGED <<calls, result, fds, fd, cmd_engine_fd, try_count, usb, ctlOk,
                   failures, readVars, bpVars>>

NormalMode ==
    /\ pc = "bootmode" /\ pc' = "powerup" /\ bootmode' = "normal"
    /\ UNCHANGED <<calls, result, fds, fd, cmd_engine_fd, try_count, usb, ctlOk,
                   failures, readVars, bpVars>>

Powerup ==
    /\ pc = "powerup" /\ pc' = "init"
    /\ bp' = IF bp = "off" THEN bootmode ELSE bp
    /\ fds' = [fds EXCEPT ![fd] = "free"]
    /\ UNCHANGED <<calls, result, fd, cmd_engine_fd, try_count, usb, bootmode, ctlOk,
                   failures, readVars, pending, partial, line, unsolicited, cleared>>

\* Any of the three writes fails: the function returns without close.
ControlFails ==
    /\ pc \in {"shutdown", "bootmode", "powerup"}
    /\ pc' = "init" /\ ctlOk' = FALSE /\ failures' = failures + 1
    /\ UNCHANGED <<calls, result, fds, fd, cmd_engine_fd, try_count, usb, bootmode,
                   readVars, bpVars>>

-----------------------------------------------------------------------------
(* CMD_ENGINE_init.                                                        *)

\* Mutant of InitEngine: a handle that is not negative is taken for an open one.
InitEngineOnce ==
    /\ pc = "init" /\ pc' = IF cmd_engine_fd < 0 THEN "connect" ELSE "write"
    /\ try_count' = 1
    /\ UNCHANGED <<calls, result, fds, fd, cmd_engine_fd, usb, bootmode, ctlOk,
                   failures, readVars, bpVars>>

InitEngine ==
    /\ pc = "init" /\ pc' = "connect"
    /\ cmd_engine_fd' = -1 /\ try_count' = 1
    /\ UNCHANGED <<calls, result, fds, fd, usb, bootmode, ctlOk, failures, readVars, bpVars>>

\* The line exists while the baseband runs in normal mode on a bus that is
\* awake; what it had said is flushed.
Connect ==
    /\ pc = "connect" /\ bp = "normal" /\ usb = "on" /\ Free # {}
    /\ cmd_engine_fd' = Lowest(Free)
    /\ fds' = [fds EXCEPT ![cmd_engine_fd'] = "engine"]
    /\ line' = <<>> /\ pc' = "write"
    /\ UNCHANGED <<calls, result, fd, try_count, usb, bootmode, ctlOk, failures, readVars,
                   bp, pending, partial, unsolicited, cleared>>

\* Mutant of ConnectFails: the tries are not counted.
ConnectFailsUncounted ==
    /\ pc = "connect" /\ cmd_engine_fd' = -1
    /\ IF try_count = CMD_ENGINE_CONNECT_MAX_TRY THEN Return(1) ELSE UNCHANGED <<pc, result>>
    /\ UNCHANGED <<calls, fds, fd, try_count, usb, bootmode, ctlOk, failures, readVars,
                   bpVars>>

ConnectFails ==
    /\ pc = "connect" /\ cmd_engine_fd' = -1
    /\ IF try_count = CMD_ENGINE_CONNECT_MAX_TRY
       THEN Return(1) /\ UNCHANGED try_count
       ELSE try_count' = try_count + 1 /\ UNCHANGED <<pc, result>>
    /\ UNCHANGED <<calls, fds, fd, usb, bootmode, ctlOk, failures, readVars, bpVars>>

-----------------------------------------------------------------------------
(* CMD_ENGINE_write and CMD_ENGINE_read.                                   *)

\* After half a command the baseband does not recognise the next one.
Write ==
    /\ pc = "write" /\ pc' = "read"
    /\ pending' = IF partial THEN pending ELSE pending \cup {calls}
    /\ UNCHANGED <<calls, result, fds, fd, cmd_engine_fd, try_count, usb, bootmode, ctlOk,
                   failures, readVars, bp, partial, line, unsolicited, cleared>>

\* malloc fails, or write takes nothing or a part: return without close.
WriteFails ==
    /\ pc = "write" /\ Return(1) /\ failures' = failures + 1
    /\ partial' \in {partial, TRUE}
    /\ UNCHANGED <<calls, fds, fd, cmd_engine_fd, try_count, usb, bootmode, ctlOk,
                   readVars, bp, pending, line, unsolicited, cleared>>

\* Mutant of BytesWanted: what was read already is asked for again.
BytesWantedAll == HdrSize

BytesWanted == Wrap(HdrSize - total)

\* read returns n bytes, which are stored from data[total_bytes_read] on; a place
\* outside the header is one before or after it.
Read(n) ==
    /\ pc = "read" /\ n <= BytesWanted
    /\ header' = [i \in 0..(HdrSize - 1) |->
                    IF Wrap(i - total) < n THEN line[Wrap(i - total) + 1] ELSE header[i]]
    /\ wild' = (wild \/ \E k \in 0..(n - 1) : Wrap(total + k) >= HdrSize)
    /\ total' = Wrap(total + n) /\ line' = SubSeq(line, n + 1, Len(line))
    /\ pc' = IF total' = HdrSize THEN "judge" ELSE "read"
    /\ UNCHANGED <<calls, result, fds, fd, cmd_engine_fd, try_count, usb, bootmode, ctlOk,
                   failures, erred, bp, pending, partial, unsolicited, cleared>>

\* read returns -1: bytes_read is a UINT32, so this is not "<= 0" but one byte
\* less than before, and the loop goes on.
ReadFails ==
    /\ pc = "read" /\ erred' = TRUE
    /\ total' = Wrap(total - 1)
    /\ pc' = IF total' = HdrSize THEN "judge" ELSE "read"
    /\ UNCHANGED <<calls, result, fds, fd, cmd_engine_fd, try_count, usb, bootmode, ctlOk,
                   failures, header, wild, bpVars>>

\* read returns 0.
ReadEnds ==
    /\ pc = "read" /\ Return(1) /\ failures' = failures + 1 /\ NewHeader
    /\ UNCHANGED <<calls, fds, fd, cmd_engine_fd, try_count, usb, bootmode, ctlOk, bpVars>>

-----------------------------------------------------------------------------
(* The rest of bp_master_clear.                                            *)

\* A byte at another place of the header is of any value.
rsp_codes == IF header[CodeAt].at = CodeAt THEN {header[CodeAt].resp.code} ELSE Codes
fail_flags == IF header[0].at = 0 THEN {header[0].resp.fail_flag} ELSE 0..1

\* fail_flag & CMD_DEFS_RSP_FLAG_FAIL, of a field of one bit.
FlagFail(flag) == (flag \div 4) % 2 = 1

\* Mutant of Judge: success does not close the line.
JudgeOpen ==
    /\ pc = "judge"
    /\ \E code \in rsp_codes :
         IF code \notin Accepted
         THEN Return(1) /\ failures' = failures + 1 /\ NewHeader
         ELSE Return(0) /\ UNCHANGED <<failures, readVars>>
    /\ UNCHANGED <<calls, fds, fd, cmd_engine_fd, try_count, usb, bootmode, ctlOk, bpVars>>

Judge ==
    /\ pc = "judge"
    /\ \E code \in rsp_codes, flag \in fail_flags :
         IF FlagFail(flag) \/ code \notin Accepted
         THEN Return(1) /\ failures' = failures + 1 /\ NewHeader /\ UNCHANGED <<fds, line>>
         ELSE /\ Return(0) /\ line' = <<>> /\ UNCHANGED <<failures, readVars>>
              /\ fds' = [fds EXCEPT ![cmd_engine_fd] = "free"]
    /\ UNCHANGED <<calls, fd, cmd_engine_fd, try_count, usb, bootmode, ctlOk, bp, pending,
                   partial, unsolicited, cleared>>

-----------------------------------------------------------------------------
(* The baseband.                                                           *)

\* What it says while nobody has the line open is flushed by the next open.
Say(resp) ==
    line' = IF \E f \in Fds : fds[f] = "engine"
            THEN line \o [i \in 1..HdrSize |-> [resp |-> resp, at |-> i - 1]]
            ELSE line

\* It carries a command out, or refuses it by a code or by the flag alone.
BpAnswer(c) ==
    /\ bp = "normal" /\ c \in pending /\ pending' = pending \ {c}
    /\ \/ /\ Say([call |-> c, code |-> "CMD_RSP_GENERIC", fail_flag |-> 0])
          /\ cleared' = cleared \cup {c}
       \/ /\ \E code \in {"CMD_RSP_GENERIC", "error"} :
                Say([call |-> c, code |-> code, fail_flag |-> 1])
          /\ UNCHANGED cleared
    /\ UNCHANGED <<pc, calls, result, fds, fd, cmd_engine_fd, try_count, usb, bootmode,
                   ctlOk, failures, readVars, bp, partial, unsolicited>>

\* It says something that is no answer (unsol_rsp_flag).
BpSpeak ==
    /\ bp = "normal" /\ unsolicited < Unsolicited /\ unsolicited' = unsolicited + 1
    /\ Say([call |-> 0, code |-> "CMD_RSP_GENERIC", fail_flag |-> 0])
    /\ UNCHANGED <<pc, calls, result, fds, fd, cmd_engine_fd, try_count, usb, bootmode,
                   ctlOk, failures, readVars, bp, pending, partial, cleared>>

-----------------------------------------------------------------------------
Steps ==
    \/ Unsuspend \/ UnsuspendFails
    \/ OpenControl \/ OpenControlFails \/ Shutdown \/ NormalMode \/ Powerup \/ ControlFails
    \/ InitEngine \/ Connect \/ ConnectFails
    \/ Write \/ WriteFails
    \/ \E n \in 1..Len(line) : Read(n)
    \/ Judge

Baseband == BpSpeak \/ \E c \in Calls : BpAnswer(c)

Next == Call \/ Steps \/ ReadFails \/ ReadEnds \/ Baseband

Spec == Init /\ [][Next]_vars

-----------------------------------------------------------------------------
(* Properties.                                                             *)

TypeOK ==
    /\ pc \in {"idle", "setup", "control", "shutdown", "bootmode", "powerup", "init",
              "connect", "write", "read", "judge", "crashed"}
    /\ calls \in 0..MaxCalls /\ (pc # "idle" => calls > 0) /\ result \in {-1, 0, 1}
    /\ fds \in [Fds -> {"free", "control", "engine"}]
    /\ fd \in Fds \cup {-1} /\ cmd_engine_fd \in Fds \cup {-1}
    /\ try_count \in 1..CMD_ENGINE_CONNECT_MAX_TRY
    /\ total \in 0..(UINT32 - 1)
    /\ header \in [0..(HdrSize - 1) -> Bytes \cup {NoByte}]
    /\ usb \in {"auto", "on"}
    /\ bp \in {"off", "flash", "normal"} /\ bootmode \in {"flash", "normal"}
    /\ pending \subseteq Calls /\ partial \in BOOLEAN /\ line \in Seq(Bytes)
    /\ unsolicited \in Nat /\ cleared \subseteq Calls
    /\ ctlOk \in BOOLEAN /\ erred \in BOOLEAN /\ wild \in BOOLEAN /\ failures \in Nat

\* The command is written to, and the response read from, the line that this call
\* opened: never a descriptor left from an earlier call, which may be mdm_ctrl's now.
HandleIsEngine ==
    pc \in {"write", "read", "judge"} =>
        cmd_engine_fd \in Fds /\ fds[cmd_engine_fd] = "engine"

\* A call whose restart of the baseband and whose reads all succeeded, and which
\* returns 0, has judged a response to its own command or an unsolicited one
\* (which the code does not tell apart), never a late one to an earlier command.
SuccessIsAnswered ==
    pc = "idle" /\ result = 0 /\ ctlOk /\ ~erred =>
        /\ header[CodeAt].at = CodeAt
        /\ header[CodeAt].resp.call \in {0, calls}

\* Unless a read failed, no byte is stored outside the header, and a header that
\* is judged is one response, whole and in order, however many reads it took.
HeaderIsRead ==
    pc \in {"read", "judge"} /\ ~erred =>
        /\ ~wild
        /\ pc = "judge" =>
             \E resp \in Responses : \A i \in 0..(HdrSize - 1) :
                header[i] = [resp |-> resp, at |-> i]

\* A call leaves a descriptor open only where a step failed after an open: a call
\* in which everything succeeds gives back all it took.
LeaksAreFailures ==
    pc = "idle" => Cardinality(Fds \ Free) <= failures

\* Once the three control writes of a call have succeeded the baseband runs in
\* normal mode, whatever it did before, until the next call.
BpLeftNormal ==
    /\ ctlOk /\ pc \in {"init", "connect", "write", "read", "judge"} => bp = "normal"
    /\ ctlOk /\ pc = "idle" /\ result = 0 => bp = "normal"

\* A bound on the steps the call has yet to take, if no read fails any more.
Missing == Wrap(HdrSize - total)
ConnectLeft == 2 + HdrSize + CMD_ENGINE_CONNECT_MAX_TRY
StepsLeft ==
    CASE pc \in {"idle", "crashed"} -> 0
      [] pc = "judge"    -> 1
      [] pc = "read"     -> 1 + Missing
      [] pc = "write"    -> 2 + HdrSize
      [] pc = "connect"  -> ConnectLeft + 1 - try_count
      [] pc = "init"     -> ConnectLeft + 1
      [] pc = "powerup"  -> ConnectLeft + 2
      [] pc = "bootmode" -> ConnectLeft + 3
      [] pc = "shutdown" -> ConnectLeft + 4
      [] pc = "control"  -> ConnectLeft + 5
      [] pc = "setup"    -> ConnectLeft + 6

\* A call cannot go on for ever but by reads that fail: each of its other steps
\* brings it nearer to its end, however the header is split over the reads and
\* wherever failed ones have taken the unsigned counter; a failed read costs one
\* step more, and nothing the baseband says prolongs the call.
CallShrinks ==
    [][pc # "idle" =>
         \/ StepsLeft' < StepsLeft
         \/ ReadFails /\ StepsLeft' = StepsLeft + 1
         \/ Baseband /\ StepsLeft' = StepsLeft]_vars

\* "0 - BP master clear successfully" (masterclear_bp.h:147): false, for the
\* mask of the fail flag does not meet the field.
SuccessMeansCleared == pc = "idle" /\ result = 0 => calls \in cleared
=============================================================================
