------------------------------- MODULE ShaComm -------------------------------
(***************************************************************************)
(* How whisperd talks to the authentication device of a UART dock: the     *)
(* command layer (whisper/SHA_Comm.c, SHA_CommMarshalling.c) over the      *)
(* serial line (whisper/SA_Phys_Linux.c), in the order in which the        *)
(* protocol daemon uses them: open the channel, wake the device, read, and *)
(* close the channel, whatever failed.                                     *)
(*                                                                         *)
(* The line is half duplex: the port receives what it sends.  A byte on    *)
(* the line is a token; only the bytes the code looks at have a value, any *)
(* other may equal whatever the code compares it with.  The device and the *)
(* line are the environment.                                               *)
(***************************************************************************)
EXTENDS Integers, Sequences

CONSTANTS
    RxSize,                 \* size of a read command, and of the response to it
    SHA_RESPONSE_SIZE_MIN,  \* size of a status packet
    SHA_RETRY_COUNT,
    MAX_TRY_WAKEUP,
    Reads,                  \* bound on reads, for each session so far
    MaxSessions,            \* bound on sessions
    CommandFaults,          \* bound on commands that do not get through
    ResponseFaults,         \* bound on damaged responses
    Delays,                 \* bound on responses later than the time out
    LateEchoes,             \* bound on echoes of a command later than the time out
    DeviceErrors,           \* bound on commands the device refuses
    PortFaults              \* bound on failed opens, and writes of the tokens

ASSUME SizeAssumption ==
    /\ SHA_RESPONSE_SIZE_MIN \in Nat /\ RxSize \in Nat
    /\ 1 < SHA_RESPONSE_SIZE_MIN /\ SHA_RESPONSE_SIZE_MIN < RxSize
    /\ SHA_RETRY_COUNT \in 0..254 /\ MAX_TRY_WAKEUP \in Nat \ {0}
    /\ \A b \in {Reads, MaxSessions, CommandFaults, ResponseFaults, Delays,
                  LateEchoes, DeviceErrors, PortFaults} : b \in Nat

VARIABLES
    pc,
    sessions, calls,    \* how many sessions and reads there were
    tryWakeup,
    txBuffer,           \* the command, and how often SendBytes has shifted it
    rxBuffer,           \* the bytes of the response; <<>> if all are zero
    status, statusByte, nRetries,
    requests,           \* requests to transmit, in this call
    line,               \* bytes received and not read, or on their way
    dev,                \* the device: awake, and its answer to the last command
    sleepOwed,          \* auxiliary: no sleep byte was written since it was woken
    faults              \* faults that have happened, by kind

callVars == <<txBuffer, rxBuffer, status, statusByte, nRetries, requests>>
vars == <<pc, sessions, calls, tryWakeup, callVars, line, dev, sleepOwed,
          faults>>

-----------------------------------------------------------------------------
(* Bytes, packets, and faults.                                             *)

Token(kind, call, i) == [kind |-> kind, call |-> call, i |-> i]
Echo == Token("echo", 0, 0)
Junk == Token("junk", 0, 0)

Errors == {"parse", "exec", "comm"}

Packet(kind, call) ==
    IF kind = "none" THEN <<>>
    ELSE [i \in 1..(IF kind \in {"data", "command"} THEN RxSize
                                                  ELSE SHA_RESPONSE_SIZE_MIN)
            |-> Token(kind, call, i)]

\* What the count byte, when token t is read as one, says.
CountOf(t) ==
    IF t.kind = "echo" \/ (t.i = 2 /\ t.kind \in Errors) THEN {"other"}
    ELSE IF t.i = 1 THEN {IF t.kind \in {"data", "command"} THEN "rxSize" ELSE "min"}
    ELSE {"rxSize", "min", "other"}

\* What the status byte, when token t is read as one, says.
StatusOf(t) ==
    IF t.i = 2 /\ t.kind \in Errors THEN {t.kind}
    ELSE IF t.kind = "echo" THEN {"other"}
    ELSE Errors \cup {"other"}

NoAnswer == [kind |-> "none", call |-> 0]

FaultKinds == {"command", "response", "delay", "echo", "device", "port"}

FaultBound(k) ==
    CASE k = "command" -> CommandFaults [] k = "response" -> ResponseFaults
      [] k = "delay" -> Delays [] k = "echo" -> LateEchoes
      [] k = "device" -> DeviceErrors [] k = "port" -> PortFaults

Fault(k) ==
    /\ faults[k] < FaultBound(k)
    /\ faults' = [faults EXCEPT ![k] = @ + 1]

Drop(s, i) == SubSeq(s, 1, i - 1) \o SubSeq(s, i + 1, Len(s))
Rest(s, n) == SubSeq(s, n + 1, Len(s))

-----------------------------------------------------------------------------
Init ==
    /\ pc = "closed" /\ sessions = 0 /\ calls = 0 /\ tryWakeup = 0
    /\ txBuffer = [call |-> 0, shifts |-> 0]
    /\ rxBuffer = <<>>
    /\ status = "SUCCESS" /\ statusByte = "none" /\ nRetries = 0
    /\ requests = 0
    /\ line = <<>>
    /\ dev = [awake |-> FALSE, answer |-> NoAnswer] /\ sleepOwed = FALSE
    /\ faults = [k \in FaultKinds |-> 0]

\* SHAP_OpenChannel flushes the port.  If it fails the daemon goes straight to
\* SHAP_CloseChannel, which writes to no descriptor.
OpenChannel ==
    /\ pc = "closed" /\ sessions < MaxSessions
    /\ sessions' = sessions + 1 /\ tryWakeup' = 1
    /\ line' = <<>>
    /\ \/ pc' = "wakeup" /\ UNCHANGED faults
       \/ pc' = "closed" /\ Fault("port")
    /\ UNCHANGED <<calls, callVars, dev, sleepOwed>>

\* The device asleep, having forgotten its answer, and awake.  A device that was
\* awake when it was woken may still have the answer.
Asleep == [awake |-> FALSE, answer |-> NoAnswer]
Woken == {[awake |-> TRUE, answer |-> a] : a \in {NoAnswer, dev.answer}}

\* sleepDevice writes the one byte 0xCC to the line, where every other byte to the
\* device but the wake pulse goes out as eight, one for each of its bits: whether
\* the device d takes it for the sleep token is left open.
SleepDevice(d, owed) ==
    \/ dev' \in {d, Asleep} /\ sleepOwed' = FALSE /\ UNCHANGED faults
    \/ dev' = d /\ sleepOwed' = owed /\ Fault("port")

\* SHAP_WakeDevice.  If the device's answer is missing or damaged, because it was
\* not woken or for another reason, the device is put to sleep, but not if the
\* wake pulse could not be written.
WakeDevice ==
    /\ pc = "wakeup" /\ line' = <<>>
    /\ \/ /\ dev' \in Woken /\ sleepOwed' = TRUE
          /\ pc' = "ready" /\ tryWakeup' = 0 /\ UNCHANGED faults
       \/ /\ \/ \E d \in Woken \cup {dev} : SleepDevice(d, TRUE)
             \/ UNCHANGED <<dev, sleepOwed>> /\ Fault("port")
          /\ IF tryWakeup = MAX_TRY_WAKEUP
             THEN tryWakeup' = 0 /\ pc' = "closing"
             ELSE tryWakeup' = tryWakeup + 1 /\ UNCHANGED pc
    /\ UNCHANGED <<sessions, calls, callVars>>

\* Mutant of Read: the packet of the last command is taken to be still there.
ReadReusesBuffer ==
    /\ pc = "ready" /\ calls < sessions * Reads
    /\ pc' = "send" /\ calls' = calls + 1
    /\ txBuffer' = [call |-> calls + 1, shifts |-> txBuffer.shifts]
    /\ requests' = 0 /\ statusByte' = "none"
    /\ UNCHANGED <<sessions, tryWakeup, rxBuffer, status, nRetries, line, dev,
                   sleepOwed, faults>>

\* SHAC_Read builds the command in txBuffer.
Read ==
    /\ pc = "ready" /\ calls < sessions * Reads
    /\ pc' = "send" /\ calls' = calls + 1
    /\ txBuffer' = [call |-> calls + 1, shifts |-> 0]
    /\ requests' = 0 /\ statusByte' = "none"
    /\ UNCHANGED <<sessions, tryWakeup, rxBuffer, status, nRetries, line, dev,
                   sleepOwed, faults>>

\* What the device makes of the command, when it is awake and the command is
\* not shifted: it answers, or refuses, or does not get it or not intact.
Answer(kind) ==
    dev' = [awake |-> dev.awake, answer |-> [kind |-> kind, call |-> txBuffer.call]]

Execute ==
    \/ /\ dev.awake /\ txBuffer.shifts = 0
       /\ \/ Answer("data") /\ UNCHANGED faults
          \/ (Answer("parse") \/ Answer("exec")) /\ Fault("device")
    \/ Answer("comm") /\ dev.awake /\ Fault("command")
    \/ UNCHANGED dev /\ Fault("command")
    \/ UNCHANGED <<dev, faults>> /\ ~(dev.awake /\ txBuffer.shifts = 0)

\* The flag and the command are written from txBuffer, shifted by one to make
\* room for the flag.  The result of the write is ignored and SHA_SUCCESS is
\* returned, so SHAC_SendAndReceive never re-sends.
SendCommand ==
    /\ pc = "send" /\ pc' = "sent"
    /\ Execute
    /\ txBuffer' = [call |-> txBuffer.call, shifts |-> txBuffer.shifts + 1]
    /\ status' = "SUCCESS" /\ nRetries' = SHA_RETRY_COUNT
    /\ UNCHANGED <<sessions, calls, tryWakeup, rxBuffer, statusByte, requests,
                   line, sleepOwed>>

\* The port receives the flag and the command it sent.
CommandEcho == <<Echo>> \o Packet("command", txBuffer.call)

\* The rest of SHAP_SendBytes waits 200 ms for the echo of the command, whatever
\* becomes of it, and flushes the input: bytes that were sent before are gone,
\* unless they are late once more, or the echo is not all in by then.
ReadEcho ==
    /\ pc = "sent" /\ pc' = "receive"
    /\ \/ line' = <<>> /\ UNCHANGED faults
       \/ \E n \in 0..(Len(line) - 1) : line' = Rest(line, n) /\ Fault("delay")
       \/ \E n \in 0..(Len(line) + RxSize) :
             line' = Rest(line \o CommandEcho, n) /\ Fault("echo")
    /\ UNCHANGED <<sessions, calls, tryWakeup, callVars, dev, sleepOwed>>

\* The line after the request to transmit: its echo, and the device's answer,
\* which may lose a byte or have one changed.
Transmitted(packet) == Append(line, Echo) \o packet

Response ==
    LET packet == Packet(dev.answer.kind, dev.answer.call)
    IN {Transmitted(packet)}

DamagedResponse ==
    LET packet == Packet(dev.answer.kind, dev.answer.call)
    IN {Transmitted(Drop(packet, i)) : i \in DOMAIN packet}
        \cup {Transmitted([packet EXCEPT ![i] = Junk]) : i \in DOMAIN packet}

\* readFromDevice asks for the echo and RxSize bytes.  If they come in time it
\* takes all there is, skips the echo and formats the rest; at the time out it
\* formats nothing, and fails only if there was nothing at all.
Needed == RxSize + 1

ReadFromDevice(input, n) ==
    /\ line' = Rest(input, n)
    /\ rxBuffer' = IF n < Needed THEN <<>> ELSE SubSeq(input, 2, Needed)
    /\ status' = IF n = 0 THEN "COMM_FAIL" ELSE "SUCCESS"

\* Mutant of ReceiveResponse: rxBuffer is not cleared first.
ReceiveResponseNoReset ==
    /\ pc = "receive" /\ pc' = "verify"
    /\ requests' = requests + 1
    /\ \E input \in Response : \E n \in 1..Len(input) :
          /\ n < Needed => n = Len(input)
          /\ line' = Rest(input, n)
          /\ rxBuffer' = IF n < Needed THEN rxBuffer ELSE SubSeq(input, 2, Needed)
          /\ status' = "SUCCESS" /\ UNCHANGED faults
    /\ UNCHANGED <<sessions, calls, tryWakeup, txBuffer, statusByte, nRetries, dev,
                   sleepOwed>>

\* SHAP_ReceiveBytes, after rxBuffer is cleared.
ReceiveResponse ==
    /\ pc = "receive" /\ pc' = "verify"
    /\ requests' = requests + 1
    /\ \/ \E input \in Response : \E n \in 1..Len(input) :
             /\ n < Needed => n = Len(input)
             /\ ReadFromDevice(input, n) /\ UNCHANGED faults
       \/ \E input \in DamagedResponse : \E n \in 1..Len(input) :
             /\ n < Needed => n = Len(input)
             /\ ReadFromDevice(input, n) /\ Fault("response")
       \/ \E input \in Response : \E n \in 0..(Len(input) - 1) :
             /\ n < Needed
             /\ ReadFromDevice(input, n) /\ Fault("delay")
    /\ UNCHANGED <<sessions, calls, tryWakeup, txBuffer, statusByte, nRetries, dev,
                   sleepOwed>>

Finish(result) == pc' = "return" /\ status' = result /\ UNCHANGED nRetries

\* while (nRetries-- && status != SHA_SUCCESS), an unsigned byte
Again(result) ==
    /\ status' = result
    /\ nRetries' = (nRetries - 1) % 256
    /\ pc' = IF nRetries # 0 /\ result # "SUCCESS" THEN "receive" ELSE "return"

\* A status packet instead of a full response; its CRC is not looked at.
StatusPacket(s) ==
    /\ statusByte' = s
    /\ \/ s = "parse" /\ Finish("PARSE_ERROR")
       \/ s = "exec"  /\ Finish("CMD_FAIL")
       \/ s = "other" /\ Finish("STATUS_UNKNOWN")
       \/ s = "comm"  /\ Again(status)

\* The CRC tells a packet that arrived intact from any other bytes; that of a
\* command is computed in the same way as that of a response.
CrcMatches ==
    \E c \in 1..calls : rxBuffer = Packet("data", c) \/ rxBuffer = Packet("command", c)

\* Mutant of Verify: a response of the wrong size ends the call.
VerifyNoRetry ==
    /\ pc = "verify"
    /\ IF rxBuffer = <<>> THEN Finish("BAD_SIZE")
       ELSE Again(IF CrcMatches THEN "SUCCESS" ELSE "BAD_CRC")
    /\ UNCHANGED <<sessions, calls, tryWakeup, txBuffer, rxBuffer, statusByte,
                   requests, line, dev, sleepOwed,
                   faults>>

\* Mutant of Verify: the retries are not counted.
VerifyUncounted ==
    /\ pc = "verify"
    /\ IF rxBuffer = <<>> THEN pc' = "receive" /\ UNCHANGED <<status, nRetries>>
       ELSE Again(IF CrcMatches THEN "SUCCESS" ELSE "BAD_CRC")
    /\ UNCHANGED <<sessions, calls, tryWakeup, txBuffer, rxBuffer, statusByte,
                   requests, line, dev, sleepOwed,
                   faults>>

\* The rest of the loop body.
Verify ==
    /\ pc = "verify"
    /\ \/ /\ status # "SUCCESS" /\ rxBuffer = <<>>
          /\ Finish(status) /\ UNCHANGED statusByte
       \/ /\ status = "SUCCESS" /\ rxBuffer = <<>>
          /\ Again("BAD_SIZE") /\ UNCHANGED statusByte
       \/ /\ rxBuffer # <<>>
          /\ \E count \in CountOf(Head(rxBuffer)) :
                \/ /\ count = "min"
                   /\ \E s \in StatusOf(rxBuffer[2]) : StatusPacket(s)
                \/ /\ count = "rxSize" /\ UNCHANGED statusByte
                   /\ Again(IF CrcMatches THEN "SUCCESS" ELSE "BAD_CRC")
                \/ /\ count = "other" /\ UNCHANGED statusByte
                   /\ Again("BAD_SIZE")
    /\ UNCHANGED <<sessions, calls, tryWakeup, txBuffer, rxBuffer, requests, line,
                   dev, sleepOwed, faults>>

\* The daemon goes on after a success.
Return ==
    /\ pc = "return" /\ status = "SUCCESS" /\ calls < sessions * Reads
    /\ pc' = "ready"
    /\ UNCHANGED <<sessions, calls, tryWakeup, callVars, line, dev, sleepOwed,
                   faults>>

\* It stops after a failure or the last read, or because the dock is gone.
Leave ==
    /\ pc \in {"ready", "return"} /\ pc' = "closing"
    /\ UNCHANGED <<sessions, calls, tryWakeup, callVars, line, dev, sleepOwed,
                   faults>>

\* Mutant of CloseChannel: the device is left as it is.
CloseChannelAwake ==
    /\ pc = "closing" /\ pc' = "closed"
    /\ UNCHANGED <<sessions, calls, tryWakeup, callVars, line, dev, sleepOwed,
                   faults>>

CloseChannel ==
    /\ pc = "closing" /\ pc' = "closed"
    /\ SleepDevice(dev, sleepOwed)
    /\ UNCHANGED <<sessions, calls, tryWakeup, callVars, line>>

Next ==
    \/ OpenChannel \/ WakeDevice \/ Read \/ SendCommand \/ ReadEcho
    \/ ReceiveResponse \/ Verify \/ Return \/ Leave \/ CloseChannel

Spec == Init /\ [][Next]_vars

-----------------------------------------------------------------------------
(* Properties.                                                             *)

Statuses == {"SUCCESS", "COMM_FAIL", "BAD_SIZE", "BAD_CRC", "PARSE_ERROR",
             "CMD_FAIL", "STATUS_UNKNOWN"}

PCs == {"closed", "wakeup", "ready", "send", "sent", "receive", "verify",
        "return", "closing"}

Tokens == [kind : Errors \cup {"data", "command", "echo", "junk"}, call : Nat, i : Nat]
Answers == [kind : Errors \cup {"data", "none"}, call : 0..calls]

\* Types; a response in rxBuffer has the size that was asked for, the retry
\* counter is a byte that runs from SHA_RETRY_COUNT below zero, and no command
\* is shifted twice.
TypeOK ==
    /\ pc \in PCs /\ sessions \in 0..MaxSessions /\ calls \in 0..(MaxSessions * Reads)
    /\ tryWakeup \in 0..MAX_TRY_WAKEUP
    /\ txBuffer \in [call : 0..calls, shifts : 0..1]
    /\ pc = "send" => txBuffer.shifts = 0
    /\ rxBuffer \in Seq(Tokens) /\ line \in Seq(Tokens) /\ Len(rxBuffer) \in {0, RxSize}
    /\ status \in Statuses /\ statusByte \in Errors \cup {"none", "other"}
    /\ nRetries \in 0..SHA_RETRY_COUNT \cup {255}
    /\ pc \in {"sent", "receive", "verify"} => nRetries <= SHA_RETRY_COUNT
    /\ requests \in Nat
    /\ dev \in [awake : BOOLEAN, answer : Answers] /\ sleepOwed \in BOOLEAN
    /\ faults \in [FaultKinds -> Nat] /\ \A k \in FaultKinds : faults[k] <= FaultBound(k)

Returned(result) == pc = "return" /\ status = result

\* What SHAC_Read accepts as a response is the device's answer to this very
\* command, not to an earlier one, provided that the commands got through and
\* were echoed in time, and that fewer than three responses were late: a late echo
\* is itself accepted as the response, and with a third late response the echo and
\* the answer of an earlier request can take the place of the awaited ones.
AnswerIsForCall ==
    /\ faults["command"] = 0 /\ faults["echo"] = 0 /\ faults["delay"] < 3
    /\ Returned("SUCCESS") /\ CrcMatches
    => rxBuffer = Packet("data", calls)

\* Damaged responses, as many as there are retries, do not make a read fail,
\* unless the damage makes the response look like a status packet.
RetriesSuffice ==
    /\ faults["response"] <= SHA_RETRY_COUNT
    /\ \A k \in {"command", "delay", "echo", "device"} : faults[k] = 0
    /\ pc = "return"
    => status = "SUCCESS" \/ statusByte # "none"

\* The device is asked to transmit at most SHA_RETRY_COUNT times again.
RequestsBounded == requests <= SHA_RETRY_COUNT + 1

\* The daemon leaves no device behind a closed channel that it has woken, or
\* tried to, and not written the sleep byte to since, unless a write failed.
SleepToldWhenClosed == faults["port"] = 0 /\ pc = "closed" => ~sleepOwed

\* SHA_Status.h: SHA_SUCCESS means "Function succeeded. Device status, if
\* available, was okay."
SuccessIsOkay == Returned("SUCCESS") => statusByte \notin Errors
=============================================================================
