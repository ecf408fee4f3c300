--------------------------- MODULE ShaComm_proofs ---------------------------
(* Theorems about ShaComm, for all sizes, numbers of retries and faults.   *)
EXTENDS ShaComm, SequenceTheorems, TLAPS

USE SizeAssumption

LEMMA TokenTypes ==
    /\ Echo \in Tokens /\ Junk \in Tokens
    /\ \A kind \in Errors \cup {"data"}, call \in Nat, i \in Nat : Token(kind, call, i) \in Tokens
BY DEF Tokens, Token, Echo, Junk

LEMMA BoundsAreNat == \A k \in FaultKinds : FaultBound(k) \in Nat
BY DEF FaultBound, FaultKinds

\* A set S of tokens that has all that the device and the line send of their own.
Complete(S) ==
    /\ Echo \in S /\ Junk \in S
    /\ \A kind \in Errors \cup {"data"}, call \in Nat, i \in Nat : Token(kind, call, i) \in S

\* A packet of the device is a sequence of such tokens.
LEMMA PacketIn ==
    ASSUME NEW S, Complete(S), NEW kind \in Errors \cup {"data", "none"}, NEW call \in Nat
    PROVE  /\ Packet(kind, call) \in Seq(S)
           /\ Len(Packet(kind, call)) <= RxSize
<1>1. CASE kind = "none"
  BY <1>1 DEF Packet
<1>2. CASE kind # "none"
  <2>1. PICK n \in {RxSize, SHA_RESPONSE_SIZE_MIN} :
            Packet(kind, call) = [i \in 1..n |-> Token(kind, call, i)]
    BY <1>2 DEF Packet
  <2>2. \A i \in 1..n : Token(kind, call, i) \in S
    BY <1>2 DEF Complete
  <2>3. n \in Nat /\ n <= RxSize
    BY <2>1
  <2>4. /\ [i \in 1..n |-> Token(kind, call, i)] \in Seq(S)
        /\ Len([i \in 1..n |-> Token(kind, call, i)]) = n
    BY <2>2, <2>3
  <2>. QED  BY <2>1, <2>3, <2>4
<1>. QED  BY <1>1, <1>2

LEMMA TokensComplete == Complete(Tokens)
BY TokenTypes DEF Complete

LEMMA PacketType ==
    ASSUME NEW kind \in Errors \cup {"data", "none"}, NEW call \in Nat
    PROVE  /\ Packet(kind, call) \in Seq(Tokens)
           /\ Len(Packet(kind, call)) <= RxSize
BY PacketIn, TokensComplete

\* What is on the line after a request to transmit, damaged or not.
LEMMA ResponseIn ==
    ASSUME TypeOK, NEW S, Complete(S), line \in Seq(S), NEW input \in Response \cup DamagedResponse
    PROVE  input \in Seq(S)
<1> DEFINE packet == Packet(dev.answer.kind, dev.answer.call)
<1>1. packet \in Seq(S)
  <2>1. dev.answer.kind \in Errors \cup {"data", "none"} /\ dev.answer.call \in Nat
    BY DEF TypeOK, Answers
  <2>. QED  BY <2>1, PacketIn
<1>2. \A p \in Seq(S) : Transmitted(p) \in Seq(S)
  BY DEF Transmitted, Complete
<1>. HIDE DEF packet
<1>3. \A i \in DOMAIN packet : Drop(packet, i) \in Seq(S)
  BY SMTT(30), <1>1 DEF Drop
<1>4. \A i \in DOMAIN packet : [packet EXCEPT ![i] = Junk] \in Seq(S)
  BY <1>1, ExceptSeq DEF Complete
<1>. QED  BY <1>1, <1>2, <1>3, <1>4 DEF Response, DamagedResponse, packet

LEMMA ResponseType ==
    ASSUME TypeOK, NEW input \in Response \cup DamagedResponse
    PROVE  input \in Seq(Tokens)
<1>1. line \in Seq(Tokens)
  BY DEF TypeOK
<1>. QED  BY <1>1, ResponseIn, TokensComplete

LEMMA ReadFromDeviceIn ==
    ASSUME NEW S, NEW input \in Seq(S), NEW n \in 0..Len(input), ReadFromDevice(input, n)
    PROVE  /\ line' \in Seq(S) /\ rxBuffer' \in Seq(S)
           /\ Len(rxBuffer') \in {0, RxSize} /\ status' \in Statuses
<1>1. line' \in Seq(S)
  BY DEF ReadFromDevice, Rest
<1>2. status' \in Statuses
  BY DEF ReadFromDevice, Statuses
<1>3. CASE n < Needed
  <2>1. rxBuffer' = <<>>
    BY <1>3 DEF ReadFromDevice
  <2>. QED  BY <2>1, <1>1, <1>2
<1>4. CASE n >= Needed
  <2>1. rxBuffer' = SubSeq(input, 2, Needed)
    BY <1>4 DEF ReadFromDevice, Needed
  <2>2. rxBuffer' \in Seq(S) /\ Len(rxBuffer') = RxSize
    <3>1. /\ Len(input) \in Nat /\ 2 \in 1..(Len(input) + 1) /\ Needed \in 1..Len(input)
          /\ Needed - 2 + 1 = RxSize /\ RxSize \in Nat
      BY <1>4 DEF Needed
    <3>2. SubSeq(input, 2, Needed) \in Seq(S)
      BY <3>1
    <3>3. Len(SubSeq(input, 2, Needed)) = RxSize
      BY <3>1
    <3>. QED  BY <2>1, <3>2, <3>3
  <2>. QED  BY <2>2, <1>1, <1>2
<1>. QED  BY <1>3, <1>4 DEF Needed

LEMMA ReadFromDeviceType ==
    ASSUME NEW input \in Seq(Tokens), NEW n \in 0..Len(input), ReadFromDevice(input, n)
    PROVE  /\ line' \in Seq(Tokens) /\ rxBuffer' \in Seq(Tokens)
           /\ Len(rxBuffer') \in {0, RxSize} /\ status' \in Statuses
BY ReadFromDeviceIn

\* The echo of a command is a sequence of tokens.
LEMMA EchoType ==
    ASSUME TypeOK
    PROVE  CommandEcho \in Seq(Tokens) /\ Len(CommandEcho) = RxSize + 1
<1> DEFINE call == txBuffer.call
           command == Packet("command", call)
           e == <<Echo>>
<1>1. call \in Nat
  BY DEF TypeOK
<1>. HIDE DEF call
<1>2. command = [i \in 1..RxSize |-> Token("command", call, i)]
  BY DEF Packet
<1>3. \A i \in 1..RxSize : Token("command", call, i) \in Tokens
  BY <1>1 DEF Token, Tokens
<1>4. command \in Seq(Tokens) /\ Len(command) = RxSize
  BY <1>2, <1>3
<1>5. e \in Seq(Tokens) /\ Len(e) = 1
  BY TokenTypes
<1>6. CommandEcho = e \o command
  BY DEF CommandEcho, call
<1>. HIDE DEF command, e
<1>7. e \o command \in Seq(Tokens) /\ Len(e \o command) = Len(e) + Len(command)
  BY <1>4, <1>5, ConcatProperties
<1>. QED  BY <1>4, <1>5, <1>6, <1>7

\* A fault is counted and stays within its bound.
FaultsType ==
    /\ faults \in [FaultKinds -> Nat]
    /\ \A k \in FaultKinds : faults[k] <= FaultBound(k)

LEMMA FaultType ==
    ASSUME TypeOK, NEW k \in FaultKinds, Fault(k) \/ UNCHANGED faults PROVE FaultsType'
<1>1. CASE Fault(k)
  <2>1. faults' \in [FaultKinds -> Nat]
    BY SMTT(30), <1>1 DEF Fault, TypeOK
  <2>2. \A j \in FaultKinds : faults'[j] = faults[j] \/ (j = k /\ faults'[j] = faults[j] + 1)
    BY <1>1 DEF Fault, TypeOK
  <2>3. \A j \in FaultKinds : faults'[j] <= FaultBound(j)
    BY SMTT(30), <1>1, <2>2, BoundsAreNat DEF Fault, TypeOK
  <2>. QED  BY <2>1, <2>3 DEF FaultsType
<1>2. CASE UNCHANGED faults
  BY <1>2 DEF FaultsType, TypeOK
<1>. QED  BY <1>1, <1>2

\* What the device answers, when it answers.
LEMMA AnswerType ==
    ASSUME TypeOK, NEW kind \in Errors \cup {"data", "none"}, Answer(kind)
    PROVE  dev' \in [awake : BOOLEAN, answer : Answers]
BY DEF TypeOK, Answer, Answers

LEMMA ExecuteType ==
    ASSUME TypeOK, Execute
    PROVE  dev' \in [awake : BOOLEAN, answer : Answers] /\ FaultsType'
<1>1. ASSUME NEW k \in {"device", "command"}, Fault(k) \/ UNCHANGED faults PROVE FaultsType'
  BY <1>1, FaultType DEF FaultKinds
<1>2. FaultsType'
  BY <1>1 DEF Execute
<1>3. UNCHANGED dev => dev' \in [awake : BOOLEAN, answer : Answers]
  BY DEF TypeOK
<1>4. CASE UNCHANGED dev
  BY <1>2, <1>3, <1>4
<1>5. CASE \E kind \in Errors \cup {"data", "none"} : Answer(kind)
  BY <1>2, <1>5, AnswerType
<1>. QED  BY <1>4, <1>5 DEF Execute, Errors

\* A device that was woken is one.
LEMMA WokenType == ASSUME TypeOK PROVE Woken \subseteq [awake : BOOLEAN, answer : Answers]
<1>1. dev.answer \in Answers
  BY DEF TypeOK
<1>2. NoAnswer \in Answers
  <2>1. 0 \in 0..calls
    BY DEF TypeOK
  <2>. QED  BY <2>1 DEF NoAnswer, Answers
<1>3. \A a \in Answers : [awake |-> TRUE, answer |-> a] \in [awake : BOOLEAN, answer : Answers]
  OBVIOUS
<1>4. {NoAnswer, dev.answer} \subseteq Answers
  BY <1>1, <1>2
<1>. QED  BY Zenon, <1>3, <1>4 DEF Woken

LEMMA WokenAwake == \A d \in Woken : d.awake = TRUE
BY DEF Woken

LEMMA SleepType ==
    ASSUME TypeOK, NEW d \in [awake : BOOLEAN, answer : Answers], NEW owed \in BOOLEAN,
           SleepDevice(d, owed)
    PROVE  /\ dev' \in [awake : BOOLEAN, answer : Answers] /\ sleepOwed' \in BOOLEAN
           /\ FaultsType'
<1>1. Asleep \in [awake : BOOLEAN, answer : Answers]
  <2>1. 0 \in 0..calls
    BY DEF TypeOK
  <2>2. NoAnswer \in Answers
    BY <2>1 DEF NoAnswer, Answers
  <2>. QED  BY <2>2 DEF Asleep
<1>2. FaultsType'
  BY FaultType DEF SleepDevice, FaultKinds
<1>3. dev' \in {d, Asleep} /\ sleepOwed' \in {FALSE, owed}
  BY DEF SleepDevice
<1>. QED  BY <1>1, <1>2, <1>3

\* The retry counter stays in its range, whether or not it wraps.
LEMMA AgainType ==
    ASSUME TypeOK, pc = "verify", NEW result \in Statuses, Again(result)
    PROVE  /\ nRetries' \in 0..SHA_RETRY_COUNT \cup {255}
           /\ status' = result /\ pc' \in {"receive", "return"}
           /\ pc' = "receive" => nRetries' = nRetries - 1 /\ nRetries' <= SHA_RETRY_COUNT
           /\ pc' = "return" => nRetries = 0 \/ result = "SUCCESS"
<1>1. nRetries \in 0..SHA_RETRY_COUNT
  BY DEF TypeOK
<1>2. nRetries' = IF nRetries = 0 THEN 255 ELSE nRetries - 1
  BY <1>1 DEF Again
<1>3. pc' \in {"receive", "return"} /\ status' = result
  BY DEF Again
<1>4. nRetries' \in 0..SHA_RETRY_COUNT \cup {255}
  BY <1>1, <1>2
<1>5. pc' = "receive" => nRetries # 0
  BY DEF Again
<1>6. pc' = "return" => nRetries = 0 \/ result = "SUCCESS"
  BY DEF Again
<1>. QED  BY <1>1, <1>2, <1>3, <1>4, <1>5, <1>6

LEMMA VerifyType == ASSUME TypeOK, Verify PROVE
    /\ nRetries' \in 0..SHA_RETRY_COUNT \cup {255}
    /\ status' \in Statuses /\ pc' \in {"receive", "return"}
    /\ pc' = "receive" => nRetries' = nRetries - 1 /\ nRetries' <= SHA_RETRY_COUNT
    /\ statusByte' \in Errors \cup {"none", "other"}
<1> DEFINE Goal == /\ nRetries' \in 0..SHA_RETRY_COUNT \cup {255}
                   /\ status' \in Statuses /\ pc' \in {"receive", "return"}
                   /\ pc' = "receive" => nRetries' = nRetries - 1 /\ nRetries' <= SHA_RETRY_COUNT
<1>a. /\ pc = "verify" /\ status \in Statuses /\ statusByte \in Errors \cup {"none", "other"}
      /\ nRetries \in 0..SHA_RETRY_COUNT \cup {255}
  BY DEF TypeOK, Verify
<1>1. ASSUME NEW result \in Statuses, Finish(result) PROVE Goal
  BY <1>1, <1>a DEF Finish
<1>2. ASSUME NEW result \in Statuses, Again(result) PROVE Goal
  BY <1>2, <1>a, AgainType
<1>b. {"BAD_SIZE", "BAD_CRC", "SUCCESS", "PARSE_ERROR", "CMD_FAIL", "STATUS_UNKNOWN"} \subseteq Statuses
  BY DEF Statuses
<1>. HIDE DEF Goal
<1>3. ASSUME NEW s, StatusPacket(s) PROVE Goal /\ statusByte' \in Errors \cup {"none", "other"}
  BY <1>1, <1>2, <1>3, <1>a, <1>b DEF StatusPacket, Errors
<1>4. ASSUME Again(IF CrcMatches THEN "SUCCESS" ELSE "BAD_CRC") PROVE Goal
  BY <1>2, <1>4, <1>b
<1>5. Goal /\ statusByte' \in Errors \cup {"none", "other"}
  BY <1>1, <1>2, <1>3, <1>4, <1>a, <1>b DEF Verify
<1>. QED  BY <1>5 DEF Goal

LEMMA CallsType ==
    ASSUME TypeOK, calls < sessions * Reads PROVE calls + 1 \in 0..(MaxSessions * Reads)
<1>1. calls \in Nat /\ sessions \in 0..MaxSessions
  BY DEF TypeOK
<1>2. \A a \in Nat, b \in Nat, c \in Nat : a <= b => a * c <= b * c
  OBVIOUS
<1>. QED  BY <1>1, <1>2

\* Every variable keeps its type.
LEMMA TypeStep == TypeOK /\ [Next]_vars => TypeOK'
<1> SUFFICES ASSUME TypeOK, [Next]_vars PROVE TypeOK'
  OBVIOUS
<1>. USE DEF callVars, PCs
<1>a. ASSUME NEW k \in FaultKinds, Fault(k) \/ UNCHANGED faults PROVE FaultsType'
  BY <1>a, FaultType
<1>1. CASE OpenChannel
  <2>1. FaultsType'
    BY <1>1, <1>a DEF OpenChannel, FaultKinds
  <2>2. sessions' \in 0..MaxSessions /\ tryWakeup' \in 0..MAX_TRY_WAKEUP /\ line' \in Seq(Tokens)
    BY SMTT(30), <1>1 DEF OpenChannel, TypeOK
  <2>3. pc' \in {"wakeup", "closed"} /\ UNCHANGED <<calls, callVars, dev, sleepOwed>>
    BY <1>1 DEF OpenChannel
  <2>. QED  BY SMTT(30), <2>1, <2>2, <2>3 DEF TypeOK, FaultsType, Answers
<1>2. CASE WakeDevice
  <2>1. /\ dev' \in [awake : BOOLEAN, answer : Answers] /\ sleepOwed' \in BOOLEAN
        /\ FaultsType'
    <3>1. CASE dev' \in Woken /\ sleepOwed' = TRUE /\ UNCHANGED faults
      BY <3>1, <1>a, WokenType DEF FaultKinds
    <3>2. CASE \E d \in Woken \cup {dev} : SleepDevice(d, TRUE)
      <4>1. dev \in [awake : BOOLEAN, answer : Answers]
        BY DEF TypeOK
      <4>. QED  BY <3>2, <4>1, SleepType, WokenType
    <3>3. CASE UNCHANGED <<dev, sleepOwed>> /\ Fault("port")
      BY <3>3, <1>a DEF FaultKinds, TypeOK
    <3>. QED  BY <1>2, <3>1, <3>2, <3>3 DEF WakeDevice
  <2>2. pc' \in {"wakeup", "ready", "closing"} /\ tryWakeup' \in 0..MAX_TRY_WAKEUP
    <3>1. tryWakeup \in 0..MAX_TRY_WAKEUP /\ 0 \in 0..MAX_TRY_WAKEUP
      BY DEF TypeOK
    <3>2. tryWakeup # MAX_TRY_WAKEUP => tryWakeup + 1 \in 0..MAX_TRY_WAKEUP
      BY <3>1
    <3>3. \/ pc' = "ready" /\ tryWakeup' = 0
          \/ pc' = "closing" /\ tryWakeup' = 0
          \/ tryWakeup # MAX_TRY_WAKEUP /\ tryWakeup' = tryWakeup + 1 /\ pc' = "wakeup"
      BY <1>2 DEF WakeDevice
    <3>. QED  BY <3>1, <3>2, <3>3
  <2>3. line' = <<>> /\ UNCHANGED <<sessions, calls, callVars>>
    BY <1>2 DEF WakeDevice
  <2>4. line' \in Seq(Tokens)
    BY <2>3
  <2>. QED  BY SMTT(30), <2>1, <2>2, <2>3, <2>4 DEF TypeOK, FaultsType, Answers
<1>3. CASE Read
  <2>1. calls' \in 0..(MaxSessions * Reads)
    BY <1>3, CallsType DEF Read
  <2>2. calls' = calls + 1 /\ txBuffer' = [call |-> calls', shifts |-> 0]
    BY <1>3 DEF Read
  <2>3. txBuffer' \in [call : 0..calls', shifts : 0..1] /\ txBuffer'.shifts = 0
    BY <2>1, <2>2
  <2>4. dev' \in [awake : BOOLEAN, answer : Answers'] /\ dev' = dev
    <3>1. \A a \in Answers : a \in Answers'
      BY SMTT(30), <2>2 DEF Answers, TypeOK
    <3>2. dev' = dev /\ dev \in [awake : BOOLEAN, answer : Answers]
      BY <1>3 DEF Read, TypeOK
    <3>. HIDE DEF Answers
    <3>. QED  BY <3>1, <3>2
  <2>5. /\ UNCHANGED <<sessions, tryWakeup, rxBuffer, status, nRetries, line, sleepOwed,
                        faults>>
        /\ pc' = "send" /\ requests' = 0 /\ statusByte' = "none"
    BY <1>3 DEF Read
  <2>. QED  BY <2>1, <2>3, <2>4, <2>5 DEF TypeOK
<1>4. CASE SendCommand
  <2>1. dev' \in [awake : BOOLEAN, answer : Answers] /\ FaultsType'
    BY <1>4, ExecuteType DEF SendCommand
  <2>2. txBuffer' \in [call : 0..calls, shifts : 0..1]
    BY <1>4 DEF SendCommand, TypeOK
  <2>3. nRetries' = SHA_RETRY_COUNT /\ status' \in Statuses /\ pc' = "sent"
    BY <1>4 DEF SendCommand, Statuses
  <2>4. UNCHANGED <<sessions, calls, tryWakeup, rxBuffer, statusByte, requests, line,
                    sleepOwed>>
    BY <1>4 DEF SendCommand
  <2>. QED  BY SMTT(30), <2>1, <2>2, <2>3, <2>4 DEF TypeOK, FaultsType, Answers
<1>5. CASE ReadEcho
  <2>1. line' \in Seq(Tokens)
    <3>1. line \in Seq(Tokens) /\ Len(line) \in Nat
      BY DEF TypeOK
    <3>2. \A n \in 0..(Len(line) - 1) : Rest(line, n) \in Seq(Tokens)
      BY <3>1 DEF Rest
    <3>3. <<>> \in Seq(Tokens)
      OBVIOUS
    <3>4. ASSUME NEW n \in 0..(Len(line) + RxSize)
          PROVE  Rest(line \o CommandEcho, n) \in Seq(Tokens)
      <4>1. CommandEcho \in Seq(Tokens) /\ Len(CommandEcho) = RxSize + 1
        BY EchoType
      <4>2. /\ line \o CommandEcho \in Seq(Tokens)
            /\ Len(line \o CommandEcho) = Len(line) + Len(CommandEcho)
        BY <3>1, <4>1, ConcatProperties
      <4>3. n \in 0..Len(line \o CommandEcho)
        BY <3>1, <4>1, <4>2
      <4>. QED  BY SMTT(30), <4>2, <4>3 DEF Rest
    <3>5. \/ line' = <<>>
          \/ \E n \in 0..(Len(line) - 1) : line' = Rest(line, n)
          \/ \E n \in 0..(Len(line) + RxSize) : line' = Rest(line \o CommandEcho, n)
      BY <1>5 DEF ReadEcho
    <3>. QED  BY ZenonT(30), <3>2, <3>3, <3>4, <3>5
  <2>2. FaultsType'
    BY <1>5, <1>a DEF ReadEcho, FaultKinds
  <2>3. UNCHANGED <<sessions, calls, tryWakeup, callVars, dev, sleepOwed>> /\ pc = "sent" /\ pc' = "receive"
    BY <1>5 DEF ReadEcho
  <2>. QED  BY <2>1, <2>2, <2>3 DEF TypeOK, FaultsType, Answers
<1>6. CASE ReceiveResponse
  <2>1. FaultsType'
    BY <1>6, <1>a DEF ReceiveResponse, FaultKinds
  <2>2. /\ line' \in Seq(Tokens) /\ rxBuffer' \in Seq(Tokens)
        /\ Len(rxBuffer') \in {0, RxSize} /\ status' \in Statuses
    <3>1. PICK input \in Response \cup DamagedResponse : \E n \in 0..Len(input) :
            ReadFromDevice(input, n)
      BY <1>6 DEF ReceiveResponse
    <3>2. input \in Seq(Tokens)
      BY ResponseType
    <3>. QED  BY <3>1, <3>2, ReadFromDeviceType
  <2>3. /\ UNCHANGED <<sessions, calls, tryWakeup, txBuffer, statusByte, nRetries, dev,
                        sleepOwed>>
        /\ pc = "receive" /\ pc' = "verify" /\ requests' = requests + 1
    BY <1>6 DEF ReceiveResponse
  <2>. QED  BY <2>1, <2>2, <2>3 DEF TypeOK, FaultsType, Answers
<1>7. CASE Verify
  <2>1. UNCHANGED <<sessions, calls, tryWakeup, txBuffer, rxBuffer, requests, line, dev,
                    sleepOwed, faults>>
    BY <1>7 DEF Verify
  <2>. QED  BY SMTT(30), <1>7, <2>1, VerifyType DEF TypeOK, Answers
<1>8. CASE Return \/ Leave
  <2>1. UNCHANGED <<sessions, calls, tryWakeup, callVars, line, dev, sleepOwed, faults>>
        /\ pc' \in {"ready", "closing"}
    BY <1>8 DEF Return, Leave
  <2>. QED  BY SMTT(30), <2>1 DEF TypeOK, Answers
<1>9. CASE CloseChannel
  <2>1. /\ dev' \in [awake : BOOLEAN, answer : Answers] /\ sleepOwed' \in BOOLEAN
        /\ FaultsType'
    <3>1. dev \in [awake : BOOLEAN, answer : Answers] /\ sleepOwed \in BOOLEAN
      BY DEF TypeOK
    <3>. QED  BY <1>9, <3>1, SleepType DEF CloseChannel
  <2>2. UNCHANGED <<sessions, calls, tryWakeup, callVars, line>> /\ pc' = "closed"
    BY <1>9 DEF CloseChannel
  <2>. QED  BY <2>1, <2>2 DEF TypeOK, FaultsType, Answers
<1>10. CASE UNCHANGED vars
  BY <1>10 DEF vars, TypeOK, Answers
<1>. QED
  BY <1>1, <1>2, <1>3, <1>4, <1>5, <1>6, <1>7, <1>8, <1>9, <1>10 DEF Next

LEMMA InitType == Init => TypeOK
<1> SUFFICES ASSUME Init PROVE TypeOK
  OBVIOUS
<1>1. dev \in [awake : BOOLEAN, answer : Answers]
  BY DEF Init, Answers, NoAnswer
<1>2. txBuffer \in [call : 0..calls, shifts : 0..1]
  BY DEF Init
<1>3. faults \in [FaultKinds -> Nat] /\ \A k \in FaultKinds : faults[k] <= FaultBound(k)
  BY BoundsAreNat DEF Init
<1>4. /\ 0 \in 0..(MaxSessions * Reads) /\ rxBuffer \in Seq(Tokens) /\ line \in Seq(Tokens)
      /\ Len(rxBuffer) = 0 /\ calls = 0
  BY DEF Init
<1>5. /\ pc = "closed" /\ status = "SUCCESS" /\ statusByte = "none" /\ nRetries = 0
      /\ sessions = 0 /\ tryWakeup = 0 /\ requests = 0 /\ sleepOwed = FALSE
  BY DEF Init
<1>6. /\ pc \in PCs /\ pc \notin {"send", "sent", "receive", "verify"} /\ status \in Statuses
      /\ sessions \in 0..MaxSessions /\ tryWakeup \in 0..MAX_TRY_WAKEUP
      /\ nRetries \in 0..SHA_RETRY_COUNT \cup {255} /\ requests \in Nat
  BY <1>5 DEF PCs, Statuses
<1>. QED  BY <1>1, <1>2, <1>3, <1>4, <1>5, <1>6 DEF TypeOK

THEOREM ShaTypeCorrect == Spec => []TypeOK
BY InitType, TypeStep, PTL DEF Spec

-----------------------------------------------------------------------------
(* The retries are bounded, and the device is told to sleep.               *)

\* What was asked for and what may still be asked for are the retries together.
RequestsInv ==
    /\ pc \in {"send", "sent"} => requests = 0
    /\ pc = "receive" => requests + nRetries <= SHA_RETRY_COUNT
    /\ pc = "verify" => requests + nRetries <= SHA_RETRY_COUNT + 1
    /\ RequestsBounded

LEMMA RequestsStep == TypeOK /\ RequestsInv /\ [Next]_vars => RequestsInv'
<1> SUFFICES ASSUME TypeOK, RequestsInv, [Next]_vars PROVE RequestsInv'
  OBVIOUS
<1>. USE DEF RequestsInv, RequestsBounded
<1>a. requests \in Nat /\ nRetries \in 0..SHA_RETRY_COUNT \cup {255}
  BY DEF TypeOK
<1>1. CASE OpenChannel \/ WakeDevice \/ Return \/ Leave \/ CloseChannel
  <2>1. requests' = requests /\ pc' \notin {"send", "sent", "receive", "verify"}
    BY <1>1 DEF OpenChannel, WakeDevice, Return, Leave, CloseChannel, callVars
  <2>. QED  BY <2>1
<1>2. CASE Read
  <2>1. requests' = 0 /\ pc' = "send"
    BY <1>2 DEF Read
  <2>. QED  BY <2>1
<1>3. CASE SendCommand
  <2>1. requests' = requests /\ pc = "send" /\ pc' = "sent"
    BY <1>3 DEF SendCommand
  <2>. QED  BY <2>1
<1>4. CASE ReadEcho
  <2>1. requests' = requests /\ nRetries' = nRetries /\ pc = "sent" /\ pc' = "receive"
    BY <1>4 DEF ReadEcho, callVars
  <2>2. nRetries <= SHA_RETRY_COUNT
    BY <2>1 DEF TypeOK
  <2>. QED  BY <2>1, <2>2, <1>a
<1>5. CASE ReceiveResponse
  <2>1. requests' = requests + 1 /\ nRetries' = nRetries /\ pc = "receive" /\ pc' = "verify"
    BY <1>5 DEF ReceiveResponse
  <2>. QED  BY <2>1, <1>a
<1>6. CASE Verify
  <2>1. requests' = requests /\ pc = "verify"
    BY <1>6 DEF Verify
  <2>2. pc' \in {"receive", "return"} /\ (pc' = "receive" => nRetries' = nRetries - 1)
    BY <1>6, VerifyType
  <2>. QED  BY <2>1, <2>2, <1>a
<1>7. CASE UNCHANGED vars
  BY <1>7 DEF vars, callVars
<1>. QED
  BY <1>1, <1>2, <1>3, <1>4, <1>5, <1>6, <1>7 DEF Next

\* The device is asked to transmit at most SHA_RETRY_COUNT times again.
THEOREM RequestsCorrect == Spec => []RequestsBounded
<1>1. Init => RequestsInv
  BY DEF Init, RequestsInv, RequestsBounded
<1>2. RequestsInv => RequestsBounded
  BY DEF RequestsInv
<1>. QED  BY <1>1, <1>2, RequestsStep, ShaTypeCorrect, PTL DEF Spec

\* Faults are never forgotten.
LEMMA FaultsGrow ==
    ASSUME TypeOK, NEW k \in FaultKinds, [Next]_vars
    PROVE  faults'[k] >= faults[k]
<1>a. \A j \in FaultKinds : faults[j] \in Nat
  BY DEF TypeOK
<1>b. ASSUME NEW j \in FaultKinds, Fault(j) PROVE faults'[k] >= faults[k]
  BY SMTT(30), <1>a, <1>b DEF Fault, TypeOK
<1>c. UNCHANGED faults => faults'[k] >= faults[k]
  BY <1>a
<1>1. (\E j \in FaultKinds : Fault(j)) \/ UNCHANGED faults
  <2>1. CASE OpenChannel \/ WakeDevice \/ ReadEcho \/ CloseChannel
    BY <2>1 DEF OpenChannel, WakeDevice, ReadEcho, CloseChannel, SleepDevice, FaultKinds
  <2>2. CASE SendCommand
    BY <2>2 DEF SendCommand, Execute, FaultKinds
  <2>3. CASE ReceiveResponse
    BY <2>3 DEF ReceiveResponse, FaultKinds
  <2>4. CASE Read \/ Verify \/ Return \/ Leave
    BY <2>4 DEF Read, Verify, Return, Leave
  <2>5. CASE UNCHANGED vars
    BY <2>5 DEF vars
  <2>. QED  BY <2>1, <2>2, <2>3, <2>4, <2>5 DEF Next
<1>. QED  BY <1>b, <1>c, <1>1

LEMMA SleepToldStep == TypeOK /\ SleepToldWhenClosed /\ [Next]_vars => SleepToldWhenClosed'
<1> SUFFICES ASSUME TypeOK, SleepToldWhenClosed, [Next]_vars, faults'["port"] = 0, pc' = "closed"
             PROVE  ~sleepOwed'
  BY DEF SleepToldWhenClosed
<1>1. faults["port"] = 0
  <2>1. "port" \in FaultKinds
    BY DEF FaultKinds
  <2>2. faults["port"] \in Nat
    BY <2>1 DEF TypeOK
  <2>3. faults'["port"] >= faults["port"]
    BY <2>1, FaultsGrow
  <2>. QED  BY <2>2, <2>3
<1>2. ~Fault("port")
  BY SMTT(30), <1>1 DEF Fault, TypeOK, FaultKinds
<1>3. CASE CloseChannel
  BY <1>2, <1>3 DEF CloseChannel, SleepDevice
<1>4. CASE OpenChannel
  BY <1>2, <1>4 DEF OpenChannel
<1>5. CASE UNCHANGED vars
  BY <1>1, <1>5 DEF vars, SleepToldWhenClosed
<1>6. CASE WakeDevice
  BY <1>6 DEF WakeDevice
<1>7. CASE Read \/ SendCommand \/ ReadEcho \/ ReceiveResponse \/ Return \/ Leave
  BY <1>7 DEF Read, SendCommand, ReadEcho, ReceiveResponse, Return, Leave
<1>8. CASE Verify
  BY <1>8, VerifyType
<1>. QED  BY <1>3, <1>4, <1>5, <1>6, <1>7, <1>8 DEF Next

\* Behind a closed channel there is no device that was woken and not told to sleep.
THEOREM SleepToldCorrect == Spec => []SleepToldWhenClosed
<1>1. Init => SleepToldWhenClosed
  BY DEF Init, SleepToldWhenClosed
<1>. QED  BY <1>1, SleepToldStep, ShaTypeCorrect, PTL DEF Spec

-----------------------------------------------------------------------------
(* The retries suffice.                                                    *)

\* Nothing has gone wrong but damaged responses.
Calm == \A k \in {"command", "delay", "echo", "device"} : faults[k] = 0

\* The device has an answer, and nothing else is on the line.
AnswerReady ==
    /\ dev.answer.kind = "data" /\ dev.answer.call \in 1..calls
    /\ line = <<>>

\* Until now every request, or every one but the last, met a damaged response.
RetryInv ==
    Calm =>
        /\ pc \in {"ready", "send", "sent", "receive", "verify", "return"} => dev.awake
        /\ pc = "send" => calls > 0 /\ txBuffer.call = calls
        /\ pc = "sent" => /\ dev.answer.kind = "data" /\ dev.answer.call \in 1..calls
                         /\ nRetries = SHA_RETRY_COUNT
        /\ pc = "receive" => AnswerReady /\ faults["response"] + nRetries >= SHA_RETRY_COUNT
        /\ pc = "verify" =>
             /\ AnswerReady /\ status = "SUCCESS"
             /\ \/ rxBuffer = Packet("data", dev.answer.call)
                   /\ faults["response"] + nRetries >= SHA_RETRY_COUNT
                \/ faults["response"] + nRetries >= SHA_RETRY_COUNT + 1
        /\ pc = "return" => \/ status = "SUCCESS" \/ statusByte # "none"
                            \/ faults["response"] > SHA_RETRY_COUNT

\* The whole answer is read from an empty line, byte for byte.
LEMMA PacketRead ==
    ASSUME NEW call \in Nat, line = <<>>
    PROVE  LET input == Transmitted(Packet("data", call))
           IN /\ input \in Seq(Tokens) /\ Len(input) = Needed
              /\ SubSeq(input, 2, Needed) = Packet("data", call)
              /\ Rest(input, Needed) = <<>>
<1> DEFINE packet == Packet("data", call)
           input == Transmitted(packet)
<1>1. packet = [i \in 1..RxSize |-> Token("data", call, i)]
  BY DEF Packet
<1>2. packet \in Seq(Tokens) /\ Len(packet) = RxSize
  BY <1>1, PacketType DEF Errors
<1>3. input = <<Echo>> \o packet
  BY DEF Transmitted
<1>. HIDE DEF packet, input
<1>4. /\ input \in Seq(Tokens) /\ Len(input) = Needed
      /\ \A i \in 1..RxSize : input[i + 1] = packet[i]
  <2>1. <<Echo>> \in Seq(Tokens) /\ Len(<<Echo>>) = 1
    BY TokenTypes
  <2>2. input \in Seq(Tokens)
    BY <2>1, <1>2, <1>3, ConcatProperties
  <2>3. Len(input) = Needed
    <3>1. Len(<<Echo>> \o packet) = Len(<<Echo>>) + Len(packet)
      BY <2>1, <1>2, ConcatProperties
    <3>. QED  BY <3>1, <2>1, <1>2, <1>3 DEF Needed
  <2>4. \A i \in 1..RxSize : i + 1 \in 1..(1 + RxSize) /\ i + 1 > 1 /\ (i + 1) - 1 = i
    OBVIOUS
  <2>5. \A i \in 1..(1 + RxSize) : i > 1 => input[i] = packet[i - 1]
    BY <2>1, <1>2, <1>3, ConcatProperties
  <2>. QED  BY <2>2, <2>3, <2>4, <2>5
<1>5. SubSeq(input, 2, Needed) \in Seq(Tokens) /\ Len(SubSeq(input, 2, Needed)) = RxSize
  BY <1>4 DEF Needed
<1>6. \A i \in 1..RxSize : SubSeq(input, 2, Needed)[i] = packet[i]
  <2>1. \A i \in 1..RxSize : SubSeq(input, 2, Needed)[i] = input[i + 1]
    BY SMTT(30), <1>4 DEF Needed
  <2>. QED  BY <2>1, <1>4
<1>7. SubSeq(input, 2, Needed) = packet
  BY <1>2, <1>5, <1>6, SeqEqual
<1>8. Rest(input, Needed) = <<>>
  BY <1>4 DEF Rest, Needed
<1>. QED  BY <1>4, <1>7, <1>8 DEF packet, input

\* A damaged answer is not longer than the whole one, and not empty.
LEMMA DamagedShort ==
    ASSUME TypeOK, AnswerReady, NEW input \in DamagedResponse
    PROVE  input \in Seq(Tokens) /\ Len(input) \in 1..Needed
<1> DEFINE packet == Packet(dev.answer.kind, dev.answer.call)
<1>1. packet \in Seq(Tokens) /\ Len(packet) = RxSize
  <2>1. packet = [i \in 1..RxSize |-> Token("data", dev.answer.call, i)]
    BY DEF AnswerReady, Packet
  <2>2. dev.answer.call \in Nat
    BY DEF TypeOK, Answers
  <2>. QED  BY <2>1, <2>2, TokenTypes DEF Errors
<1>. HIDE DEF packet
<1>2. ASSUME NEW p \in Seq(Tokens), Len(p) <= RxSize
      PROVE  Len(Transmitted(p)) \in 1..Needed
  <2>1. <<Echo>> \in Seq(Tokens) /\ Len(<<Echo>>) = 1
    BY TokenTypes
  <2>2. Transmitted(p) = <<Echo>> \o p
    BY DEF AnswerReady, Transmitted
  <2>3. Len(<<Echo>> \o p) = 1 + Len(p)
    BY <2>1, <1>2, ConcatProperties
  <2>. QED  BY <1>2, <2>2, <2>3 DEF Needed
<1>3. ASSUME NEW i \in DOMAIN packet
      PROVE  Drop(packet, i) \in Seq(Tokens) /\ Len(Drop(packet, i)) <= RxSize
  <2>1. i \in 1..RxSize
    BY <1>1
  <2>2. SubSeq(packet, 1, i - 1) \in Seq(Tokens) /\ Len(SubSeq(packet, 1, i - 1)) = i - 1
    BY <1>1, <2>1
  <2>3. SubSeq(packet, i + 1, RxSize) \in Seq(Tokens)
        /\ Len(SubSeq(packet, i + 1, RxSize)) = RxSize - i
    BY SMTT(30), <1>1, <2>1
  <2> DEFINE a == SubSeq(packet, 1, i - 1)
             b == SubSeq(packet, i + 1, RxSize)
  <2>4. Drop(packet, i) = a \o b
    BY <1>1 DEF Drop
  <2>5. a \in Seq(Tokens) /\ b \in Seq(Tokens) /\ Len(a) = i - 1 /\ Len(b) = RxSize - i
    BY <2>2, <2>3
  <2>. HIDE DEF a, b
  <2>6. a \o b \in Seq(Tokens) /\ Len(a \o b) = Len(a) + Len(b)
    BY <2>5, ConcatProperties
  <2>7. Len(a) + Len(b) <= RxSize
    BY SMTT(30), <2>1, <2>5
  <2>. HIDE DEF packet
  <2>8. Drop(packet, i) \in Seq(Tokens)
    BY <2>4, <2>6, Zenon
  <2>9. Len(Drop(packet, i)) = Len(a) + Len(b)
    BY <2>4, <2>6, Zenon
  <2>. QED  BY ONLY <2>7, <2>8, <2>9
<1>4. ASSUME NEW i \in DOMAIN packet
      PROVE  [packet EXCEPT ![i] = Junk] \in Seq(Tokens) /\ Len([packet EXCEPT ![i] = Junk]) <= RxSize
  BY <1>1, TokenTypes, ExceptSeq
<1>. QED  BY <1>2, <1>3, <1>4, ResponseType DEF DamagedResponse, packet

\* A whole answer is accepted whatever its call.
LEMMA PacketChecks ==
    ASSUME NEW call \in 1..calls, rxBuffer = Packet("data", call)
    PROVE  rxBuffer # <<>> /\ CountOf(Head(rxBuffer)) = {"rxSize"} /\ CrcMatches
<1>1. rxBuffer = [i \in 1..RxSize |-> Token("data", call, i)]
  BY DEF Packet
<1>2. Head(rxBuffer) = Token("data", call, 1) /\ rxBuffer # <<>>
  <2>1. Len(rxBuffer) = RxSize /\ rxBuffer[1] = Token("data", call, 1) /\ RxSize > 0
    BY <1>1
  <2>. QED  BY <2>1
<1>. QED  BY <1>2 DEF CountOf, Token, Errors, CrcMatches

LEMMA ReceiveCalm ==
    ASSUME TypeOK, AnswerReady, ReceiveResponse, faults'["delay"] = 0, faults["delay"] = 0
    PROVE  /\ line' = <<>> /\ status' = "SUCCESS"
           /\ \/ rxBuffer' = Packet("data", dev.answer.call) /\ UNCHANGED faults
              \/ Fault("response")
<1> DEFINE whole == Transmitted(Packet("data", dev.answer.call))
<1>1. /\ whole \in Seq(Tokens) /\ Len(whole) = Needed
      /\ SubSeq(whole, 2, Needed) = Packet("data", dev.answer.call)
      /\ Rest(whole, Needed) = <<>>
  <2>1. dev.answer.call \in Nat /\ line = <<>>
    BY SMTT(30) DEF AnswerReady, TypeOK
  <2>. QED  BY <2>1, PacketRead
<1>2. Response = {whole}
  BY DEF Response, AnswerReady
<1>. HIDE DEF whole
<1>3. ~Fault("delay")
  BY SMTT(30) DEF Fault, TypeOK, FaultKinds
<1>4. CASE \E n \in 1..Len(whole) :
             /\ n < Needed => n = Len(whole)
             /\ ReadFromDevice(whole, n) /\ UNCHANGED faults
  <2>1. ReadFromDevice(whole, Needed) /\ UNCHANGED faults /\ Needed > 0
    <3>1. PICK n \in 1..Needed : /\ n < Needed => n = Needed
                                /\ ReadFromDevice(whole, n) /\ UNCHANGED faults
      BY <1>1, <1>4
    <3>2. n = Needed /\ Needed > 0
      BY <3>1 DEF Needed
    <3>. QED  BY <3>1, <3>2
  <2>2. ~(Needed < Needed) /\ Needed # 0
    BY DEF Needed
  <2>. QED  BY <2>1, <2>2, <1>1 DEF ReadFromDevice
<1>5. CASE \E input \in DamagedResponse : \E n \in 1..Len(input) :
             /\ n < Needed => n = Len(input)
             /\ ReadFromDevice(input, n) /\ Fault("response")
  <2>1. PICK input \in DamagedResponse : \E n \in 1..Len(input) :
             /\ n < Needed => n = Len(input)
             /\ ReadFromDevice(input, n) /\ Fault("response")
    BY <1>5
  <2>2. input \in Seq(Tokens) /\ Len(input) \in 1..Needed
    BY DamagedShort
  <2>3. ReadFromDevice(input, Len(input)) /\ Fault("response") /\ Len(input) > 0
    BY <2>1, <2>2 DEF Needed
  <2>4. Rest(input, Len(input)) = <<>>
    BY <2>2 DEF Rest
  <2>. QED  BY <2>2, <2>3, <2>4 DEF ReadFromDevice
<1>. QED  BY <1>2, <1>3, <1>4, <1>5 DEF ReceiveResponse

LEMMA VerifyCalm ==
    ASSUME TypeOK, status = "SUCCESS", Verify
    PROVE  /\ \/ pc' = "return" /\ (status' = "SUCCESS" \/ statusByte' # "none" \/ nRetries = 0)
              \/ pc' = "receive" /\ nRetries' = nRetries - 1
           /\ rxBuffer # <<>> /\ CountOf(Head(rxBuffer)) = {"rxSize"} /\ CrcMatches
              => pc' = "return" /\ status' = "SUCCESS"
<1> DEFINE Ok == \/ pc' = "return" /\ (status' = "SUCCESS" \/ statusByte' # "none" \/ nRetries = 0)
                 \/ pc' = "receive" /\ nRetries' = nRetries - 1
<1>a. pc = "verify"
  BY DEF Verify
<1>1. ASSUME NEW result \in Statuses, Again(result) PROVE Ok
  BY <1>1, <1>a, AgainType
<1>2. ASSUME NEW s, StatusPacket(s) PROVE Ok
  <2>1. CASE Again(status)
    BY <1>1, <2>1 DEF Statuses
  <2>2. CASE pc' = "return"
    BY <1>2, <2>2 DEF StatusPacket
  <2>. QED  BY <1>2, <2>1, <2>2 DEF StatusPacket, Finish
<1>3. {"BAD_SIZE", "BAD_CRC", "SUCCESS"} \subseteq Statuses
  BY DEF Statuses
<1>. HIDE DEF Ok
<1>4. Ok
  BY <1>1, <1>2, <1>3 DEF Verify
<1>5. ASSUME rxBuffer # <<>>, CountOf(Head(rxBuffer)) = {"rxSize"}, CrcMatches
      PROVE  pc' = "return" /\ status' = "SUCCESS"
  <2>1. Again("SUCCESS")
    BY <1>5 DEF Verify
  <2>. QED  BY <2>1 DEF Again
<1>. QED  BY <1>4, <1>5 DEF Ok

LEMMA RetryStep == TypeOK /\ RetryInv /\ [Next]_vars => RetryInv'
<1> SUFFICES ASSUME TypeOK, RetryInv, [Next]_vars, Calm' PROVE RetryInv'
  BY DEF RetryInv
<1>a. Calm /\ faults["response"] \in Nat /\ faults'["response"] \in Nat
  <2>1. TypeOK'
    BY TypeStep
  <2>2. \A k \in FaultKinds : faults[k] \in Nat /\ faults'[k] \in Nat
    BY <2>1 DEF TypeOK
  <2>3. \A k \in {"command", "delay", "echo", "device"} : faults'[k] >= faults[k] /\ faults'[k] = 0
    BY FaultsGrow DEF Calm, FaultKinds
  <2>. QED  BY <2>2, <2>3 DEF Calm, FaultKinds
<1>b. ASSUME NEW k \in {"command", "delay", "echo", "device"} PROVE ~Fault(k)
  <2>1. faults[k] = 0 /\ faults'[k] = 0 /\ k \in FaultKinds
    BY <1>a DEF Calm, FaultKinds
  <2>. QED  BY <2>1 DEF Fault, TypeOK
<1>c. calls \in Nat /\ nRetries \in Nat
  BY SMTT(30) DEF TypeOK
<1>1. CASE OpenChannel \/ Leave \/ CloseChannel
  <2>1. pc' \in {"closed", "wakeup", "closing"}
    BY <1>1 DEF OpenChannel, Leave, CloseChannel
  <2>. QED  BY <2>1 DEF RetryInv
<1>2. CASE WakeDevice
  <2>1. pc' \in {"wakeup", "closing"} \/ (pc' = "ready" /\ dev'.awake)
    BY <1>2, WokenAwake DEF WakeDevice
  <2>. QED  BY <2>1 DEF RetryInv
<1>3. CASE Read
  <2>1. dev.awake
    BY <1>3, <1>a DEF Read, RetryInv
  <2>2. pc' = "send" /\ calls' > 0 /\ txBuffer'.call = calls' /\ dev' = dev
    BY <1>3, <1>c DEF Read
  <2>. QED  BY <2>1, <2>2 DEF RetryInv
<1>4. CASE SendCommand
  <2>1. dev.awake /\ txBuffer.shifts = 0 /\ calls > 0 /\ txBuffer.call = calls
    BY <1>4, <1>a DEF SendCommand, RetryInv, TypeOK
  <2>2. Answer("data")
    BY <1>4, <1>b, <2>1 DEF SendCommand, Execute
  <2>3. pc' = "sent" /\ calls' = calls /\ nRetries' = SHA_RETRY_COUNT
    BY <1>4 DEF SendCommand
  <2>. QED  BY <2>1, <2>2, <2>3, <1>c DEF RetryInv, Answer
<1>5. CASE ReadEcho
  <2>1. line' = <<>> /\ UNCHANGED <<dev, calls, nRetries, faults>> /\ pc = "sent" /\ pc' = "receive"
    BY <1>5, <1>b DEF ReadEcho, callVars
  <2>2. nRetries = SHA_RETRY_COUNT
    BY <2>1, <1>a DEF RetryInv
  <2>. QED  BY <1>a, <2>1, <2>2 DEF RetryInv, AnswerReady
<1>6. CASE ReceiveResponse
  <2>1. /\ AnswerReady /\ dev.awake /\ faults["response"] + nRetries >= SHA_RETRY_COUNT
        /\ pc' = "verify" /\ UNCHANGED <<calls, nRetries, dev>>
    BY <1>6, <1>a DEF ReceiveResponse, RetryInv
  <2>2. /\ line' = <<>> /\ status' = "SUCCESS"
        /\ \/ rxBuffer' = Packet("data", dev.answer.call) /\ UNCHANGED faults
           \/ Fault("response")
    BY <1>6, <1>a, <2>1, ReceiveCalm DEF Calm
  <2>3. Fault("response") => faults'["response"] = faults["response"] + 1
    BY DEF Fault, TypeOK, FaultKinds
  <2>4. AnswerReady'
    BY <2>1, <2>2 DEF AnswerReady
  <2> DEFINE whole == Packet("data", dev.answer.call)
  <2>5. \/ rxBuffer' = whole /\ faults'["response"] + nRetries' >= SHA_RETRY_COUNT
        \/ faults'["response"] + nRetries' >= SHA_RETRY_COUNT + 1
    <3>1. CASE rxBuffer' = whole /\ UNCHANGED faults
      BY <2>1, <3>1
    <3>2. CASE Fault("response")
      BY <1>a, <1>c, <2>1, <2>3, <3>2
    <3>. QED  BY <2>2, <3>1, <3>2
  <2>6. whole = Packet("data", dev'.answer.call)
    BY <2>1
  <2>. HIDE DEF whole
  <2>. QED  BY <2>1, <2>2, <2>4, <2>5, <2>6 DEF RetryInv
<1>7. CASE Verify
  <2>1. UNCHANGED <<calls, dev, line, faults>> /\ pc = "verify"
    BY <1>7 DEF Verify
  <2>2. dev.awake /\ AnswerReady /\ status = "SUCCESS"
    BY <1>a, <2>1 DEF RetryInv
  <2>3. AnswerReady'
    BY <2>1, <2>2 DEF AnswerReady
  <2>4. CASE rxBuffer = Packet("data", dev.answer.call)
    <3>1. pc' = "return" /\ status' = "SUCCESS"
      BY <1>7, <2>2, <2>4, PacketChecks, VerifyCalm DEF AnswerReady
    <3>. QED  BY <2>1, <2>2, <3>1 DEF RetryInv
  <2>5. CASE faults["response"] + nRetries >= SHA_RETRY_COUNT + 1
    <3>1. CASE pc' = "receive" /\ nRetries' = nRetries - 1
      <4>1. faults'["response"] + nRetries' >= SHA_RETRY_COUNT
        BY <1>a, <1>c, <2>1, <2>5, <3>1
      <4>. QED  BY <2>1, <2>2, <2>3, <3>1, <4>1 DEF RetryInv
    <3>2. CASE pc' = "return" /\ (status' = "SUCCESS" \/ statusByte' # "none" \/ nRetries = 0)
      <4>1. nRetries = 0 => faults'["response"] > SHA_RETRY_COUNT
        BY <1>a, <2>1, <2>5
      <4>. QED  BY <2>1, <2>2, <3>2, <4>1 DEF RetryInv
    <3>. QED  BY <1>7, <2>2, <3>1, <3>2, VerifyCalm
  <2>. QED  BY <1>a, <2>1, <2>4, <2>5 DEF RetryInv
<1>8. CASE Return
  <2>1. dev.awake /\ pc' = "ready" /\ dev' = dev
    BY <1>8, <1>a DEF Return, RetryInv
  <2>. QED  BY <2>1 DEF RetryInv
<1>9. CASE UNCHANGED vars
  BY <1>9, <1>a DEF RetryInv, vars, callVars, AnswerReady
<1>. QED
  BY <1>1, <1>2, <1>3, <1>4, <1>5, <1>6, <1>7, <1>8, <1>9 DEF Next

\* Damaged responses, as many as there are retries, do not make a read fail,
\* unless one of them looks like a status packet.
THEOREM RetriesCorrect == Spec => []RetriesSuffice
<1>1. Init => RetryInv
  BY DEF Init, RetryInv
<1>2. TypeOK /\ RetryInv => RetriesSuffice
  <2> SUFFICES ASSUME TypeOK, RetryInv, Calm, pc = "return", faults["response"] <= SHA_RETRY_COUNT
               PROVE  status = "SUCCESS" \/ statusByte # "none"
    BY DEF RetriesSuffice, Calm
  <2>1. faults["response"] \in Nat
    BY DEF TypeOK, FaultKinds
  <2>. QED  BY <2>1 DEF RetryInv
<1>. QED  BY <1>1, <1>2, RetryStep, ShaTypeCorrect, PTL DEF Spec
-----------------------------------------------------------------------------
(* A success is the answer to this very call.                              *)

HIDE SizeAssumption

\* The tokens of s belong to a call, or to none.
Fresh(s, call) == \A i \in DOMAIN s : s[i].call \in {0, call}

LEMMA PacketFresh ==
    ASSUME NEW kind \in Errors \cup {"data", "none"}, NEW call \in Nat
    PROVE  Fresh(Packet(kind, call), call)
<1>1. CASE kind = "none"
  BY <1>1 DEF Packet, Fresh
<1>2. CASE kind # "none"
  <2>1. PICK n \in {RxSize, SHA_RESPONSE_SIZE_MIN} :
            Packet(kind, call) = [i \in 1..n |-> Token(kind, call, i)]
    BY <1>2 DEF Packet
  <2>. QED  BY <2>1 DEF Fresh, Token
<1>. QED  BY <1>1, <1>2

LEMMA RestProperties ==
    ASSUME NEW s \in Seq(Tokens), NEW n \in 0..Len(s)
    PROVE  /\ Rest(s, n) \in Seq(Tokens) /\ Len(Rest(s, n)) = Len(s) - n
           /\ \A call : Fresh(s, call) => Fresh(Rest(s, n), call)
<1>1. Len(s) \in Nat
  OBVIOUS
<1>2. Rest(s, n) \in Seq(Tokens) /\ Len(Rest(s, n)) = Len(s) - n
  BY <1>1 DEF Rest
<1>3. \A i \in 1..(Len(s) - n) : Rest(s, n)[i] = s[i + n]
  BY <1>1 DEF Rest
<1>4. DOMAIN Rest(s, n) = 1..(Len(s) - n) /\ \A i \in 1..(Len(s) - n) : i + n \in DOMAIN s
  BY <1>1, <1>2
<1>. QED  BY <1>2, <1>3, <1>4 DEF Fresh

\* A byte more or less makes no token of another call.
LEMMA DropProperties ==
    ASSUME NEW s \in Seq(Tokens), NEW i \in DOMAIN s
    PROVE  /\ Drop(s, i) \in Seq(Tokens) /\ Len(Drop(s, i)) <= Len(s)
           /\ \A call : Fresh(s, call) => Fresh(Drop(s, i), call)
<1> DEFINE a == SubSeq(s, 1, i - 1)
           b == Rest(s, i)
<1>1. Len(s) \in Nat /\ i \in 1..Len(s)
  OBVIOUS
<1>2. a \in Seq(Tokens) /\ Len(a) = i - 1 /\ \A j \in 1..(i - 1) : a[j] = s[j]
  BY <1>1
<1>3. /\ b \in Seq(Tokens) /\ Len(b) = Len(s) - i
      /\ \A call : Fresh(s, call) => Fresh(b, call)
  <2>1. i \in 0..Len(s)
    BY <1>1
  <2>. QED  BY <2>1, RestProperties, Zenon
<1>4. \A call : Fresh(s, call) => Fresh(a, call)
  BY <1>1, <1>2 DEF Fresh
<1>5. Drop(s, i) = a \o b
  BY <1>1 DEF Drop, Rest
<1>. HIDE DEF a, b
<1>6. /\ a \o b \in Seq(Tokens) /\ Len(a \o b) = Len(a) + Len(b)
      /\ \A j \in 1..(Len(a) + Len(b)) : (a \o b)[j] = IF j <= Len(a) THEN a[j] ELSE b[j - Len(a)]
  BY <1>2, <1>3, ConcatProperties
<1>7. \A call : Fresh(a, call) /\ Fresh(b, call) => Fresh(a \o b, call)
  <2>1. DOMAIN (a \o b) = 1..(Len(a) + Len(b)) /\ DOMAIN a = 1..Len(a) /\ DOMAIN b = 1..Len(b)
    BY <1>2, <1>3, <1>6
  <2>2. \A j \in 1..(Len(a) + Len(b)) : j <= Len(a) \/ j - Len(a) \in 1..Len(b)
    BY <1>2, <1>3
  <2>. QED  BY <1>6, <2>1, <2>2 DEF Fresh
<1>8. Len(a) + Len(b) <= Len(s)
  BY <1>1, <1>2, <1>3
<1>. QED  BY <1>3, <1>4, <1>5, <1>6, <1>7, <1>8

\* What Transmitted adds to the line.
LEMMA ResponseShape ==
    ASSUME TypeOK, NEW input \in Response \cup DamagedResponse
    PROVE  \E p \in Seq(Tokens) : /\ input = (line \o <<Echo>>) \o p
                                  /\ Len(p) <= RxSize /\ Fresh(p, dev.answer.call)
<1> DEFINE packet == Packet(dev.answer.kind, dev.answer.call)
           call == dev.answer.call
           Fits(p) == p \in Seq(Tokens) /\ Len(p) <= RxSize /\ Fresh(p, call)
<1>1. Fits(packet) /\ RxSize \in Nat
  <2>1. dev.answer.kind \in Errors \cup {"data", "none"} /\ dev.answer.call \in Nat
    BY DEF TypeOK, Answers
  <2>. QED  BY <2>1, PacketType, PacketFresh, SizeAssumption
<1>2. \A p : Transmitted(p) = (line \o <<Echo>>) \o p
  <2>1. line \in Seq(Tokens)
    BY DEF TypeOK
  <2>2. Append(line, Echo) = line \o <<Echo>>
    BY SMTT(30), <2>1, TokenTypes
  <2>. QED  BY <2>2 DEF Transmitted
<1>3. input = Transmitted(packet) \/ \E i \in DOMAIN packet :
          input \in {Transmitted(Drop(packet, i)), Transmitted([packet EXCEPT ![i] = Junk])}
  BY DEF Response, DamagedResponse
<1>. HIDE DEF packet, call
<1>4. ASSUME NEW i \in DOMAIN packet PROVE Fits(Drop(packet, i))
  <2>1. Len(packet) \in Nat /\ Len(Drop(packet, i)) \in Nat
    BY <1>1, <1>4, DropProperties
  <2>. QED  BY <1>1, <2>1, DropProperties
<1>5. ASSUME NEW i \in DOMAIN packet PROVE Fits([packet EXCEPT ![i] = Junk])
  <2>1. [packet EXCEPT ![i] = Junk] \in Seq(Tokens) /\ Len([packet EXCEPT ![i] = Junk]) <= RxSize
    BY <1>1, TokenTypes, ExceptSeq
  <2>2. Junk.call = 0
    BY DEF Junk, Token
  <2>. QED  BY <1>1, <2>1, <2>2 DEF Fresh
<1>. QED  BY <1>1, <1>2, <1>3, <1>4, <1>5 DEF call
\* A request to transmit adds an echo to the line, and at most RxSize bytes of
\* the device's answer.
LEMMA InputShape ==
    ASSUME TypeOK, NEW input \in Response \cup DamagedResponse
    PROVE  /\ input \in Seq(Tokens)
           /\ \E p \in Seq(Tokens) :
                /\ Len(p) <= RxSize /\ Fresh(p, dev.answer.call)
                /\ Len(input) = Len(line) + 1 + Len(p)
                /\ \A i \in 1..Len(line) : input[i] = line[i]
                /\ input[Len(line) + 1] = Echo
                /\ \A i \in 1..Len(p) : input[Len(line) + 1 + i] = p[i]
<1>1. PICK p \in Seq(Tokens) : /\ input = (line \o <<Echo>>) \o p
                               /\ Len(p) <= RxSize /\ Fresh(p, dev.answer.call)
  BY ResponseShape
<1> DEFINE e == <<Echo>>
           t == line \o e
<1>2. line \in Seq(Tokens) /\ Len(line) \in Nat /\ Len(p) \in Nat
  BY DEF TypeOK
<1>3. e \in Seq(Tokens) /\ Len(e) = 1 /\ e[1] = Echo
  BY TokenTypes
<1>4. input = t \o p /\ t = line \o e
  BY <1>1
<1>. HIDE DEF e, t
<1>5. /\ t \in Seq(Tokens) /\ Len(t) = Len(line) + 1
      /\ \A i \in 1..(Len(line) + 1) : t[i] = IF i <= Len(line) THEN line[i] ELSE e[i - Len(line)]
  <2>1. line \in Seq(Tokens) /\ e \in Seq(Tokens)
    BY <1>2, <1>3
  <2>2. /\ line \o e \in Seq(Tokens) /\ Len(line \o e) = Len(line) + Len(e)
        /\ \A i \in 1..(Len(line) + Len(e)) :
              (line \o e)[i] = IF i <= Len(line) THEN line[i] ELSE e[i - Len(line)]
    BY <2>1, ConcatProperties, Zenon
  <2>. QED  BY <2>2, <1>3, <1>4, Zenon
<1>6. t[Len(line) + 1] = Echo /\ \A i \in 1..Len(line) : t[i] = line[i]
  BY <1>2, <1>3, <1>5
<1>7. /\ input \in Seq(Tokens) /\ Len(input) = Len(t) + Len(p)
      /\ \A i \in 1..(Len(t) + Len(p)) : input[i] = IF i <= Len(t) THEN t[i] ELSE p[i - Len(t)]
  BY <1>4, <1>5, ConcatProperties
<1>8. /\ Len(input) = Len(line) + 1 + Len(p)
      /\ \A i \in 1..Len(line) : input[i] = line[i]
      /\ input[Len(line) + 1] = Echo
      /\ \A i \in 1..Len(p) : input[Len(line) + 1 + i] = p[i]
  BY <1>2, <1>5, <1>6, <1>7
<1>. QED  BY <1>1, <1>7, <1>8

\* A response that is whole is the device's answer, unless bytes of an earlier
\* one on the line take the place of all of this one.
LEMMA ReadAnswer ==
    ASSUME TypeOK, NEW input \in Response \cup DamagedResponse, NEW n \in 0..Len(input),
           ReadFromDevice(input, n),
           Fresh(line, dev.answer.call) \/ Len(line) <= RxSize,
           NEW c \in Nat \ {0}, rxBuffer' = Packet("data", c)
    PROVE  c = dev.answer.call
<1>1. PICK p \in Seq(Tokens) :
                /\ Len(p) <= RxSize /\ Fresh(p, dev.answer.call)
                /\ Len(input) = Len(line) + 1 + Len(p)
                /\ \A i \in 1..Len(line) : input[i] = line[i]
                /\ input[Len(line) + 1] = Echo
                /\ \A i \in 1..Len(p) : input[Len(line) + 1 + i] = p[i]
  BY InputShape, Zenon
<1>2. line \in Seq(Tokens) /\ Len(line) \in Nat /\ Len(p) \in Nat
  BY DEF TypeOK
<1>3. input \in Seq(Tokens)
  BY InputShape, Zenon
<1>4. RxSize \in Nat /\ RxSize > 0 /\ Needed = RxSize + 1
  BY SizeAssumption DEF Needed
<1>5. \A i \in 1..RxSize : rxBuffer'[i] = Token("data", c, i)
  BY DEF Packet
<1>6. n >= Needed /\ rxBuffer' = SubSeq(input, 2, Needed)
  <2>1. rxBuffer' # <<>>
    <3>1. Packet("data", c) = [i \in 1..RxSize |-> Token("data", c, i)]
      BY DEF Packet
    <3>2. Packet("data", c) \in Seq(Tokens) /\ Len(Packet("data", c)) = RxSize
      BY <1>4, <3>1, PacketType DEF Errors
    <3>. QED  BY <1>4, <3>2
  <2>. QED  BY <1>4, <2>1 DEF ReadFromDevice
<1>7. Needed <= Len(input) /\ \A i \in 1..RxSize : rxBuffer'[i] = input[i + 1]
  <2>1. Needed <= Len(input)
    BY <1>1, <1>3, <1>4, <1>6
  <2>. QED  BY <1>1, <1>3, <1>4, <1>6, <2>1
<1>8. \A i \in 1..RxSize : input[i + 1].kind = "data" /\ input[i + 1].call = c
  <2>1. \A i : Token("data", c, i).kind = "data" /\ Token("data", c, i).call = c
    BY DEF Token
  <2>2. \A i \in 1..RxSize : input[i + 1] = Token("data", c, i)
    BY <1>5, <1>7, Zenon
  <2>. QED  BY <2>1, <2>2, Zenon
<1>9. CASE Fresh(line, dev.answer.call)
  <2>1. input[2].call = c
    <3>1. 1 \in 1..RxSize /\ 1 + 1 = 2
      BY <1>4
    <3>. QED  BY <1>8, <3>1
  <2>2. input[2].call \in {0, dev.answer.call}
    <3>1. CASE Len(line) >= 2
      BY SMTT(30), <1>2, <1>1, <1>3, <1>9, <3>1 DEF Fresh
    <3>2. CASE Len(line) = 1
      BY <1>1, <1>3, <3>2 DEF Echo, Token
    <3>3. CASE Len(line) < 1
      <4>1. 1 \in 1..Len(p) /\ input[2] = p[1]
        BY <1>2, <1>1, <1>3, <1>4, <1>7, <3>3
      <4>. QED  BY <1>1, <4>1 DEF Fresh
    <3>4. Len(line) >= 2 \/ Len(line) = 1 \/ Len(line) < 1
      <4>1. \A k \in Nat : k >= 2 \/ k = 1 \/ k < 1
        OBVIOUS
      <4>. QED  BY <1>2, <4>1, Zenon
    <3>. QED  BY <3>1, <3>2, <3>3, <3>4, Zenon
  <2>. QED  BY <2>1, <2>2
<1>10. CASE Len(line) <= RxSize /\ Len(line) > 0
  <2>1. Len(line) \in 1..RxSize
    BY <1>2, <1>4, <1>10
  <2>2. Echo.kind = "data"
    BY <1>1, <1>8, <2>1
  <2>. QED  BY <2>2 DEF Echo, Token
<1>11. CASE Len(line) = 0
  BY <1>2, <1>9, <1>11 DEF Fresh
<1>. QED  BY <1>2, <1>9, <1>10, <1>11

\* What a read leaves on the line.
LEMMA ReadLeaves ==
    ASSUME TypeOK, NEW input \in Response \cup DamagedResponse, NEW n \in 0..Len(input),
           ReadFromDevice(input, n)
    PROVE  /\ Len(line') <= Len(line) + 1 + RxSize - n
           /\ n = Len(input) => line' = <<>>
           /\ Fresh(line, dev.answer.call) => Fresh(line', dev.answer.call)
<1>1. PICK p \in Seq(Tokens) :
                /\ Len(p) <= RxSize /\ Fresh(p, dev.answer.call)
                /\ Len(input) = Len(line) + 1 + Len(p)
                /\ \A i \in 1..Len(line) : input[i] = line[i]
                /\ input[Len(line) + 1] = Echo
                /\ \A i \in 1..Len(p) : input[Len(line) + 1 + i] = p[i]
  BY InputShape, Zenon
<1>2. line \in Seq(Tokens) /\ Len(line) \in Nat /\ Len(p) \in Nat /\ RxSize \in Nat
  <2>1. line \in Seq(Tokens)
    BY DEF TypeOK
  <2>. QED  BY <2>1, SizeAssumption
<1>3. input \in Seq(Tokens)
  BY InputShape, Zenon
<1>4. /\ line' \in Seq(Tokens) /\ Len(line') = Len(input) - n
      /\ Fresh(input, dev.answer.call) => Fresh(line', dev.answer.call)
  BY <1>1, <1>3, RestProperties DEF ReadFromDevice
<1>5. ASSUME Fresh(line, dev.answer.call), NEW i \in DOMAIN input
      PROVE  input[i].call \in {0, dev.answer.call}
  <2>1. i \in 1..(Len(line) + 1 + Len(p))
    BY <1>1, <1>3
  <2>2. CASE i <= Len(line)
    BY <1>2, <1>1, <1>3, <1>5, <2>1, <2>2 DEF Fresh
  <2>3. CASE i = Len(line) + 1
    BY <1>1, <1>3, <2>3 DEF Echo, Token
  <2>4. CASE i > Len(line) + 1
    <3>1. i - (Len(line) + 1) \in 1..Len(p) /\ i = Len(line) + 1 + (i - (Len(line) + 1))
      BY <1>2, <2>1, <2>4
    <3>2. input[i] = p[i - (Len(line) + 1)]
      BY <1>1, <1>3, <3>1
    <3>. QED  BY <1>1, <3>1, <3>2 DEF Fresh
  <2>. QED  BY <1>2, <2>1, <2>2, <2>3, <2>4
<1>6. Fresh(line, dev.answer.call) => Fresh(line', dev.answer.call)
  BY <1>4, <1>5 DEF Fresh
<1>7. Len(line') <= Len(line) + 1 + RxSize - n
  BY <1>1, <1>2, <1>4
<1>8. n = Len(input) => line' = <<>>
  BY <1>1, <1>3, <1>4
<1>. QED  BY <1>6, <1>7, <1>8
\* How many responses were late tells how much may be left on the line.
LineShort ==
    /\ faults["delay"] = 0 => line = <<>>
    /\ faults["delay"] = 1 => Len(line) <= RxSize

\* In a call the device is awake.
AwakeInv ==
    /\ pc \in {"ready", "send", "sent", "receive", "verify", "return"} => dev.awake
    /\ pc = "send" => txBuffer.call = calls
    /\ pc = "verify" /\ status # "SUCCESS" => rxBuffer = <<>>

Prompt == faults["command"] = 0 /\ faults["echo"] = 0 /\ faults["delay"] < 3

\* Without a late echo no byte of a command is ever read back.
OtherTokens == {t \in Tokens : t.kind # "command"}

NoCommandInv ==
    faults["echo"] = 0 => line \in Seq(OtherTokens) /\ rxBuffer \in Seq(OtherTokens)

\* What the device holds is the answer to the call; what is on the line is of
\* this call, or too short to take the place of a whole response.
AnswerInv ==
    Prompt =>
        /\ pc \in {"sent", "receive", "verify", "return"} => dev.answer.call = calls
        /\ \/ pc \in {"ready", "send", "sent", "receive"}
           \/ pc \in {"verify", "return"} /\ status = "SUCCESS"
           => LineShort
        /\ pc \in {"receive", "verify"} =>
             Fresh(line, calls) \/ (faults["delay"] = 2 /\ Len(line) <= RxSize)
        /\ pc \in {"verify", "return"} /\ status = "SUCCESS" =>
             \A c \in 1..calls : rxBuffer = Packet("data", c) => c = calls

LEMMA AwakeStep == TypeOK /\ AwakeInv /\ [Next]_vars => AwakeInv'
<1> SUFFICES ASSUME TypeOK, AwakeInv, [Next]_vars PROVE AwakeInv'
  OBVIOUS
<1>. USE DEF AwakeInv, callVars
<1>1. CASE OpenChannel \/ Leave \/ CloseChannel
  <2>1. pc' \in {"closed", "wakeup", "closing"}
    BY <1>1 DEF OpenChannel, Leave, CloseChannel
  <2>. QED  BY <2>1
<1>2. CASE WakeDevice
  BY <1>2, WokenAwake DEF WakeDevice
<1>3. CASE Read
  BY <1>3 DEF Read
<1>4. CASE SendCommand
  <2>1. pc = "send" /\ pc' = "sent" /\ dev.awake
    BY <1>4 DEF SendCommand
  <2>2. dev'.awake = dev.awake
    BY <1>4 DEF SendCommand, Execute, Answer
  <2>. QED  BY <2>1, <2>2
<1>5. CASE ReadEcho
  BY <1>5 DEF ReadEcho
<1>6. CASE ReceiveResponse
  <2>1. pc = "receive" /\ pc' = "verify" /\ dev' = dev
    BY <1>6 DEF ReceiveResponse
  <2>2. status' # "SUCCESS" => rxBuffer' = <<>>
    <3>1. PICK input, n : ReadFromDevice(input, n)
      BY <1>6 DEF ReceiveResponse
    <3>2. 0 < Needed
      BY SizeAssumption DEF Needed
    <3>. QED  BY <3>1, <3>2 DEF ReadFromDevice
  <2>. QED  BY <2>1, <2>2
<1>7. CASE Verify
  <2>1. pc = "verify" /\ dev' = dev /\ pc' \in {"receive", "return"}
    BY <1>7, VerifyType DEF Verify
  <2>. QED  BY <2>1
<1>8. CASE Return
  BY <1>8 DEF Return
<1>9. CASE UNCHANGED vars
  BY <1>9 DEF vars
<1>. QED
  BY <1>1, <1>2, <1>3, <1>4, <1>5, <1>6, <1>7, <1>8, <1>9 DEF Next

\* A prompt history was prompt before, and a delay is one of at most two.
LEMMA PromptBefore ==
    ASSUME TypeOK, [Next]_vars, Prompt'
    PROVE  /\ Prompt /\ ~Fault("command") /\ ~Fault("echo")
           /\ faults["delay"] \in 0..2 /\ faults'["delay"] \in 0..2
           /\ Fault("delay") => faults'["delay"] = faults["delay"] + 1
           /\ (UNCHANGED faults \/ Fault("response") \/ Fault("port") \/ Fault("device"))
                => faults'["delay"] = faults["delay"]
<1>1. TypeOK' /\ {"command", "echo", "delay", "response", "port", "device"} \subseteq FaultKinds
  BY TypeStep DEF FaultKinds
<1>2. \A k \in FaultKinds : faults[k] \in Nat /\ faults'[k] \in Nat /\ faults'[k] >= faults[k]
  <2>1. \A k \in FaultKinds : faults[k] \in Nat /\ faults'[k] \in Nat
    BY <1>1 DEF TypeOK
  <2>2. \A k \in FaultKinds : faults'[k] >= faults[k]
    BY FaultsGrow
  <2>. QED  BY <2>1, <2>2
<1>3. Prompt
  BY <1>1, <1>2 DEF Prompt
<1>4. \A j, k \in FaultKinds : Fault(j) => faults'[k] = IF j = k THEN faults[k] + 1 ELSE faults[k]
  BY DEF Fault, TypeOK
<1>5. ~Fault("command") /\ ~Fault("echo")
  BY <1>1, <1>2, <1>3, <1>4 DEF Prompt
<1>6. faults["delay"] \in 0..2 /\ faults'["delay"] \in 0..2
  BY <1>1, <1>2, <1>3 DEF Prompt
<1>7. Fault("delay") => faults'["delay"] = faults["delay"] + 1
  BY <1>1, <1>4
<1>8. (UNCHANGED faults \/ Fault("response") \/ Fault("port") \/ Fault("device"))
        => faults'["delay"] = faults["delay"]
  BY <1>1, <1>4
<1>. QED  BY <1>3, <1>5, <1>6, <1>7, <1>8
\* The read of a response.
LEMMA ReceiveStep ==
    ASSUME TypeOK, AnswerInv, [Next]_vars, Prompt', ReceiveResponse
    PROVE  AnswerInv'
<1>a. /\ Prompt /\ ~Fault("command")
      /\ faults["delay"] \in 0..2 /\ faults'["delay"] \in 0..2
      /\ Fault("delay") => faults'["delay"] = faults["delay"] + 1
      /\ UNCHANGED faults \/ Fault("response") => faults'["delay"] = faults["delay"]
  BY PromptBefore
<1>b. /\ pc = "receive" /\ pc' = "verify" /\ calls' = calls /\ dev' = dev
      /\ dev.answer.call = calls
  BY <1>a DEF ReceiveResponse, AnswerInv
<1>c. /\ LineShort
      /\ Fresh(line, calls) \/ (faults["delay"] = 2 /\ Len(line) <= RxSize)
  BY <1>a, <1>b DEF AnswerInv
<1>d. RxSize \in Nat /\ Needed = RxSize + 1 /\ line \in Seq(Tokens) /\ Len(line) \in Nat
  BY SizeAssumption DEF Needed, TypeOK
<1> DEFINE OnTime(input, n) == /\ n < Needed => n = Len(input)
                               /\ UNCHANGED faults \/ Fault("response")
<1>0. PICK input \in Response \cup DamagedResponse : \E n \in 0..Len(input) :
          ReadFromDevice(input, n) /\ (OnTime(input, n) \/ Fault("delay"))
  <2>1. \A input \in Response \cup DamagedResponse : Len(input) \in Nat
    BY ResponseType
  <2>. QED  BY <1>d, <2>1 DEF ReceiveResponse
<1>1. PICK n \in 0..Len(input) : ReadFromDevice(input, n) /\ (OnTime(input, n) \/ Fault("delay"))
  BY <1>0
<1>2. input \in Seq(Tokens) /\ Len(input) \in Nat /\ n \in Nat
  BY ResponseType
<1>3. /\ Len(line') <= Len(line) + 1 + RxSize - n
      /\ n = Len(input) => line' = <<>>
      /\ Fresh(line, calls) => Fresh(line', calls)
  BY <1>1, <1>b, ReadLeaves
<1>4. line' \in Seq(Tokens) /\ Len(line') \in Nat
  <2>1. line' \in Seq(Tokens)
    BY TypeStep DEF TypeOK
  <2>. QED  BY <2>1
<1>5. status' = "SUCCESS" => n > 0
  BY <1>1, <1>2 DEF ReadFromDevice
\* On time, a read leaves no more than it found.
<1>6. ASSUME ~Fault("delay")
      PROVE  /\ faults'["delay"] = faults["delay"]
             /\ Len(line') <= Len(line) /\ (line = <<>> => line' = <<>>)
  <2>1. faults'["delay"] = faults["delay"] /\ (n < Needed => n = Len(input))
    BY <1>1, <1>6, <1>a
  <2>2. CASE n = Len(input)
    BY <1>3, <1>d, <2>1, <2>2
  <2>3. CASE n >= Needed
    <3>1. Len(line') <= Len(line)
      BY <1>2, <1>3, <1>4, <1>d, <2>3
    <3>. QED  BY <1>4, <1>d, <2>1, <3>1
  <2>. QED  BY <1>2, <1>d, <2>1, <2>2, <2>3
<1>7. status' = "SUCCESS" => LineShort'
  <2>1. CASE Fault("delay")
    <3>1. CASE faults["delay"] = 0
      <4>1. line = <<>> /\ faults'["delay"] = 1
        BY <1>a, <1>c, <2>1, <3>1 DEF LineShort
      <4>2. n > 0 => Len(line') <= RxSize
        BY <1>2, <1>3, <1>4, <1>d, <4>1
      <4>. QED  BY <1>5, <4>1, <4>2 DEF LineShort
    <3>2. CASE faults["delay"] # 0
      <4>1. faults'["delay"] = 2
        BY <1>a, <2>1, <3>2
      <4>. QED  BY <4>1 DEF LineShort
    <3>. QED  BY <3>1, <3>2
  <2>2. CASE ~Fault("delay")
    <3>1. faults["delay"] = 1 => Len(line') <= RxSize
      BY <1>4, <1>6, <1>c, <1>d, <2>2 DEF LineShort
    <3>. QED  BY <1>6, <1>c, <2>2, <3>1 DEF LineShort
  <2>. QED  BY <2>1, <2>2
<1>8. Fresh(line', calls) \/ (faults'["delay"] = 2 /\ Len(line') <= RxSize)
  <2>1. CASE Fresh(line, calls)
    BY <1>3, <2>1
  <2>2. CASE faults["delay"] = 2 /\ Len(line) <= RxSize
    <3>1. ~Fault("delay")
      BY <1>a, <2>2
    <3>2. Len(line') <= RxSize
      BY <1>4, <1>6, <1>d, <2>2, <3>1
    <3>. QED  BY <1>6, <2>2, <3>1, <3>2
  <2>. QED  BY <1>c, <2>1, <2>2
<1>9. \A c \in 1..calls : rxBuffer' = Packet("data", c) => c = calls
  <2>1. calls \in Nat
    BY DEF TypeOK
  <2>2. ASSUME NEW c \in Nat \ {0}, rxBuffer' = Packet("data", c) PROVE c = calls
    BY <1>1, <1>b, <1>c, <2>2, ReadAnswer
  <2>. QED  BY <2>1, <2>2
<1>. QED  BY <1>b, <1>7, <1>8, <1>9 DEF AnswerInv

LEMMA AnswerStep == TypeOK /\ AwakeInv /\ AnswerInv /\ [Next]_vars => AnswerInv'
<1> SUFFICES ASSUME TypeOK, AwakeInv, AnswerInv, [Next]_vars, Prompt' PROVE AnswerInv'
  BY DEF AnswerInv
<1>a. /\ Prompt /\ ~Fault("command") /\ ~Fault("echo")
      /\ faults["delay"] \in 0..2 /\ faults'["delay"] \in 0..2
      /\ Fault("delay") => faults'["delay"] = faults["delay"] + 1
      /\ UNCHANGED faults \/ Fault("response") \/ Fault("port") \/ Fault("device")
            => faults'["delay"] = faults["delay"]
  BY PromptBefore
<1>b. /\ pc \in {"sent", "receive", "verify", "return"} => dev.answer.call = calls
      /\ \/ pc \in {"ready", "send", "sent", "receive"}
         \/ pc \in {"verify", "return"} /\ status = "SUCCESS"
         => LineShort
      /\ pc \in {"receive", "verify"} =>
             Fresh(line, calls) \/ (faults["delay"] = 2 /\ Len(line) <= RxSize)
      /\ pc \in {"verify", "return"} /\ status = "SUCCESS" =>
             \A c \in 1..calls : rxBuffer = Packet("data", c) => c = calls
  BY <1>a DEF AnswerInv
<1>c. line \in Seq(Tokens) /\ Len(line) \in Nat /\ RxSize \in Nat
  BY SizeAssumption DEF TypeOK
<1>d. Len(<<>>) <= RxSize
  BY <1>c
<1>1. CASE OpenChannel \/ Leave \/ CloseChannel
  <2>1. pc' \in {"closed", "wakeup", "closing"}
    BY <1>1 DEF OpenChannel, Leave, CloseChannel
  <2>. QED  BY <2>1 DEF AnswerInv
<1>2. CASE WakeDevice
  <2>1. pc' \in {"wakeup", "closing", "ready"} /\ line' = <<>>
    BY <1>2 DEF WakeDevice
  <2>. QED  BY <1>d, <2>1 DEF AnswerInv, LineShort
<1>3. CASE Read \/ Return
  <2>1. /\ pc = "ready" \/ (pc = "return" /\ status = "SUCCESS")
        /\ pc' \in {"ready", "send"} /\ UNCHANGED <<line, faults>>
    BY <1>3 DEF Read, Return
  <2>2. LineShort'
    BY <1>b, <2>1 DEF LineShort
  <2>. QED  BY <2>1, <2>2 DEF AnswerInv
<1>4. CASE SendCommand
  <2>1. pc = "send" /\ pc' = "sent" /\ calls' = calls /\ line' = line
    BY <1>4 DEF SendCommand
  <2>2. dev.awake /\ txBuffer.shifts = 0 /\ txBuffer.call = calls
    BY <2>1 DEF AwakeInv, TypeOK
  <2>3. dev'.answer.call = calls /\ faults'["delay"] = faults["delay"]
    BY <1>4, <1>a, <2>2 DEF SendCommand, Execute, Answer
  <2>4. LineShort'
    BY <1>b, <2>1, <2>3 DEF LineShort
  <2>. QED  BY <2>1, <2>3, <2>4 DEF AnswerInv
<1>5. CASE ReadEcho
  <2>1. pc = "sent" /\ pc' = "receive" /\ UNCHANGED <<calls, dev>>
    BY <1>5 DEF ReadEcho
  <2>2. CASE line' = <<>>
    <3>1. Fresh(<<>>, calls)
      BY DEF Fresh
    <3>. QED  BY <1>b, <1>d, <2>1, <2>2, <3>1 DEF AnswerInv, LineShort
  <2>3. CASE \E n \in 0..(Len(line) - 1) : line' = Rest(line, n) /\ Fault("delay")
    <3>1. PICK n \in 0..Len(line) : line' = Rest(line, n) /\ Fault("delay") /\ Len(line) # 0
      BY <1>c, <2>3
    <3>2. line # <<>> /\ faults["delay"] # 0
      BY <1>b, <2>1, <3>1 DEF LineShort
    <3>3. faults["delay"] = 1 /\ faults'["delay"] = 2 /\ Len(line) <= RxSize
      BY <1>a, <1>b, <2>1, <3>1, <3>2 DEF LineShort
    <3>4. Len(line') = Len(line) - n
      BY <1>c, <3>1, RestProperties
    <3>5. Len(line') <= RxSize
      BY <1>c, <3>3, <3>4
    <3>. QED  BY <1>b, <2>1, <3>3, <3>5 DEF AnswerInv, LineShort
  <2>. QED  BY <1>5, <1>a, <2>2, <2>3 DEF ReadEcho
<1>6. CASE ReceiveResponse
  BY <1>6, ReceiveStep
<1>7. CASE Verify
  <2>1. UNCHANGED <<calls, rxBuffer, line, dev, faults>> /\ pc = "verify"
    BY <1>7 DEF Verify
  <2>2. pc' \in {"receive", "return"}
    BY <1>7, VerifyType
  <2>3. status # "SUCCESS" => pc' = "return" /\ status' = status
    <3>1. status # "SUCCESS" => rxBuffer = <<>>
      BY <2>1 DEF AwakeInv
    <3>. QED  BY <1>7, <3>1 DEF Verify, Finish
  <2>4. LineShort => LineShort'
    BY <2>1 DEF LineShort
  <2>. QED  BY <1>b, <2>1, <2>2, <2>3, <2>4 DEF AnswerInv
<1>8. CASE UNCHANGED vars
  BY <1>8, <1>a, <1>b DEF vars, callVars, AnswerInv, LineShort
<1>. QED
  BY <1>1, <1>2, <1>3, <1>4, <1>5, <1>6, <1>7, <1>8 DEF Next

LEMMA OthersComplete == Complete(OtherTokens)
BY TokenTypes DEF Complete, OtherTokens, Token, Echo, Junk, Errors

LEMMA NoCommandStep == TypeOK /\ NoCommandInv /\ [Next]_vars => NoCommandInv'
<1> SUFFICES ASSUME TypeOK, NoCommandInv, [Next]_vars, faults'["echo"] = 0
             PROVE  line' \in Seq(OtherTokens) /\ rxBuffer' \in Seq(OtherTokens)
  BY DEF NoCommandInv
<1>a. faults["echo"] = 0
  <2>1. "echo" \in FaultKinds
    BY DEF FaultKinds
  <2>2. faults["echo"] \in Nat
    BY <2>1 DEF TypeOK
  <2>3. faults'["echo"] >= faults["echo"]
    BY <2>1, FaultsGrow
  <2>. QED  BY <2>2, <2>3
<1>b. ~Fault("echo")
  BY SMTT(30), <1>a DEF Fault, TypeOK, FaultKinds
<1>c. line \in Seq(OtherTokens) /\ rxBuffer \in Seq(OtherTokens) /\ <<>> \in Seq(OtherTokens)
  BY <1>a DEF NoCommandInv
<1>. USE DEF callVars
<1>1. CASE OpenChannel \/ WakeDevice
  BY <1>1, <1>c DEF OpenChannel, WakeDevice
<1>2. CASE Read \/ SendCommand \/ Return \/ Leave \/ CloseChannel
  BY <1>2, <1>c DEF Read, SendCommand, Return, Leave, CloseChannel
<1>3. CASE ReadEcho
  <2>1. \A n \in 0..(Len(line) - 1) : Rest(line, n) \in Seq(OtherTokens)
    BY <1>c DEF Rest
  <2>. QED  BY <1>3, <1>b, <1>c, <2>1 DEF ReadEcho
<1>4. CASE ReceiveResponse
  <2>1. PICK input \in Response \cup DamagedResponse : \E n \in 0..Len(input) :
            ReadFromDevice(input, n)
    BY <1>4 DEF ReceiveResponse
  <2>2. input \in Seq(OtherTokens)
    BY <1>c, ResponseIn, OthersComplete
  <2>. QED  BY <2>1, <2>2, ReadFromDeviceIn
<1>5. CASE Verify
  BY <1>5, <1>c DEF Verify
<1>6. CASE UNCHANGED vars
  BY <1>6, <1>c DEF vars
<1>. QED
  BY <1>1, <1>2, <1>3, <1>4, <1>5, <1>6 DEF Next

\* Bytes none of which is of a command are no command.
LEMMA NoCommand ==
    ASSUME rxBuffer \in Seq(OtherTokens), NEW c
    PROVE  rxBuffer # Packet("command", c)
<1> SUFFICES ASSUME rxBuffer = Packet("command", c) PROVE FALSE
  OBVIOUS
<1>1. RxSize \in Nat /\ 1 \in 1..RxSize
  BY SizeAssumption
<1>2. rxBuffer = [i \in 1..RxSize |-> Token("command", c, i)]
  BY DEF Packet
<1>3. rxBuffer[1] = Token("command", c, 1) /\ 1 \in DOMAIN rxBuffer
  BY <1>1, <1>2
<1>4. rxBuffer[1].kind # "command"
  BY <1>3 DEF OtherTokens
<1>. QED  BY <1>3, <1>4 DEF Token

\* A read that succeeds returns the device's answer to its own command.
THEOREM AnswerCorrect == Spec => []AnswerIsForCall
<1>1. Init => AwakeInv /\ AnswerInv /\ NoCommandInv
  BY DEF Init, AwakeInv, AnswerInv, NoCommandInv
<1>2. TypeOK /\ AnswerInv /\ NoCommandInv => AnswerIsForCall
  BY NoCommand DEF AnswerInv, NoCommandInv, AnswerIsForCall, Prompt, Returned, CrcMatches
<1>. QED  BY <1>1, <1>2, AwakeStep, AnswerStep, NoCommandStep, ShaTypeCorrect, PTL DEF Spec
=============================================================================
