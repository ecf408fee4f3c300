-------------------------- MODULE SensorPoll_proofs --------------------------
(* The types of SensorPoll and the order of its samples, for all drivers   *)
(* and sizes.                                                              *)
EXTENDS SensorPoll, SequenceTheorems, FiniteSetTheorems, TLAPS

USE DriverAssumption

\* What is known of the drivers and the bounds.
LEMMA Sizes ==
    /\ Drivers = 1..Len(mSensors) /\ Len(mSensors) \in Nat \ {0}
    /\ Count \in Nat /\ Errno \in Nat /\ numEvents \in Nat /\ PipeCap \in Nat
    /\ MaxSamples \in Nat /\ MaxActivations \in Nat
<1>1. Len(mSensors) \in Nat /\ Drivers = 1..Len(mSensors)
  BY DEF Drivers
<1>2. Len(mSensors) # 0
  BY <1>1
<1>. QED  BY <1>1, <1>2

\* What a device reports is a sequence of its events.
LEMMA ReportType ==
    ASSUME NEW d \in Drivers, NEW k \in 1..MaxSamples
    PROVE  Report(d, k) \in Seq(EventsOf(d))
<1> DEFINE m == mSensors[d]
           rels == [j \in DOMAIN m |-> Rel(m[j], k)]
<1>1. m \in Seq(Sensors) /\ Len(m) \in Nat /\ DOMAIN m = 1..Len(m)
  BY DEF Drivers
<1>2. \A j \in 1..Len(m) : Rel(m[j], k) \in EventsOf(d)
  BY SMTT(30), <1>1 DEF EventsOf, SensorsOf
<1>3. rels \in Seq(EventsOf(d))
  BY SMTT(30), <1>1, <1>2
<1>4. Syn \in EventsOf(d)
  BY DEF EventsOf
<1>. HIDE DEF rels
<1>5. Append(rels, Syn) \in Seq(EventsOf(d))
  BY <1>3, <1>4
<1>. QED  BY <1>5 DEF Report, rels

\* The parts of TypeOK, by what the steps change together.
DeviceTypes ==
    /\ produced \in [Drivers -> 0..MaxSamples] /\ on \subseteq Sensors
    /\ DOMAIN kernel = Drivers /\ \A d \in Drivers : kernel[d] \in Seq(EventsOf(d))
RingTypes ==
    /\ DOMAIN ring = Drivers /\ \A d \in Drivers : ring[d] \in Seq(EventsOf(d))
    /\ \A d \in Drivers : Free(d) >= 0
PipeType == pipe \in 0..PipeCap
ScanTypes ==
    /\ pc \in PCs /\ i \in 1..(Len(mSensors) + 1) /\ n \in 0..1
    /\ pc \in {"fill", "read"} => i \in revents
    /\ count \in Nat /\ nbEvents \in Int
    /\ pc # "idle" => count + nbEvents = Count
    /\ faults["read"] = 0 => nbEvents >= 0
    /\ got \in Nat /\ (pc = "fill" => got = 0) /\ (pc = "read" => got <= count)
    /\ revents \subseteq Drivers
ActiveTypes ==
    /\ aPC \in {"idle", "ioctl", "set", "wake"} /\ aSensor \in Sensors /\ aOn \in BOOLEAN
    /\ activations \in 0..MaxActivations
EnabledType == mEnabled \subseteq Sensors
PendingType == mPendingMask \subseteq SensorsOf(akm)
FaultTypes == faults \in [{"read", "poll"} -> Nat]

LEMMA TypeParts ==
    TypeOK <=> /\ DeviceTypes /\ RingTypes /\ PipeType /\ ScanTypes /\ ActiveTypes
               /\ EnabledType /\ PendingType /\ FaultTypes
BY DEF TypeOK, DeviceTypes, RingTypes, PipeType, ScanTypes, ActiveTypes, EnabledType,
       PendingType, FaultTypes

LEMMA TypePartsAfter ==
    TypeOK' <=> /\ DeviceTypes' /\ RingTypes' /\ PipeType' /\ ScanTypes' /\ ActiveTypes'
                /\ EnabledType' /\ PendingType' /\ FaultTypes'
BY DEF TypeOK, DeviceTypes, RingTypes, PipeType, ScanTypes, ActiveTypes, EnabledType,
       PendingType, FaultTypes, Free

\* What a step leaves alone keeps its type.
LEMMA Frame ==
    ASSUME TypeOK
    PROVE  /\ UNCHANGED kernelVars => DeviceTypes'
           /\ UNCHANGED ring => RingTypes'
           /\ UNCHANGED pipe => PipeType'
           /\ UNCHANGED <<pc, scanVars, faults>> => ScanTypes'
           /\ UNCHANGED activeVars => ActiveTypes'
           /\ UNCHANGED mEnabled => EnabledType'
           /\ UNCHANGED mPendingMask => PendingType'
           /\ UNCHANGED faults => FaultTypes'
<1>1. UNCHANGED kernelVars => DeviceTypes'
  BY TypeParts DEF DeviceTypes, kernelVars
<1>2. UNCHANGED ring => RingTypes'
  BY TypeParts DEF RingTypes, Free
<1>3. UNCHANGED <<pc, scanVars, faults>> => ScanTypes'
  BY TypeParts DEF ScanTypes, scanVars
<1>4. UNCHANGED activeVars => ActiveTypes'
  BY TypeParts DEF ActiveTypes, activeVars
<1>. QED
  BY TypeParts, <1>1, <1>2, <1>3, <1>4 DEF PipeType, EnabledType, PendingType, FaultTypes

\* The steps that are not the poll thread's.
LEMMA OthersType ==
    ASSUME TypeOK,
           \/ Activator \/ \E d \in Drivers : Produce(d)
           \/ \E s \in Sensors, en \in BOOLEAN : Activate(s, en)
    PROVE  TypeOK'
<1>1. ASSUME NEW d \in Drivers, Produce(d) PROVE TypeOK'
  <2>1. DeviceTypes'
    <3>1. produced[d] + 1 \in 1..MaxSamples
      <4>1. produced[d] \in 0..MaxSamples
        BY TypeParts DEF DeviceTypes
      <4>2. produced[d] < MaxSamples
        BY <1>1 DEF Produce
      <4>. QED  BY SMTT(30), <4>1, <4>2, Sizes
    <3>2. kernel[d] \o Report(d, produced[d] + 1) \in Seq(EventsOf(d))
      BY <3>1, ReportType, TypeParts, ConcatProperties DEF DeviceTypes
    <3>3. produced' \in [Drivers -> 0..MaxSamples]
      BY SMTT(30), <1>1, <3>1, TypeParts DEF Produce, DeviceTypes
    <3>4. DOMAIN kernel' = Drivers /\ \A e \in Drivers : kernel'[e] \in Seq(EventsOf(e))
      BY <1>1, <3>2, TypeParts DEF Produce, DeviceTypes
    <3>. QED  BY <1>1, <3>3, <3>4, TypeParts DEF Produce, DeviceTypes
  <2>2. UNCHANGED <<ring, pipe, pc, scanVars, faults, activeVars, mEnabled, mPendingMask>>
    BY <1>1 DEF Produce, readVars
  <2>. QED  BY <2>1, <2>2, Frame, TypePartsAfter
<1>2. CASE Activator
  <2>1. /\ UNCHANGED <<ring, pc, scanVars, faults, mPendingMask>>
        /\ UNCHANGED <<aSensor, aOn, activations>> /\ aPC' \in {"idle", "set", "wake"}
    BY <1>2 DEF Activator, SwitchSensor, SetEnabled, WriteWake, readVars
  <2>2. ActiveTypes'
    BY <2>1, TypeParts DEF ActiveTypes
  <2>3. DeviceTypes'
    BY <1>2, TypeParts DEF Activator, SwitchSensor, SetEnabled, WriteWake, DeviceTypes,
       ActiveTypes, kernelVars
  <2>4. EnabledType'
    BY <1>2, TypeParts DEF Activator, SwitchSensor, SetEnabled, WriteWake, EnabledType,
       ActiveTypes
  <2>5. PipeType'
    BY <1>2, TypeParts, Sizes DEF Activator, SwitchSensor, SetEnabled, WriteWake, PipeType
  <2>. QED  BY <2>1, <2>2, <2>3, <2>4, <2>5, Frame, TypePartsAfter
<1>3. ASSUME NEW s \in Sensors, NEW en \in BOOLEAN, Activate(s, en) PROVE TypeOK'
  <2>1. UNCHANGED <<kernelVars, ring, pipe, pc, scanVars, faults, mEnabled, mPendingMask>>
    BY <1>3 DEF Activate, readVars
  <2>2. ActiveTypes'
    <3>1. aPC' \in {"idle", "ioctl", "wake"} /\ aSensor' = s /\ aOn' = en
      BY <1>3 DEF Activate
    <3>2. activations' \in 0..MaxActivations
      BY <1>3, TypeParts, Sizes DEF Activate, ActiveTypes
    <3>. QED  BY <3>1, <3>2 DEF ActiveTypes
  <2>. QED  BY <2>1, <2>2, Frame, TypePartsAfter
<1>. QED  BY <1>1, <1>2, <1>3

\* The loop of pollEvents, and the poll.
LEMMA LoopType ==
    ASSUME TypeOK, CallPoll \/ Scan \/ EndRead \/ Poll \/ FillFails \/ PollFails
    PROVE  TypeOK'
<1>a. ScanTypes /\ FaultTypes /\ PipeType
  BY TypeParts
<1>1. UNCHANGED <<kernelVars, ring, activeVars, mEnabled, mPendingMask>>
  BY DEF CallPoll, Scan, EndRead, Poll, FillFails, PollFails, readVars
<1>2. PipeType' /\ FaultTypes'
  <2>1. CASE CallPoll \/ Scan \/ EndRead
    BY <1>a, <2>1 DEF CallPoll, Scan, EndRead, PipeType, FaultTypes
  <2>2. CASE Poll
    BY <1>a, <2>2, Sizes DEF Poll, PipeType, FaultTypes
  <2>3. CASE FillFails
    BY SMTT(30), <1>a, <2>3 DEF FillFails, PipeType, FaultTypes
  <2>4. CASE PollFails
    BY SMTT(30), <1>a, <2>4 DEF PollFails, PipeType, FaultTypes
  <2>. QED  BY <2>1, <2>2, <2>3, <2>4
<1>3. ScanTypes'
  <2>1. CASE CallPoll
    BY <1>a, <2>1, Sizes DEF CallPoll, ScanTypes, PCs
  <2>2. CASE Scan
    <3>1. /\ UNCHANGED <<n, count, nbEvents, revents, faults>> /\ pc = "scan"
          /\ pc' \in {"scan", "fill", "idle", "poll"}
      BY <2>2 DEF Scan
    <3>2. CASE i \in Drivers /\ count # 0
      <4>1. \/ i \in revents /\ pc' = "fill" /\ got' = 0 /\ i' = i
            \/ pc' = "scan" /\ i' = i + 1 /\ got' = got
        BY <2>2, <3>1, <3>2 DEF Scan
      <4>2. i + 1 \in 1..(Len(mSensors) + 1)
        BY <3>2, Sizes
      <4>3. CASE i \in revents /\ pc' = "fill" /\ got' = 0 /\ i' = i
        BY <1>a, <3>1, <4>3 DEF ScanTypes, PCs
      <4>4. CASE pc' = "scan" /\ i' = i + 1 /\ got' = got
        BY <1>a, <3>1, <4>2, <4>4 DEF ScanTypes, PCs
      <4>. QED  BY <4>1, <4>3, <4>4
    <3>3. CASE ~(i \in Drivers /\ count # 0)
      <4>1. pc' \in {"idle", "poll"} /\ i' = i /\ got' = got
        BY <2>2, <3>3 DEF Scan
      <4>. QED  BY <1>a, <3>1, <4>1 DEF ScanTypes, PCs
    <3>. QED  BY <3>2, <3>3
  <2>3. CASE EndRead
    <3>1. /\ pc' = "scan" /\ i' = i + 1 /\ count' = count - got /\ nbEvents' = nbEvents + got
          /\ UNCHANGED <<n, got, faults>> /\ revents' \subseteq revents /\ pc = "read"
      BY <2>3 DEF EndRead
    <3>2. got \in Nat /\ count \in Nat /\ nbEvents \in Int /\ got <= count /\ i \in Drivers
      BY <1>a, <3>1 DEF ScanTypes
    <3>3. /\ count - got \in Nat /\ nbEvents + got \in Int /\ i + 1 \in 1..(Len(mSensors) + 1)
          /\ nbEvents >= 0 => nbEvents + got >= 0
          /\ (count - got) + (nbEvents + got) = count + nbEvents
      BY <3>2, Sizes
    <3>. QED  BY <1>a, <3>1, <3>3 DEF ScanTypes, PCs
  <2>4. CASE Poll
    BY <1>a, <2>4, Sizes DEF Poll, Ready, ScanTypes, PCs
  <2>5. CASE FillFails
    <3>1. faults'["read"] = faults["read"] + 1 /\ faults["read"] \in Nat
      BY <1>a, <2>5 DEF FillFails, FaultTypes
    <3>. QED  BY <1>a, <2>5, <3>1, Sizes DEF FillFails, ScanTypes, PCs
  <2>6. CASE PollFails
    <3>1. faults'["read"] = faults["read"]
      BY <1>a, <2>6 DEF PollFails, FaultTypes
    <3>. QED  BY <1>a, <2>6, <3>1 DEF PollFails, ScanTypes, PCs, scanVars
  <2>. QED  BY <2>1, <2>2, <2>3, <2>4, <2>5, <2>6
<1>. QED  BY <1>1, <1>2, <1>3, Frame, TypePartsAfter

LEMMA SplitType ==
    ASSUME NEW S, NEW s \in Seq(S), NEW k \in 1..Len(s)
    PROVE  /\ SubSeq(s, 1, k) \in Seq(S) /\ Len(SubSeq(s, 1, k)) = k
           /\ SubSeq(s, k + 1, Len(s)) \in Seq(S)
<1>1. Len(s) \in Nat /\ k \in Nat /\ k <= Len(s)
  OBVIOUS
<1>2. SubSeq(s, 1, k) \in Seq(S)
  BY <1>1
<1>3. Len(SubSeq(s, 1, k)) = k
  BY <1>1
<1>4. SubSeq(s, k + 1, Len(s)) \in Seq(S)
  BY <1>1
<1>. QED  BY <1>2, <1>3, <1>4

\* fill moves events from the kernel to the ring, not more than there is room.
LEMMA FillType == ASSUME TypeOK, Fill PROVE TypeOK'
<1>1. i \in Drivers /\ pc = "fill" /\ pc' = "read"
  BY TypeParts DEF Fill, ScanTypes
<1>2. UNCHANGED <<scanVars, faults, produced, on, pipe, activeVars, mEnabled, mPendingMask>>
  BY DEF Fill
<1>3. ScanTypes'
  BY <1>1, <1>2, TypeParts DEF ScanTypes, scanVars, PCs
<1>4. DeviceTypes' /\ RingTypes'
  <2>1. CASE UNCHANGED <<ring, kernel>>
    BY <1>2, <2>1, Frame DEF kernelVars
  <2>2. ASSUME NEW k \in 1..Len(kernel[i]), k <= Free(i),
               ring' = [ring EXCEPT ![i] = @ \o SubSeq(kernel[i], 1, k)],
               kernel' = [kernel EXCEPT ![i] = SubSeq(@, k + 1, Len(@))]
        PROVE  DeviceTypes' /\ RingTypes'
    <3> DEFINE E == EventsOf(i)
               moved == SubSeq(kernel[i], 1, k)
    <3>1. kernel[i] \in Seq(E) /\ ring[i] \in Seq(E) /\ Len(ring[i]) \in Nat
      BY <1>1, TypeParts DEF DeviceTypes, RingTypes
    <3>2. moved \in Seq(E) /\ Len(moved) = k
      BY <3>1, SplitType
    <3>3. SubSeq(kernel[i], k + 1, Len(kernel[i])) \in Seq(E)
      BY <3>1, SplitType
    <3>. HIDE DEF E, moved
    <3>4. ring[i] \o moved \in Seq(E) /\ Len(ring[i] \o moved) = Len(ring[i]) + k
      BY ZenonT(30), <3>1, <3>2, ConcatProperties
    <3>5. DeviceTypes'
      BY <1>1, <1>2, <2>2, <3>3, TypeParts DEF DeviceTypes, E
    <3>6. RingTypes'
      <4>1. ring' = [ring EXCEPT ![i] = ring[i] \o moved]
        BY <2>2 DEF moved
      <4>2. \A d \in Drivers : ring'[d] = IF d = i THEN ring[i] \o moved ELSE ring[d]
        BY <1>1, <4>1, TypeParts DEF RingTypes
      <4>3. numEvents - Len(ring'[i]) >= 0
        BY <1>1, <2>2, <3>1, <3>4, <4>2, Sizes DEF Free
      <4>. QED  BY <3>4, <4>1, <4>2, <4>3, TypeParts DEF RingTypes, Free, E
    <3>. QED  BY <3>5, <3>6
  <2>. QED  BY <2>1, <2>2 DEF Fill
<1>. QED  BY <1>2, <1>3, <1>4, Frame, TypePartsAfter

\* readEvents takes the events from the ring one by one.
LEMMA ReadType == ASSUME TypeOK, ReadEvent PROVE TypeOK'
<1>1. i \in Drivers /\ pc = "read" /\ got < count /\ ring[i] # <<>>
  BY TypeParts DEF ReadEvent, ScanTypes
<1>2. UNCHANGED <<kernelVars, pipe, pc, i, n, count, nbEvents, revents, mEnabled,
                  activeVars, faults>>
  BY DEF ReadEvent
<1>3. NextEvent \/ UNCHANGED ring
  BY DEF ReadEvent, ReadRel, ReadSynSingle, ReadSynAkm
<1>4. RingTypes'
  <2>1. CASE UNCHANGED ring
    BY <2>1, Frame
  <2>2. CASE NextEvent
    <3>1. ring[i] \in Seq(EventsOf(i))
      BY <1>1, TypeParts DEF RingTypes
    <3>2. Tail(ring[i]) \in Seq(EventsOf(i)) /\ Len(Tail(ring[i])) = Len(ring[i]) - 1
      BY <1>1, <3>1
    <3>3. \A d \in Drivers : ring'[d] = IF d = i THEN Tail(ring[i]) ELSE ring[d]
      BY <1>1, <2>2, TypeParts DEF NextEvent, RingTypes
    <3>4. numEvents - Len(ring[i]) >= 0 /\ Len(ring[i]) \in Nat
      BY <1>1, <3>1, TypeParts DEF RingTypes, Free
    <3>5. numEvents - Len(ring'[i]) >= 0
      <4>1. ring'[i] = Tail(ring[i])
        BY <1>1, <3>3
      <4>. QED  BY <3>2, <3>4, <4>1, Sizes
    <3>6. DOMAIN ring' = Drivers
      BY <2>2, TypeParts DEF NextEvent, RingTypes
    <3>. QED  BY <3>2, <3>3, <3>5, <3>6, TypeParts DEF RingTypes, Free
  <2>. QED  BY <1>3, <2>1, <2>2
<1>5. got' \in {got, got + 1}
  BY DEF ReadEvent, ReadRel, ReadSynSingle, ReadSynAkm, Deliver
<1>6. ScanTypes'
  BY SMTT(30), <1>1, <1>2, <1>5, TypeParts DEF ScanTypes
<1>7. PendingType'
  <2>1. CASE ReadRel
    <3>1. Head(ring[i]) \in EventsOf(i)
      BY <1>1, TypeParts DEF RingTypes
    <3>2. Head(ring[i]).type = "EV_REL" /\ Syn.type # "EV_REL"
      BY <2>1 DEF ReadRel, Syn
    <3>3. Head(ring[i]).sensor \in SensorsOf(i)
      BY <3>1, <3>2 DEF EventsOf, Rel
    <3>. QED  BY <2>1, <3>3, TypeParts DEF ReadRel, PendingType
  <2>2. CASE ReadSynSingle \/ ReadSynAkm
    BY <2>2, TypeParts DEF ReadSynSingle, ReadSynAkm, PendingType
  <2>. QED  BY <2>1, <2>2 DEF ReadEvent
<1>. QED  BY <1>2, <1>4, <1>6, <1>7, Frame, TypePartsAfter

LEMMA InitType == Init => TypeOK
<1> SUFFICES ASSUME Init PROVE TypeOK
  OBVIOUS
<1>1. DeviceTypes /\ RingTypes
  <2>1. \A d \in Drivers : <<>> \in Seq(EventsOf(d))
    OBVIOUS
  <2>2. \A d \in Drivers : kernel[d] = <<>> /\ ring[d] = <<>> /\ Len(ring[d]) = 0
    BY DEF Init
  <2>. QED  BY <2>1, <2>2, Sizes DEF Init, DeviceTypes, RingTypes, Free
<1>2. ScanTypes /\ FaultTypes /\ PipeType
  BY Sizes DEF Init, ScanTypes, FaultTypes, PipeType, PCs
<1>3. ActiveTypes
  <2>1. 1 \in Drivers /\ mSensors[1] \in Seq(Sensors) /\ mSensors[1] # <<>>
    <3>1. 1 \in 1..Len(mSensors)
      BY Sizes
    <3>. QED  BY <3>1, Sizes
  <2>2. mSensors[1][1] \in Sensors
    BY <2>1
  <2>3. aPC = "idle" /\ aSensor = mSensors[1][1] /\ aOn \in BOOLEAN /\ activations = 0
    BY DEF Init
  <2>. QED  BY <2>2, <2>3, Sizes DEF ActiveTypes
<1>4. EnabledType /\ PendingType
  BY DEF Init, EnabledType, PendingType
<1>. QED  BY <1>1, <1>2, <1>3, <1>4, TypeParts

\* Every variable keeps its type: no ring overflows, and the room that is left
\* and the events read are the caller's array.
THEOREM PollTypeCorrect == Spec => []TypeOK
<1>1. TypeOK /\ [Next]_vars => TypeOK'
  <2> SUFFICES ASSUME TypeOK, [Next]_vars PROVE TypeOK'
    OBVIOUS
  <2>1. CASE UNCHANGED vars
    BY <2>1, Frame, TypePartsAfter DEF vars, readVars
  <2>. QED  BY <2>1, OthersType, LoopType, FillType, ReadType DEF Next, PollThread
<1>. QED  BY <1>1, InitType, PTL DEF Spec

-----------------------------------------------------------------------------
(* No sample is lost: the events a driver has yet to read are those that   *)
(* follow the ones it has disposed of.                                     *)

\* From here on the steps say where they use it.
HIDE DriverAssumption

\* A place in what the device of driver d reports: the a-th event of sample k.
Size(d) == Len(mSensors[d])
Places(d) == [a : 1..(Size(d) + 1), k : Nat \ {0}]
EventAt(d, p) == IF p.a <= Size(d) THEN Rel(mSensors[d][p.a], p.k) ELSE Syn
NextPlace(d, p) ==
    IF p.a <= Size(d) THEN [a |-> p.a + 1, k |-> p.k] ELSE [a |-> 1, k |-> p.k + 1]

\* The events u are those of driver d from place p to the end of sample q, none
\* of a later one; P says of each of them, and of the next to come, where it is.
InOrder(d, u, P, q) ==
    /\ \A j \in 1..Len(u) : u[j] = EventAt(d, P[j]) /\ P[j + 1] = NextPlace(d, P[j])
    /\ P[Len(u) + 1] = [a |-> 1, k |-> q + 1]
    /\ \A j \in 1..Len(u) : P[j].k <= q
From(d, p, u, q) ==
    \E P \in [1..(Len(u) + 1) -> Places(d)] : P[1] = p /\ InOrder(d, u, P, q)

Unread(d) == ring[d] \o kernel[d]

\* What driver d has made of the events before place p.  At an EV_SYN the compass
\* delivers in the order of its sensors; c is the one whose turn it is.
Sampled(d, p) ==
    \A b \in 1..Size(d) : sample[mSensors[d][b]] = IF b < p.a THEN p.k ELSE p.k - 1
DoneUpTo(d, c, k) ==
    \A b \in 1..Size(d) : done[mSensors[d][b]] = IF b < c THEN k ELSE k - 1
Collecting(d, p) ==
    /\ DoneUpTo(d, 1, p.k)
    /\ d = akm => mPendingMask = {mSensors[d][b] : b \in 1..(p.a - 1)}
Delivering(p) ==
    \E c \in 1..Size(akm) :
        /\ DoneUpTo(akm, c, p.k)
        /\ mPendingMask = {mSensors[akm][b] : b \in c..Size(akm)}
Disposed(d, p) ==
    /\ Sampled(d, p)
    /\ IF d = akm /\ p.a > Size(d) THEN Delivering(p) ELSE Collecting(d, p)

DriverInv(d) ==
    \E p \in Places(d) : From(d, p, Unread(d), produced[d]) /\ Disposed(d, p)

SampleInv ==
    /\ sample \in [Sensors -> Nat] /\ done \in [Sensors -> Nat]
    /\ \A d \in Drivers : DriverInv(d)

\* The sensors of a driver.
LEMMA SensorsAt ==
    ASSUME NEW d \in Drivers
    PROVE  /\ Size(d) \in Nat \ {0} /\ DOMAIN mSensors[d] = 1..Size(d)
           /\ \A b \in 1..Size(d) : mSensors[d][b] \in Sensors /\ mSensors[d][b] \in SensorsOf(d)
           /\ \A s \in SensorsOf(d) : \E b \in 1..Size(d) : s = mSensors[d][b]
           /\ \A b, c \in 1..Size(d) : mSensors[d][b] = mSensors[d][c] => b = c
           /\ d # akm => Size(d) = 1
<1>1. mSensors[d] \in Seq(Sensors) /\ mSensors[d] # <<>>
  BY DriverAssumption DEF Drivers
<1>2. Size(d) \in Nat \ {0} /\ DOMAIN mSensors[d] = 1..Size(d)
  BY <1>1 DEF Size
<1>3. \A b \in 1..Size(d) : mSensors[d][b] \in Sensors /\ mSensors[d][b] \in SensorsOf(d)
  BY <1>1, <1>2 DEF SensorsOf
<1>4. \A s \in SensorsOf(d) : \E b \in 1..Size(d) : s = mSensors[d][b]
  BY <1>2 DEF SensorsOf
<1>5. \A b, c \in 1..Size(d) : mSensors[d][b] = mSensors[d][c] => b = c
  BY <1>2, DriverAssumption
<1>. QED  BY <1>2, <1>3, <1>4, <1>5, DriverAssumption DEF Size

\* The events of a sample, one by one.
LEMMA ReportAt ==
    ASSUME NEW d \in Drivers, NEW k \in Nat
    PROVE  /\ Len(Report(d, k)) = Size(d) + 1
           /\ \A x \in 1..(Size(d) + 1) : Report(d, k)[x] = EventAt(d, [a |-> x, k |-> k])
<1> DEFINE m == mSensors[d]
           rels == [j \in DOMAIN m |-> Rel(m[j], k)]
           L == Size(d)
           V == {Rel(m[j], k) : j \in 1..L} \cup {Syn}
<1>1. L \in Nat /\ DOMAIN m = 1..L
  BY SensorsAt
<1>2. rels \in Seq(V) /\ Len(rels) = L
  BY SMTT(30), <1>1
<1>3. \A j \in 1..L : rels[j] = Rel(m[j], k)
  BY <1>1
<1>4. Syn \in V
  OBVIOUS
<1>5. Report(d, k) = Append(rels, Syn)
  BY DEF Report
<1>6. \A x \in 1..(L + 1) :
         EventAt(d, [a |-> x, k |-> k]) = IF x <= L THEN Rel(m[x], k) ELSE Syn
  BY DEF EventAt
<1>. HIDE DEF rels, V, L, m
<1>7. /\ Len(Append(rels, Syn)) = L + 1 /\ Append(rels, Syn)[L + 1] = Syn
      /\ \A j \in 1..L : Append(rels, Syn)[j] = rels[j]
  BY <1>1, <1>2, <1>4, AppendProperties
<1>8. \A x \in 1..(L + 1) : Append(rels, Syn)[x] = IF x <= L THEN Rel(m[x], k) ELSE Syn
  BY <1>1, <1>3, <1>7
<1>. QED  BY <1>5, <1>6, <1>7, <1>8 DEF L

\* One more sample continues the order.
LEMMA ExtendOrder ==
    ASSUME NEW d \in Drivers, NEW E, NEW u \in Seq(E), NEW R \in Seq(E), NEW q \in Nat,
           NEW p, From(d, p, u, q), Len(R) = Size(d) + 1,
           \A x \in 1..(Size(d) + 1) : R[x] = EventAt(d, [a |-> x, k |-> q + 1])
    PROVE  From(d, p, u \o R, q + 1)
<1> DEFINE N == Len(u)
           L == Size(d)
           Q(P) == [j \in 1..(N + L + 2) |->
                      IF j <= N THEN P[j]
                      ELSE IF j <= N + L + 1 THEN [a |-> j - N, k |-> q + 1]
                      ELSE [a |-> 1, k |-> q + 2]]
<1>1. PICK P \in [1..(N + 1) -> Places(d)] : P[1] = p /\ InOrder(d, u, P, q)
  BY DEF From
<1>2. N \in Nat /\ L \in Nat \ {0}
  BY SensorsAt
<1>3. /\ Len(u \o R) = N + L + 1
      /\ \A j \in 1..(N + L + 1) : (u \o R)[j] = IF j <= N THEN u[j] ELSE R[j - N]
  <2>1. /\ Len(u \o R) = N + Len(R)
        /\ \A j \in 1..(N + Len(R)) : (u \o R)[j] = IF j <= N THEN u[j] ELSE R[j - N]
    BY ConcatProperties
  <2>2. N + Len(R) = N + L + 1
    BY <1>2
  <2>. QED  BY <2>1, <2>2
<1>4. P[N + 1] = [a |-> 1, k |-> q + 1]
  BY <1>1 DEF InOrder
<1>5. Q(P) \in [1..(N + L + 2) -> Places(d)]
  <2>1. ASSUME NEW j \in 1..(N + L + 2) PROVE Q(P)[j] \in Places(d)
    <3>1. CASE j <= N
      BY <1>1, <1>2, <3>1
    <3>2. CASE j > N /\ j <= N + L + 1
      BY <1>2, <3>2 DEF Places
    <3>3. CASE j > N + L + 1
      BY <1>2, <3>3 DEF Places
    <3>. QED  BY <1>2, <3>1, <3>2, <3>3
  <2>. QED  BY <2>1
<1>6. Q(P)[1] = p
  BY <1>1, <1>2, <1>4
<1>7. ASSUME NEW j \in 1..(N + L + 1)
      PROVE  (u \o R)[j] = EventAt(d, Q(P)[j]) /\ Q(P)[j + 1] = NextPlace(d, Q(P)[j])
  <2>1. CASE j <= N
    <3>1. u[j] = EventAt(d, P[j]) /\ P[j + 1] = NextPlace(d, P[j])
      BY <1>1, <2>1 DEF InOrder
    <3>2. Q(P)[j] = P[j] /\ Q(P)[j + 1] = P[j + 1]
      BY SMTT(30), <1>2, <1>4, <2>1
    <3>. QED  BY <1>3, <2>1, <3>1, <3>2
  <2>2. CASE j > N
    <3> DEFINE x == j - N
    <3>1. x \in 1..(L + 1) /\ N + x = j
      BY <1>2, <2>2
    <3>2. Q(P)[j] = [a |-> x, k |-> q + 1]
      BY SMTT(30), <1>2, <2>2
    <3>3. Q(P)[j + 1] = IF x <= L THEN [a |-> x + 1, k |-> q + 1] ELSE [a |-> 1, k |-> q + 2]
      BY SMTT(30), <1>2, <2>2
    <3>4. NextPlace(d, [a |-> x, k |-> q + 1])
             = IF x <= L THEN [a |-> x + 1, k |-> q + 1] ELSE [a |-> 1, k |-> (q + 1) + 1]
      BY DEF NextPlace
    <3>5. (u \o R)[j] = R[x]
      BY <1>3, <2>2
    <3>6. (q + 1) + 1 = q + 2
      OBVIOUS
    <3>. HIDE DEF x, Q
    <3>. QED  BY <3>1, <3>2, <3>3, <3>4, <3>5, <3>6
  <2>3. j <= N \/ j > N
    BY <1>2
  <2>. HIDE DEF Q, N
  <2>. QED  BY <2>1, <2>2, <2>3
<1>8. Q(P)[N + L + 2] = [a |-> 1, k |-> (q + 1) + 1]
  BY <1>2
<1>9. N + L + 2 = (N + L + 1) + 1
  BY <1>2
<1>11. ASSUME NEW j \in 1..(N + L + 1) PROVE Q(P)[j].k <= q + 1
  <2>1. CASE j <= N
    <3>1. Q(P)[j] = P[j] /\ P[j] \in Places(d) /\ P[j].k <= q
      BY <1>1, <1>2, <2>1 DEF InOrder
    <3>2. P[j].k \in Nat
      BY <3>1 DEF Places
    <3>. QED  BY <3>1, <3>2
  <2>2. CASE j > N
    <3>1. Q(P)[j] = [a |-> j - N, k |-> q + 1]
      BY SMTT(30), <1>2, <2>2
    <3>. QED  BY <3>1
  <2>. QED  BY <1>2, <2>1, <2>2
<1>. HIDE DEF Q, N, L
<1>10. InOrder(d, u \o R, Q(P), q + 1)
  BY <1>3, <1>7, <1>8, <1>9, <1>11 DEF InOrder
<1>. QED  BY <1>3, <1>5, <1>6, <1>9, <1>10 DEF From

\* The first event is that of place p, and the others follow it.
LEMMA TakeOrder ==
    ASSUME NEW d \in Drivers, NEW E, NEW u \in Seq(E), NEW q \in Nat, u # <<>>,
           NEW p, From(d, p, u, q)
    PROVE  /\ u[1] = EventAt(d, p) /\ p.k <= q
           /\ From(d, NextPlace(d, p), Tail(u), q)
<1> DEFINE N == Len(u)
           Q(P) == [j \in 1..N |-> P[j + 1]]
<1>1. PICK P \in [1..(N + 1) -> Places(d)] : P[1] = p /\ InOrder(d, u, P, q)
  BY DEF From
<1>2. N \in Nat \ {0} /\ Len(Tail(u)) = N - 1
  OBVIOUS
<1>3. \A j \in 1..(N - 1) : Tail(u)[j] = u[j + 1]
  BY <1>2
<1>4. /\ \A j \in 1..N : u[j] = EventAt(d, P[j]) /\ P[j + 1] = NextPlace(d, P[j])
      /\ P[N + 1] = [a |-> 1, k |-> q + 1]
      /\ \A j \in 1..N : P[j].k <= q
  BY <1>1 DEF InOrder
<1>5. u[1] = EventAt(d, p) /\ P[2] = NextPlace(d, p) /\ p.k <= q
  BY <1>1, <1>2, <1>4
<1>6. Q(P) \in [1..N -> Places(d)]
  BY <1>1, <1>2
<1>7. Q(P)[1] = NextPlace(d, p) /\ Q(P)[N] = [a |-> 1, k |-> q + 1]
  BY <1>2, <1>4, <1>5
<1>8. \A j \in 1..(N - 1) : Tail(u)[j] = EventAt(d, Q(P)[j]) /\ Q(P)[j + 1] = NextPlace(d, Q(P)[j])
  BY <1>2, <1>3, <1>4
<1>9. (N - 1) + 1 = N
  BY <1>2
<1>11. \A j \in 1..(N - 1) : Q(P)[j].k <= q
  BY <1>2, <1>4
<1>. HIDE DEF N, Q
<1>10. InOrder(d, Tail(u), Q(P), q)
  BY <1>2, <1>7, <1>8, <1>9, <1>11 DEF InOrder
<1>. QED  BY <1>2, <1>5, <1>6, <1>7, <1>9, <1>10 DEF From

\* The events that are unread, one by one.
LEMMA UnreadType ==
    ASSUME TypeOK, NEW d \in Drivers
    PROVE  /\ ring[d] \in Seq(EventsOf(d)) /\ kernel[d] \in Seq(EventsOf(d))
           /\ Unread(d) \in Seq(EventsOf(d)) /\ produced[d] \in Nat
<1>1. ring[d] \in Seq(EventsOf(d)) /\ kernel[d] \in Seq(EventsOf(d))
  BY TypeParts DEF RingTypes, DeviceTypes
<1>2. Unread(d) \in Seq(EventsOf(d))
  BY <1>1, ConcatProperties DEF Unread
<1>3. produced[d] \in Nat
  BY TypeParts, Sizes DEF DeviceTypes
<1>. QED  BY <1>1, <1>2, <1>3

LEMMA TakeFromRing ==
    ASSUME NEW E, NEW r \in Seq(E), NEW q \in Seq(E), r # <<>>
    PROVE  r \o q # <<>> /\ (r \o q)[1] = Head(r) /\ Tail(r \o q) = Tail(r) \o q
<1>1. /\ Len(r) \in Nat \ {0} /\ Len(q) \in Nat /\ Len(r \o q) = Len(r) + Len(q)
      /\ \A j \in 1..(Len(r) + Len(q)) : (r \o q)[j] = IF j <= Len(r) THEN r[j] ELSE q[j - Len(r)]
      /\ r \o q \in Seq(E)
  BY ConcatProperties
<1>2. r \o q # <<>> /\ (r \o q)[1] = Head(r)
  BY <1>1
<1>3. Tail(r) \in Seq(E) /\ Len(Tail(r)) = Len(r) - 1 /\ \A j \in 1..(Len(r) - 1) : Tail(r)[j] = r[j + 1]
  OBVIOUS
<1>4. /\ Len(Tail(r) \o q) = (Len(r) - 1) + Len(q)
      /\ \A j \in 1..((Len(r) - 1) + Len(q)) :
            (Tail(r) \o q)[j] = IF j <= Len(r) - 1 THEN Tail(r)[j] ELSE q[j - (Len(r) - 1)]
      /\ Tail(r) \o q \in Seq(E)
  BY <1>3, ConcatProperties
<1>5. /\ Tail(r \o q) \in Seq(E) /\ Len(Tail(r \o q)) = (Len(r) + Len(q)) - 1
      /\ \A j \in 1..(Len(r) + Len(q) - 1) : Tail(r \o q)[j] = (r \o q)[j + 1]
  BY <1>1, <1>2
<1>6. ASSUME NEW j \in 1..(Len(r) + Len(q) - 1) PROVE Tail(r \o q)[j] = (Tail(r) \o q)[j]
  <2>1. CASE j <= Len(r) - 1
    BY <1>1, <1>3, <1>4, <1>5, <2>1
  <2>2. CASE j > Len(r) - 1
    <3>1. Tail(r \o q)[j] = q[(j + 1) - Len(r)]
      BY <1>1, <1>5, <2>2
    <3>2. (Tail(r) \o q)[j] = q[j - (Len(r) - 1)]
      BY <1>1, <1>4, <2>2
    <3>3. (j + 1) - Len(r) = j - (Len(r) - 1)
      BY <1>1
    <3>. QED  BY <3>1, <3>2, <3>3
  <2>. QED  BY <1>1, <2>1, <2>2
<1>. QED  BY <1>1, <1>2, <1>4, <1>5, <1>6, SeqEqual

\* A driver of whose events and sensors nothing changes.
LEMMA KeepDriver ==
    ASSUME NEW d \in Drivers, DriverInv(d), Unread(d)' = Unread(d),
           produced'[d] = produced[d],
           \A s \in SensorsOf(d) : sample'[s] = sample[s] /\ done'[s] = done[s],
           d = akm => mPendingMask' = mPendingMask
    PROVE  DriverInv(d)'
<1>1. PICK p \in Places(d) : From(d, p, Unread(d), produced[d]) /\ Disposed(d, p)
  BY DEF DriverInv
<1>2. From(d, p, Unread(d)', produced'[d])
  BY <1>1
<1>3. \A b \in 1..Size(d) : /\ sample'[mSensors[d][b]] = sample[mSensors[d][b]]
                            /\ done'[mSensors[d][b]] = done[mSensors[d][b]]
  BY SensorsAt
<1>4. Sampled(d, p)'
  BY <1>1, <1>3 DEF Disposed, Sampled
<1>5. Collecting(d, p) => Collecting(d, p)'
  BY <1>3 DEF Collecting, DoneUpTo
<1>6. d = akm /\ Delivering(p) => Delivering(p)'
  BY <1>3 DEF Delivering, DoneUpTo
<1>7. Disposed(d, p)'
  BY <1>1, <1>4, <1>5, <1>6 DEF Disposed
<1>. QED  BY <1>1, <1>2, <1>7 DEF DriverInv

\* The steps that leave all events and samples alone.
LEMMA KeepAll ==
    ASSUME SampleInv, UNCHANGED <<produced, kernel, readVars>>
    PROVE  SampleInv'
<1>1. UNCHANGED <<produced, kernel, ring, sample, done, mPendingMask>>
  BY DEF readVars
<1>2. \A d \in Drivers : Unread(d)' = Unread(d)
  BY <1>1 DEF Unread
<1>3. \A d \in Drivers : DriverInv(d)'
  BY <1>1, <1>2, KeepDriver DEF SampleInv
<1>. QED  BY <1>1, <1>3 DEF SampleInv

LEMMA MovedEvents ==
    ASSUME NEW S, NEW r \in Seq(S), NEW q \in Seq(S), NEW k \in 1..Len(q)
    PROVE  (r \o SubSeq(q, 1, k)) \o SubSeq(q, k + 1, Len(q)) = r \o q
<1>1. SubSeq(q, 1, k) \o SubSeq(q, k + 1, Len(q)) = SubSeq(q, 1, Len(q))
  <2>1. 1 \in 1..(Len(q) + 1) /\ k \in (1 - 1)..Len(q) /\ Len(q) \in k..Len(q)
    OBVIOUS
  <2>. QED  BY <2>1, ConcatAdjacentSubSeq
<1>2. SubSeq(q, 1, Len(q)) = q
  BY SubSeqFull
<1>3. SubSeq(q, 1, k) \in Seq(S) /\ SubSeq(q, k + 1, Len(q)) \in Seq(S)
  BY SplitType
<1> DEFINE a == SubSeq(q, 1, k)
           b == SubSeq(q, k + 1, Len(q))
<1>4. a \in Seq(S) /\ b \in Seq(S)
  BY <1>3
<1>5. a \o b = q
  BY <1>1, <1>2
<1>6. ASSUME NEW x \in Seq(S), NEW y \in Seq(S) PROVE (r \o x) \o y = r \o (x \o y)
  BY SMTT(30)
<1>. HIDE DEF a, b
<1>7. (r \o a) \o b = r \o (a \o b)
  BY <1>4, <1>6
<1>. QED  BY <1>5, <1>7 DEF a, b

\* What fill moves stays unread, and in order.
LEMMA FillKeeps ==
    ASSUME TypeOK, SampleInv, Fill
    PROVE  SampleInv'
<1>1. i \in Drivers /\ UNCHANGED <<produced, sample, done, mPendingMask>>
  BY TypeParts DEF Fill, ScanTypes
<1>2. ASSUME NEW d \in Drivers PROVE Unread(d)' = Unread(d)
  <2>1. CASE UNCHANGED <<ring, kernel>>
    BY <2>1 DEF Unread
  <2>2. ASSUME NEW k \in 1..Len(kernel[i]),
               ring' = [ring EXCEPT ![i] = @ \o SubSeq(kernel[i], 1, k)],
               kernel' = [kernel EXCEPT ![i] = SubSeq(@, k + 1, Len(@))]
        PROVE  Unread(d)' = Unread(d)
    <3>1. DOMAIN ring = Drivers /\ DOMAIN kernel = Drivers
      BY TypeParts DEF DeviceTypes, RingTypes
    <3>2. CASE d = i
      <4>1. /\ ring'[d] = ring[d] \o SubSeq(kernel[d], 1, k)
            /\ kernel'[d] = SubSeq(kernel[d], k + 1, Len(kernel[d]))
            /\ k \in 1..Len(kernel[d])
        BY <2>2, <3>1, <3>2
      <4>2. ring[d] \in Seq(EventsOf(d)) /\ kernel[d] \in Seq(EventsOf(d))
        BY UnreadType
      <4>3. (ring[d] \o SubSeq(kernel[d], 1, k)) \o SubSeq(kernel[d], k + 1, Len(kernel[d]))
              = ring[d] \o kernel[d]
        BY <4>1, <4>2, MovedEvents
      <4>. QED  BY <4>1, <4>3 DEF Unread
    <3>3. CASE d # i
      BY <2>2, <3>1, <3>3 DEF Unread
    <3>. QED  BY <3>2, <3>3
  <2>. QED  BY <2>1, <2>2 DEF Fill
<1>3. \A d \in Drivers : DriverInv(d)'
  BY <1>1, <1>2, KeepDriver DEF SampleInv
<1>. QED  BY <1>1, <1>3 DEF SampleInv

\* What a device reports is unread, after all it reported before.
LEMMA ProduceKeeps ==
    ASSUME TypeOK, SampleInv, NEW e \in Drivers, Produce(e)
    PROVE  SampleInv'
<1>1. /\ UNCHANGED <<ring, sample, done, mPendingMask>>
      /\ \A d \in Drivers : produced'[d] = IF d = e THEN produced[e] + 1 ELSE produced[d]
      /\ \A d \in Drivers : kernel'[d] = IF d = e THEN kernel[e] \o Report(e, produced[e] + 1)
                                                  ELSE kernel[d]
  BY TypeParts DEF Produce, readVars, DeviceTypes
<1>2. ASSUME NEW d \in Drivers, d # e PROVE DriverInv(d)'
  <2>1. Unread(d)' = Unread(d) /\ produced'[d] = produced[d]
    BY <1>1, <1>2 DEF Unread
  <2>. QED  BY <1>1, <2>1, KeepDriver DEF SampleInv
<1>3. DriverInv(e)'
  <2> DEFINE R == Report(e, produced[e] + 1)
  <2>1. PICK p \in Places(e) : From(e, p, Unread(e), produced[e]) /\ Disposed(e, p)
    BY DEF SampleInv, DriverInv
  <2>2. produced[e] \in Nat /\ produced[e] + 1 \in 1..MaxSamples /\ produced[e] + 1 \in Nat
    <3>1. produced[e] \in 0..MaxSamples /\ produced[e] < MaxSamples
      BY TypeParts DEF Produce, DeviceTypes
    <3>. QED  BY <3>1, Sizes
  <2>3. R \in Seq(EventsOf(e))
    BY <2>2, ReportType
  <2>4. /\ Len(R) = Size(e) + 1
        /\ \A x \in 1..(Size(e) + 1) : R[x] = EventAt(e, [a |-> x, k |-> produced[e] + 1])
    BY <2>2, ReportAt
  <2>. HIDE DEF R
  <2>5. From(e, p, Unread(e) \o R, produced[e] + 1)
    BY <2>1, <2>2, <2>3, <2>4, UnreadType, ExtendOrder
  <2>6. Unread(e)' = Unread(e) \o R
    <3>1. Unread(e)' = ring[e] \o (kernel[e] \o R)
      BY <1>1 DEF Unread, R
    <3> DEFINE E == EventsOf(e)
               r == ring[e]
               q == kernel[e]
    <3>2. r \in Seq(E) /\ q \in Seq(E) /\ R \in Seq(E)
      BY <2>3, UnreadType
    <3>. HIDE DEF E, r, q
    <3>3. (r \o q) \o R = r \o (q \o R)
      BY <3>2
    <3>. QED  BY <3>1, <3>3 DEF Unread, r, q
  <2>7. From(e, p, Unread(e)', produced'[e])
    BY <1>1, <2>5, <2>6
  <2>8. Disposed(e, p)'
    BY <1>1, <2>1 DEF Disposed, Sampled, Collecting, Delivering, DoneUpTo
  <2>. QED  BY <2>1, <2>7, <2>8 DEF DriverInv
<1>4. \A d \in Drivers : DriverInv(d)'
  BY <1>2, <1>3
<1>. QED  BY <1>1, <1>4 DEF SampleInv

\* The event that readEvents takes is the one at the place p of its driver.
LEMMA ReadHead ==
    ASSUME TypeOK, SampleInv, ReadEvent, NEW d, d = i
    PROVE  /\ d \in Drivers
           /\ \E p \in Places(d) :
                 /\ Head(ring[d]) = EventAt(d, p) /\ Disposed(d, p)
                 /\ p.k <= produced[d]
                 /\ From(d, p, Unread(d), produced[d])
                 /\ From(d, NextPlace(d, p), Tail(Unread(d)), produced[d])
           /\ NextEvent => Unread(d)' = Tail(Unread(d))
           /\ UNCHANGED ring => Unread(d)' = Unread(d)
<1>1. d \in Drivers /\ ring[d] # <<>> /\ kernel' = kernel /\ DOMAIN ring = Drivers
  BY TypeParts DEF ReadEvent, ScanTypes, RingTypes, kernelVars
<1>2. /\ ring[d] \in Seq(EventsOf(d)) /\ kernel[d] \in Seq(EventsOf(d))
      /\ Unread(d) \in Seq(EventsOf(d)) /\ produced[d] \in Nat
  BY <1>1, UnreadType
<1>3. Unread(d) # <<>> /\ Unread(d)[1] = Head(ring[d]) /\ Tail(Unread(d)) = Tail(ring[d]) \o kernel[d]
  BY SMTT(30), <1>1, <1>2, TakeFromRing DEF Unread
<1>4. PICK p \in Places(d) : From(d, p, Unread(d), produced[d]) /\ Disposed(d, p)
  BY <1>1 DEF SampleInv, DriverInv
<1>5. /\ Unread(d)[1] = EventAt(d, p) /\ p.k <= produced[d]
      /\ From(d, NextPlace(d, p), Tail(Unread(d)), produced[d])
  BY <1>1, <1>2, <1>3, <1>4, TakeOrder
<1>6. NextEvent => Unread(d)' = Tail(Unread(d))
  BY <1>1, <1>3 DEF NextEvent, Unread
<1>7. UNCHANGED ring => Unread(d)' = Unread(d)
  BY <1>1 DEF Unread
<1>. QED  BY <1>1, <1>3, <1>4, <1>5, <1>6, <1>7

\* The other drivers keep their events and their samples.
LEMMA OtherDrivers ==
    ASSUME TypeOK, SampleInv, ReadEvent, i # akm => mPendingMask' = mPendingMask,
           \A s \in Sensors \ SensorsOf(i) : sample'[s] = sample[s] /\ done'[s] = done[s]
    PROVE  \A d \in Drivers : d # i => DriverInv(d)'
<1> SUFFICES ASSUME NEW d \in Drivers, d # i PROVE DriverInv(d)'
  OBVIOUS
<1>1. i \in Drivers /\ kernel' = kernel /\ produced' = produced /\ DOMAIN ring = Drivers
  BY TypeParts DEF ReadEvent, ScanTypes, RingTypes, kernelVars
<1>2. ring'[d] = ring[d]
  BY <1>1 DEF ReadEvent, ReadRel, ReadSynSingle, ReadSynAkm, NextEvent
<1>3. Unread(d)' = Unread(d)
  BY <1>1, <1>2 DEF Unread
<1>4. SensorsOf(d) \cap SensorsOf(i) = {}
  BY <1>1, DriverAssumption
<1>5. SensorsOf(d) \subseteq Sensors
  BY DEF Sensors
<1>. QED  BY <1>1, <1>3, <1>4, <1>5, KeepDriver DEF SampleInv

\* What a read that takes an EV_REL, or an EV_SYN, says of the place.
LEMMA PlaceOf ==
    ASSUME NEW d \in Drivers, NEW p \in Places(d)
    PROVE  /\ p.a \in 1..(Size(d) + 1) /\ p.k \in Nat \ {0}
           /\ EventAt(d, p).type = "EV_REL" => p.a <= Size(d)
           /\ EventAt(d, p) = Syn => p.a = Size(d) + 1
           /\ p.a <= Size(d) => /\ EventAt(d, p).sensor = mSensors[d][p.a]
                                /\ EventAt(d, p).sample = p.k
<1>1. Size(d) \in Nat /\ p.a \in 1..(Size(d) + 1) /\ p.k \in Nat \ {0}
  BY SensorsAt DEF Places
<1>2. Syn.type = "EV_SYN"
  BY DEF Syn
<1>3. CASE p.a <= Size(d)
  <2>1. EventAt(d, p) = Rel(mSensors[d][p.a], p.k)
    BY <1>3 DEF EventAt
  <2>2. /\ EventAt(d, p).type = "EV_REL" /\ EventAt(d, p).sensor = mSensors[d][p.a]
        /\ EventAt(d, p).sample = p.k
    BY <2>1 DEF Rel
  <2>. QED  BY <1>1, <1>2, <1>3, <2>2
<1>4. CASE ~(p.a <= Size(d))
  <2>1. EventAt(d, p) = Syn
    BY <1>4 DEF EventAt
  <2>. QED  BY <1>1, <1>2, <1>4, <2>1
<1>. QED  BY <1>3, <1>4

\* The sensors of a driver belong to it.
LEMMA DriverOfSensor ==
    ASSUME NEW d \in Drivers, NEW s \in SensorsOf(d)
    PROVE  DriverOf(s) = d
<1>1. \A e \in Drivers : s \in SensorsOf(e) => e = d
  BY DriverAssumption
<1>. QED  BY <1>1 DEF DriverOf

\* Every step of readEvents disposes of at most one sample: the next one of a
\* sensor whose device has reported it.
NextSample ==
    \/ done' = done
    \/ \E s \in Sensors : /\ done[s] < produced[DriverOf(s)]
                          /\ done' = [done EXCEPT ![s] = @ + 1]

LEMMA ReadRelKeeps ==
    ASSUME TypeOK, SampleInv, ReadEvent, ReadRel
    PROVE  SampleInv' /\ NextSample
<1> DEFINE m == mSensors[i]
           L == Size(i)
<1>1. i \in Drivers
  BY ReadHead
<1>2. PICK p \in Places(i) :
         /\ Head(ring[i]) = EventAt(i, p) /\ Disposed(i, p)
         /\ From(i, NextPlace(i, p), Tail(Unread(i)), produced[i])
  BY ReadHead
<1>3. /\ p.a \in 1..L /\ p.k \in Nat \ {0} /\ L \in Nat \ {0}
      /\ Head(ring[i]).sensor = m[p.a] /\ Head(ring[i]).sample = p.k
  <2>1. EventAt(i, p).type = "EV_REL"
    BY <1>2 DEF ReadRel
  <2>. QED  BY <1>1, <1>2, <2>1, PlaceOf, SensorsAt
<1>4. /\ sample' = [sample EXCEPT ![m[p.a]] = p.k] /\ done' = done
      /\ mPendingMask' = IF i = akm THEN mPendingMask \cup {m[p.a]} ELSE mPendingMask
      /\ NextEvent
  BY <1>3 DEF ReadRel
<1>5. m[p.a] \in Sensors /\ m[p.a] \in SensorsOf(i)
  BY <1>1, <1>3, SensorsAt
<1>6. \A d \in Drivers : d # i => DriverInv(d)'
  BY <1>4, <1>5, OtherDrivers DEF SampleInv
<1>7. ASSUME NEW d \in Drivers, d = i PROVE DriverInv(d)'
  <2> DEFINE q == [a |-> p.a + 1, k |-> p.k]
  <2>1. NextPlace(d, p) = q /\ q \in Places(d) /\ q.a = p.a + 1 /\ q.k = p.k
    BY <1>3, <1>7 DEF NextPlace, Places
  <2>2. From(d, q, Unread(d)', produced'[d])
    <3>1. Unread(d)' = Tail(Unread(d))
      BY <1>4, <1>7, ReadHead
    <3>2. produced' = produced
      BY DEF ReadEvent, kernelVars
    <3>. QED  BY <1>2, <1>7, <2>1, <3>1, <3>2
  <2>. HIDE DEF q
  <2>3. Sampled(d, p) /\ DoneUpTo(d, 1, p.k)
        /\ (d = akm => mPendingMask = {mSensors[d][b] : b \in 1..(p.a - 1)})
    BY <1>2, <1>3, <1>7 DEF Disposed, Collecting
  <2>4. Sampled(d, q)'
    <3>1. \A b \in 1..L : m[b] \in Sensors /\ (m[b] = m[p.a] => b = p.a)
      BY <1>1, <1>3, SensorsAt
    <3>2. ASSUME NEW b \in 1..L
          PROVE  sample'[m[b]] = IF b < p.a + 1 THEN p.k ELSE p.k - 1
      <4>1. CASE b = p.a
        BY <1>3, <1>4, <1>5, <4>1 DEF SampleInv
      <4>2. CASE b # p.a
        <5>1. sample'[m[b]] = sample[m[b]]
          BY <1>3, <1>4, <3>1, <4>2 DEF SampleInv
        <5>2. sample[m[b]] = IF b < p.a THEN p.k ELSE p.k - 1
          BY <1>7, <2>3 DEF Sampled
        <5>3. b < p.a <=> b < p.a + 1
          BY <1>3, <4>2
        <5>. QED  BY <5>1, <5>2, <5>3
      <4>. QED  BY <4>1, <4>2
    <3>. QED  BY <1>7, <2>1, <3>2 DEF Sampled
  <2>5. DoneUpTo(d, 1, q.k)'
    BY <1>4, <2>1, <2>3 DEF DoneUpTo
  <2>6. d = akm => mPendingMask' = {mSensors[d][b] : b \in 1..p.a}
    <3>1. 1..p.a = (1..(p.a - 1)) \cup {p.a}
      BY <1>3
    <3>. QED  BY <1>4, <1>7, <2>3, <3>1
  <2>7. Disposed(d, q)'
    <3>1. CASE d = akm /\ q.a > Size(d)
      <4>1. p.a = Size(akm) /\ 1 \in 1..Size(akm)
        BY <1>3, <1>7, <2>1, <3>1
      <4>2. Delivering(q)'
        BY <2>5, <2>6, <3>1, <4>1 DEF Delivering
      <4>. QED  BY <2>4, <3>1, <4>2 DEF Disposed
    <3>2. CASE ~(d = akm /\ q.a > Size(d))
      <4>1. (p.a + 1) - 1 = p.a
        BY <1>3
      <4>2. Collecting(d, q)'
        BY <2>1, <2>5, <2>6, <4>1 DEF Collecting
      <4>. QED  BY <2>4, <3>2, <4>2 DEF Disposed
    <3>. QED  BY <3>1, <3>2
  <2>. QED  BY <2>1, <2>2, <2>7 DEF DriverInv
<1>8. sample' \in [Sensors -> Nat] /\ done' \in [Sensors -> Nat]
  BY <1>3, <1>4 DEF SampleInv
<1>9. \A d \in Drivers : DriverInv(d)'
  BY <1>6, <1>7
<1>. QED  BY <1>4, <1>8, <1>9 DEF SampleInv, NextSample

LEMMA ReadSynSingleKeeps ==
    ASSUME TypeOK, SampleInv, ReadEvent, ReadSynSingle
    PROVE  SampleInv' /\ NextSample
<1>1. i \in Drivers /\ i # akm
  BY ReadHead DEF ReadSynSingle
<1> DEFINE s == mSensors[i][1]
<1>2. Size(i) = 1 /\ s \in Sensors /\ SensorsOf(i) = {s}
  BY <1>1, SensorsAt
<1>3. PICK p \in Places(i) :
         /\ Head(ring[i]) = EventAt(i, p) /\ Disposed(i, p)
         /\ p.k <= produced[i]
         /\ From(i, NextPlace(i, p), Tail(Unread(i)), produced[i])
  BY ReadHead
<1>4. p.a = 2 /\ p.k \in Nat \ {0}
  BY <1>1, <1>2, <1>3, PlaceOf DEF ReadSynSingle
<1>5. sample[s] = p.k /\ done[s] = p.k - 1
  <2>1. Sampled(i, p) /\ DoneUpTo(i, 1, p.k)
    BY <1>1, <1>3 DEF Disposed, Collecting
  <2>. QED  BY <1>2, <1>4, <2>1 DEF Sampled, DoneUpTo
<1>6. done' = [done EXCEPT ![s] = p.k] /\ NextEvent /\ UNCHANGED <<sample, mPendingMask>>
  BY <1>2, <1>5 DEF ReadSynSingle, Deliver
<1>. HIDE DEF s
<1>7. \A d \in Drivers : d # i => DriverInv(d)'
  BY <1>2, <1>6, OtherDrivers DEF SampleInv
<1>8. ASSUME NEW d \in Drivers, d = i PROVE DriverInv(d)'
  <2> DEFINE q == [a |-> 1, k |-> p.k + 1]
  <2>1. NextPlace(d, p) = q /\ q \in Places(d) /\ q.a = 1 /\ q.k = p.k + 1
    BY <1>2, <1>4, <1>8 DEF NextPlace, Places
  <2>2. From(d, q, Unread(d)', produced'[d])
    <3>1. Unread(d)' = Tail(Unread(d))
      BY <1>6, <1>8, ReadHead
    <3>2. produced' = produced
      BY DEF ReadEvent, kernelVars
    <3>. QED  BY <1>3, <1>8, <2>1, <3>1, <3>2
  <2>. HIDE DEF q
  <2>3. sample'[s] = p.k /\ done'[s] = p.k /\ (p.k + 1) - 1 = p.k
    BY <1>2, <1>4, <1>5, <1>6 DEF SampleInv
  <2>4. Size(d) = 1 /\ mSensors[d][1] = s /\ 1..1 = {1}
    BY <1>2, <1>8 DEF s
  <2>5. Sampled(d, q)' /\ DoneUpTo(d, 1, q.k)'
    BY <2>1, <2>3, <2>4 DEF Sampled, DoneUpTo
  <2>6. Disposed(d, q)'
    BY <1>1, <1>8, <2>5 DEF Disposed, Collecting
  <2>. QED  BY <2>1, <2>2, <2>6 DEF DriverInv
<1>9. sample' \in [Sensors -> Nat] /\ done' \in [Sensors -> Nat]
  BY <1>4, <1>6 DEF SampleInv
<1>10. \A d \in Drivers : DriverInv(d)'
  BY <1>7, <1>8
<1>11. NextSample
  <2>1. DriverOf(s) = i
    BY <1>1, <1>2, DriverOfSensor
  <2>2. produced[i] \in Nat
    BY <1>1, UnreadType
  <2>3. done[s] < produced[DriverOf(s)] /\ p.k = done[s] + 1
    BY <1>3, <1>4, <1>5, <2>1, <2>2
  <2>. QED  BY <1>2, <1>6, <2>3 DEF NextSample
<1>. QED  BY <1>9, <1>10, <1>11 DEF SampleInv

\* The compass delivers in the order of its sensors.
LEMMA FirstPendingIs ==
    ASSUME NEW c \in 1..Size(akm), mPendingMask = {mSensors[akm][b] : b \in c..Size(akm)}
    PROVE  /\ FirstPending = mSensors[akm][c]
           /\ mPendingMask \ {mSensors[akm][c]} = {mSensors[akm][b] : b \in (c + 1)..Size(akm)}
           /\ (c + 1)..Size(akm) = {} => c = Size(akm)
<1> DEFINE m == mSensors[akm]
           L == Size(akm)
           First(j) == m[j] \in mPendingMask /\ \A k \in 1..(j - 1) : m[k] \notin mPendingMask
<1>1. L \in Nat \ {0} /\ DOMAIN m = 1..L /\ \A b, e \in 1..L : m[b] = m[e] => b = e
  BY DriverAssumption, SensorsAt
<1>2. ASSUME NEW b \in 1..L PROVE m[b] \in mPendingMask <=> b >= c
  <2>1. b >= c => m[b] \in mPendingMask
    OBVIOUS
  <2>2. ASSUME NEW e \in c..L, m[b] = m[e] PROVE b >= c
    <3>1. e \in 1..L /\ e >= c
      OBVIOUS
    <3>2. b = e
      BY <1>1, <2>2, <3>1
    <3>. QED  BY <3>1, <3>2
  <2>. QED  BY <2>1, <2>2
<1>3. First(c) /\ \A j \in 1..L : First(j) => j = c
  BY <1>1, <1>2
<1>4. (CHOOSE j \in DOMAIN m : First(j)) = c
  BY <1>1, <1>3
<1>5. FirstPending = m[c]
  BY <1>4 DEF FirstPending
<1>6. \A b \in c..L : m[b] = m[c] <=> b = c
  <2>1. c..L \subseteq 1..L
    OBVIOUS
  <2>. QED  BY <1>1, <2>1
<1>7. c..L = ((c + 1)..L) \cup {c} /\ c \notin (c + 1)..L
  BY <1>1
<1>8. mPendingMask \ {m[c]} = {m[b] : b \in (c + 1)..L}
  BY <1>6, <1>7
<1>9. (c + 1)..L = {} => c = L
  BY <1>1
<1>. QED  BY <1>5, <1>8, <1>9

LEMMA ReadSynAkmKeeps ==
    ASSUME TypeOK, SampleInv, ReadEvent, ReadSynAkm
    PROVE  SampleInv' /\ NextSample
<1> DEFINE m == mSensors[akm]
           L == Size(akm)
<1>1. i = akm /\ akm \in Drivers
  BY DriverAssumption DEF ReadSynAkm
<1>2. PICK p \in Places(akm) :
         /\ Head(ring[akm]) = EventAt(akm, p) /\ Disposed(akm, p)
         /\ p.k <= produced[akm]
         /\ From(akm, p, Unread(akm), produced[akm])
         /\ From(akm, NextPlace(akm, p), Tail(Unread(akm)), produced[akm])
  BY <1>1, ReadHead
<1>3. p.a = L + 1 /\ p.k \in Nat \ {0} /\ L \in Nat \ {0}
  BY <1>1, <1>2, PlaceOf, SensorsAt DEF ReadSynAkm
<1>4. Sampled(akm, p) /\ Delivering(p)
  BY <1>2, <1>3 DEF Disposed
<1>5. PICK c \in 1..L : DoneUpTo(akm, c, p.k) /\ mPendingMask = {m[b] : b \in c..L}
  BY <1>4 DEF Delivering
<1>6. \A b \in 1..L : m[b] \in Sensors /\ m[b] \in SensorsOf(akm) /\ (m[b] = m[c] => b = c)
  BY <1>1, SensorsAt
<1>7. \A b \in 1..L : sample[m[b]] = p.k /\ done[m[b]] = IF b < c THEN p.k ELSE p.k - 1
  <2>1. \A b \in 1..L : done[m[b]] = IF b < c THEN p.k ELSE p.k - 1
    BY <1>5 DEF DoneUpTo
  <2>2. \A b \in 1..L : sample[m[b]] = IF b < p.a THEN p.k ELSE p.k - 1
    BY <1>4 DEF Sampled
  <2>3. \A b \in 1..L : b < p.a
    BY <1>3
  <2>. QED  BY <2>1, <2>2, <2>3
<1>8. /\ done' = [done EXCEPT ![m[c]] = p.k] /\ sample' = sample
      /\ mPendingMask' = {m[b] : b \in (c + 1)..L}
      /\ IF mPendingMask' = {} THEN NextEvent ELSE UNCHANGED ring
  <2>1. FirstPending = m[c] /\ mPendingMask \ {m[c]} = {m[b] : b \in (c + 1)..L}
    BY <1>5, FirstPendingIs
  <2>. QED  BY <1>7, <2>1 DEF ReadSynAkm, Deliver
<1>9. \A b \in 1..L : done'[m[b]] = IF b < c + 1 THEN p.k ELSE p.k - 1
  <2>1. ASSUME NEW b \in 1..L PROVE done'[m[b]] = IF b < c + 1 THEN p.k ELSE p.k - 1
    <3>1. CASE b = c
      BY <1>6, <1>8, <3>1 DEF SampleInv
    <3>2. CASE b # c
      <4>1. done'[m[b]] = done[m[b]]
        BY <1>6, <1>8, <3>2 DEF SampleInv
      <4>2. b < c <=> b < c + 1
        BY <3>2
      <4>. QED  BY <1>7, <4>1, <4>2
    <3>. QED  BY <3>1, <3>2
  <2>. QED  BY <2>1
<1>10. \A d \in Drivers : d # i => DriverInv(d)'
  BY <1>1, <1>6, <1>8, OtherDrivers DEF SampleInv
<1>11. produced' = produced
  BY DEF ReadEvent, kernelVars
<1>12. DriverInv(akm)'
  <2>1. CASE c < L
    <3>1. c + 1 \in 1..L /\ L \in (c + 1)..L
      BY <1>3, <2>1
    <3>2. mPendingMask' # {}
      BY <1>8, <3>1
    <3>3. Unread(akm)' = Unread(akm)
      BY <1>1, <1>8, <3>2, ReadHead
    <3>4. DoneUpTo(akm, c + 1, p.k)'
      BY <1>9 DEF DoneUpTo
    <3>5. Disposed(akm, p)'
      <4>1. Sampled(akm, p)'
        BY <1>4, <1>8 DEF Sampled
      <4>2. Delivering(p)'
        BY <1>8, <3>1, <3>4 DEF Delivering
      <4>. QED  BY <1>3, <4>1, <4>2 DEF Disposed
    <3>. QED  BY <1>2, <1>11, <3>3, <3>5 DEF DriverInv
  <2>2. CASE c = L
    <3> DEFINE q == [a |-> 1, k |-> p.k + 1]
    <3>1. NextPlace(akm, p) = q /\ q \in Places(akm) /\ q.a = 1 /\ q.k = p.k + 1
      BY <1>3 DEF NextPlace, Places
    <3>. HIDE DEF q
    <3>2. mPendingMask' = {}
      <4>1. (c + 1)..L = {}
        BY <1>3, <2>2
      <4>. QED  BY <1>8, <4>1
    <3>3. Unread(akm)' = Tail(Unread(akm))
      BY <1>1, <1>8, <3>2, ReadHead
    <3>4. From(akm, q, Unread(akm)', produced'[akm])
      BY <1>2, <1>11, <3>1, <3>3
    <3>5. (p.k + 1) - 1 = p.k /\ \A b \in 1..L : b < c + 1 /\ ~(b < 1)
      BY <1>3, <2>2
    <3>6. Sampled(akm, q)' /\ DoneUpTo(akm, 1, q.k)'
      BY <1>7, <1>8, <1>9, <3>1, <3>5 DEF Sampled, DoneUpTo
    <3>7. mPendingMask' = {m[b] : b \in 1..(q.a - 1)} /\ ~(q.a > L)
      <4>1. 1..(1 - 1) = {} /\ ~(1 > L)
        BY <1>3
      <4>. QED  BY <3>1, <3>2, <4>1
    <3>8. Disposed(akm, q)'
      BY <3>6, <3>7 DEF Disposed, Collecting
    <3>. QED  BY <3>1, <3>4, <3>8 DEF DriverInv
  <2>3. c < L \/ c = L
    BY <1>3
  <2>. QED  BY <2>1, <2>2, <2>3
<1>13. sample' \in [Sensors -> Nat] /\ done' \in [Sensors -> Nat]
  BY <1>3, <1>8 DEF SampleInv
<1>14. \A d \in Drivers : DriverInv(d)'
  BY <1>1, <1>10, <1>12
<1>15. NextSample
  <2>1. done[m[c]] = p.k - 1 /\ done'[m[c]] = p.k /\ m[c] \in Sensors
    BY <1>6, <1>7, <1>8 DEF SampleInv
  <2>2. DriverOf(m[c]) = akm
    BY <1>1, <1>6, DriverOfSensor
  <2>3. produced[akm] \in Nat
    BY <1>1, UnreadType
  <2>4. done[m[c]] < produced[DriverOf(m[c])] /\ p.k = done[m[c]] + 1
    BY <1>2, <1>3, <2>1, <2>2, <2>3
  <2>. QED  BY <1>8, <2>1, <2>4 DEF NextSample
<1>. QED  BY <1>13, <1>14, <1>15 DEF SampleInv

LEMMA SampleInit == Init => SampleInv
<1> SUFFICES ASSUME Init PROVE SampleInv
  OBVIOUS
<1>1. sample = [s \in Sensors |-> 0] /\ done = [s \in Sensors |-> 0] /\ mPendingMask = {}
  BY DEF Init
<1>2. ASSUME NEW d \in Drivers PROVE DriverInv(d)
  <2> DEFINE p == [a |-> 1, k |-> 1]
             P == [j \in 1..1 |-> p]
  <2>1. Size(d) \in Nat \ {0} /\ \A b \in 1..Size(d) : mSensors[d][b] \in Sensors
    BY SensorsAt
  <2>2. p \in Places(d) /\ p.a = 1 /\ p.k = 1
    BY <2>1 DEF Places
  <2>3. Unread(d) = <<>> /\ produced[d] = 0
    BY DEF Init, Unread
  <2>4. From(d, p, Unread(d), produced[d])
    <3>1. Len(Unread(d)) = 0 /\ 1..0 = {}
      BY <2>3
    <3>2. P \in [1..1 -> Places(d)] /\ P[1] = p
      BY <2>2
    <3>3. InOrder(d, Unread(d), P, produced[d])
      BY <2>3, <3>1 DEF InOrder
    <3>. QED  BY <3>1, <3>2, <3>3 DEF From
  <2>. HIDE DEF p
  <2>5. Sampled(d, p) /\ DoneUpTo(d, 1, p.k)
    BY <1>1, <2>1, <2>2 DEF Sampled, DoneUpTo
  <2>6. Disposed(d, p)
    <3>1. ~(1 > Size(d)) /\ 1..(1 - 1) = {}
      BY <2>1
    <3>2. {mSensors[d][b] : b \in 1..(p.a - 1)} = {}
      BY <2>2, <3>1
    <3>. QED  BY <1>1, <2>2, <2>5, <3>1, <3>2 DEF Disposed, Collecting
  <2>. QED  BY <2>2, <2>4, <2>6 DEF DriverInv
<1>. QED  BY <1>1, <1>2 DEF SampleInv

LEMMA SampleStep ==
    ASSUME TypeOK, SampleInv, [Next]_vars
    PROVE  SampleInv' /\ NextSample
<1>1. done' = done => NextSample
  BY DEF NextSample
<1>2. CASE UNCHANGED vars
  BY <1>1, <1>2, KeepAll DEF vars, kernelVars, readVars
<1>3. CASE Fill
  BY <1>1, <1>3, FillKeeps DEF Fill
<1>4. CASE ReadEvent
  BY <1>4, ReadRelKeeps, ReadSynSingleKeeps, ReadSynAkmKeeps DEF ReadEvent
<1>5. CASE CallPoll \/ Scan \/ EndRead \/ Poll \/ FillFails \/ PollFails
  <2>1. UNCHANGED <<kernelVars, readVars>>
    BY <1>5 DEF CallPoll, Scan, EndRead, Poll, FillFails, PollFails
  <2>. QED  BY <1>1, <2>1, KeepAll DEF kernelVars, readVars
<1>6. CASE Activator
  <2>1. UNCHANGED <<produced, kernel, readVars>>
    BY <1>6 DEF Activator, SwitchSensor, SetEnabled, WriteWake, kernelVars
  <2>. QED  BY <1>1, <2>1, KeepAll DEF readVars
<1>7. ASSUME NEW e \in Drivers, Produce(e) PROVE SampleInv' /\ NextSample
  BY <1>1, <1>7, ProduceKeeps DEF Produce, readVars
<1>8. ASSUME NEW s \in Sensors, NEW en \in BOOLEAN, Activate(s, en)
      PROVE  SampleInv' /\ NextSample
  <2>1. UNCHANGED <<kernelVars, readVars>>
    BY <1>8 DEF Activate
  <2>. QED  BY <1>1, <2>1, KeepAll DEF kernelVars, readVars
<1>. QED  BY <1>2, <1>3, <1>4, <1>5, <1>6, <1>7, <1>8 DEF Next, PollThread

\* Every sample of every sensor is disposed of exactly once and in order, across
\* calls that end in the middle of a report because the array is full.
NoSampleLost ==
    [][\A s \in Sensors : done'[s] \in {done[s], done[s] + 1}]_vars

\* NoSampleLost holds for all drivers and sizes.
THEOREM SamplesKept == Spec => NoSampleLost
<1>1. TypeOK /\ SampleInv /\ [Next]_vars => SampleInv'
  BY SampleStep
<1>2. TypeOK /\ SampleInv /\ [Next]_vars
         => [\A s \in Sensors : done'[s] \in {done[s], done[s] + 1}]_vars
  BY SampleStep DEF NextSample, SampleInv
<1>. QED  BY <1>1, <1>2, SampleInit, PollTypeCorrect, PTL DEF Spec, NoSampleLost

-----------------------------------------------------------------------------
(* The refinement of SampleStream.                                         *)

\* A device reports a sample of each of its sensors.
LEMMA ProduceReports ==
    ASSUME TypeOK, NEW d \in Drivers, Produce(d)
    PROVE  Stream!Next
<1> DEFINE device == SensorsOf(d)
           before == [s \in Sensors |-> produced[DriverOf(s)]]
<1>1. produced' = [produced EXCEPT ![d] = @ + 1] /\ DOMAIN produced = Drivers
  BY TypeParts DEF Produce, DeviceTypes
<1>2. UNCHANGED done
  BY DEF Produce, readVars
<1>3. ASSUME NEW s \in Sensors
      PROVE  produced'[DriverOf(s)]
               = IF s \in device THEN before[s] + 1 ELSE before[s]
  <2>1. PICK e \in Drivers : s \in SensorsOf(e)
    BY DEF Sensors
  <2>2. DriverOf(s) = e
    BY <2>1, DriverOfSensor
  <2>3. s \in device => e = d
    BY <2>1, DriverAssumption
  <2>. QED  BY <1>1, <2>1, <2>2, <2>3
<1>4. Stream!Report(device)
  BY <1>2, <1>3 DEF Stream!Report, Stream!Sensors, Sensors
<1>5. device \in {SensorsOf(e) : e \in Drivers}
  OBVIOUS
<1>. QED  BY <1>4, <1>5 DEF Stream!Next

\* A step of readEvents disposes of a sample, or of none.
LEMMA NextSampleDisposes ==
    ASSUME NextSample, UNCHANGED produced
    PROVE  [Stream!Next]_(Stream!vars)
<1>1. CASE done' = done
  BY <1>1 DEF Stream!vars
<1>2. ASSUME NEW s \in Sensors, done[s] < produced[DriverOf(s)],
             done' = [done EXCEPT ![s] = @ + 1]
      PROVE  Stream!Next
  <2>1. Stream!Dispose(s)
    BY <1>2 DEF Stream!Dispose
  <2>2. s \in Stream!Sensors
    BY <1>2 DEF Stream!Sensors, Sensors
  <2>. QED  BY <2>1, <2>2 DEF Stream!Next
<1>. QED  BY <1>1, <1>2 DEF NextSample

\* StreamSpec: pollEvents keeps the promise of SampleStream.  A report of a device
\* is a report there, a delivery disposes of a sample there, and nothing else
\* can be seen.
THEOREM StreamImplemented == Spec => StreamSpec
<1>1. Init => Stream!Init
  <2> SUFFICES ASSUME Init PROVE Stream!Init
    OBVIOUS
  <2>1. ASSUME NEW s \in Sensors PROVE produced[DriverOf(s)] = 0
    <3>1. PICK e \in Drivers : s \in SensorsOf(e)
      BY DEF Sensors
    <3>2. DriverOf(s) = e
      BY <3>1, DriverOfSensor
    <3>. QED  BY <3>1, <3>2 DEF Init
  <2>. QED  BY <2>1 DEF Init, Stream!Init, Stream!Sensors, Sensors
<1>2. ASSUME TypeOK, SampleInv, [Next]_vars
      PROVE  [Stream!Next]_(Stream!vars)
  <2>1. CASE \E d \in Drivers : Produce(d)
    BY <1>2, <2>1, ProduceReports
  <2>2. CASE ~\E d \in Drivers : Produce(d)
    <3>1. UNCHANGED produced
      BY <1>2, <2>2 DEF Next, PollThread, CallPoll, Scan, Fill, ReadEvent, EndRead,
         Poll, FillFails, PollFails, Activator, SwitchSensor, SetEnabled, WriteWake,
         Activate, kernelVars, vars
    <3>. QED  BY <1>2, <3>1, SampleStep, NextSampleDisposes
  <2>. QED  BY <2>1, <2>2
<1>3. TypeOK /\ SampleInv /\ [Next]_vars => SampleInv'
  BY SampleStep
<1>. QED
  BY <1>1, <1>2, <1>3, SampleInit, PollTypeCorrect, PTL
     DEF Spec, StreamSpec, Stream!Spec

-----------------------------------------------------------------------------
(* A call proceeds: each step of the poll thread takes an event, or a byte *)
(* from the wake pipe, or brings the next of these nearer.                 *)

\* The compass has finitely many pending events.
LEMMA PendingFinite ==
    ASSUME NEW S, S \subseteq SensorsOf(akm)
    PROVE  IsFiniteSet(S) /\ Cardinality(S) \in Nat
<1> DEFINE m == mSensors[akm]
           L == Size(akm)
           T == SensorsOf(akm)
<1>1. akm \in Drivers
  BY DriverAssumption
<1>2. L \in Nat /\ \A b \in 1..L : m[b] \in T
  BY <1>1, SensorsAt
<1>3. m \in Surjection(1..L, T)
  <2>1. mSensors[akm] \in Seq(Sensors)
    BY <1>1, DriverAssumption DEF Drivers
  <2>2. m \in [1..L -> T]
    BY <1>2, <2>1 DEF Size
  <2>3. \A t \in T : \E b \in 1..L : m[b] = t
    BY <2>1 DEF SensorsOf, Size
  <2>. HIDE DEF m, L, T
  <2>. QED  BY <2>2, <2>3 DEF Surjection
<1>4. IsFiniteSet(1..L)
  BY <1>2, FS_Interval
<1>. HIDE DEF m, L, T
<1>5. IsFiniteSet(T)
  BY <1>3, <1>4, FS_Surjection
<1>6. IsFiniteSet(S)
  BY <1>5, FS_Subset DEF T
<1>. QED  BY <1>6, FS_CardinalityType

\* The part of a driver's work that is to be delivered.
PendingOf(d) == IF d = akm THEN Cardinality(mPendingMask) ELSE 0

LEMMA SumType ==
    ASSUME NEW x \in Nat, NEW y \in Nat, NEW z \in Nat
    PROVE  3 * x + 2 * y + z \in Nat
OBVIOUS

LEMMA WorkTypes ==
    ASSUME TypeOK, NEW d \in Drivers
    PROVE  /\ Len(kernel[d]) \in Nat /\ Len(ring[d]) \in Nat /\ PendingOf(d) \in Nat
           /\ WorkOf(d) = 3 * Len(kernel[d]) + 2 * Len(ring[d]) + PendingOf(d)
           /\ WorkOf(d) \in Nat
<1>1. Len(kernel[d]) \in Nat /\ Len(ring[d]) \in Nat
  BY UnreadType
<1>2. PendingOf(d) \in Nat
  BY PendingFinite, TypeParts DEF PendingOf, PendingType
<1>3. WorkOf(d) = 3 * Len(kernel[d]) + 2 * Len(ring[d]) + PendingOf(d)
  BY DEF WorkOf, PendingOf
<1>4. 3 * Len(kernel[d]) + 2 * Len(ring[d]) + PendingOf(d) \in Nat
  BY <1>1, <1>2, SumType
<1>. QED  BY <1>1, <1>2, <1>3, <1>4

\* Less work is less of the call: x events leave the kernel, y events come to the
\* ring and z sensors to the mask.
LEMMA LessWork ==
    ASSUME TypeOK, TypeOK', NEW e \in Drivers, NEW x \in Int, NEW y \in Int, NEW z \in Int,
           Len(kernel[e])' = Len(kernel[e]) - x, Len(ring[e])' = Len(ring[e]) + y,
           PendingOf(e)' = PendingOf(e) + z, 2 * y + z < 3 * x,
           \A d \in Drivers : d # e => WorkOf(d)' = WorkOf(d)
    PROVE  CallLess
<1>1. /\ Len(kernel[e]) \in Nat /\ Len(ring[e]) \in Nat /\ PendingOf(e) \in Nat
      /\ WorkOf(e) = 3 * Len(kernel[e]) + 2 * Len(ring[e]) + PendingOf(e)
  BY WorkTypes
<1>2. Len(kernel[e])' \in Nat /\ Len(ring[e])' \in Nat
  BY TypePartsAfter DEF DeviceTypes, RingTypes
<1>3. PendingOf(e)' \in Nat
  BY PendingFinite, TypePartsAfter DEF PendingOf, PendingType
<1>4. WorkOf(e)' = 3 * Len(kernel[e])' + 2 * Len(ring[e])' + PendingOf(e)'
  BY DEF WorkOf, PendingOf
<1>5. WorkOf(e)' \in Nat
  BY <1>2, <1>3, <1>4, SumType
<1> DEFINE a == Len(kernel[e])
           b == Len(ring[e])
           c == PendingOf(e)
<1>6. WorkOf(e)' = 3 * (a - x) + 2 * (b + y) + (c + z)
  BY <1>4
<1>7. a \in Nat /\ b \in Nat /\ c \in Nat /\ WorkOf(e) = 3 * a + 2 * b + c
  BY <1>1
<1>. HIDE DEF a, b, c
<1>8. WorkOf(e)' < WorkOf(e)
  BY <1>6, <1>7
<1>9. ASSUME NEW d \in Drivers PROVE WorkOf(d)' \in 0..WorkOf(d)
  <2>1. WorkOf(d) \in Nat
    BY WorkTypes
  <2>2. CASE d = e
    BY <1>5, <1>8, <2>1, <2>2
  <2>3. CASE d # e
    BY <2>1, <2>3
  <2>. QED  BY <2>2, <2>3
<1>. QED  BY <1>8, <1>9 DEF CallLess

\* An event that leaves the ring adds at most one sensor to the mask.
LEMMA LessOfRing ==
    ASSUME TypeOK, TypeOK', NEW e \in Drivers, NEW z \in {0, 1}, Len(ring[e]) \in Nat,
           Len(kernel[e])' = Len(kernel[e]) - 0, Len(ring[e])' = Len(ring[e]) - 1,
           PendingOf(e)' = PendingOf(e) + z,
           \A d \in Drivers : d # e => WorkOf(d)' = WorkOf(d)
    PROVE  CallLess
<1>1. PICK x \in Int, y \in Int : x = 0 /\ y = -1
  OBVIOUS
<1>2. z \in Int /\ 2 * y + z < 3 * x
  BY <1>1
<1>3. Len(kernel[e])' = Len(kernel[e]) - x /\ Len(ring[e])' = Len(ring[e]) + y
  BY <1>1
<1>. QED  BY <1>2, <1>3, LessWork

\* The same work, and less of what comes next.
LEMMA SameWork ==
    ASSUME TypeOK, UNCHANGED <<kernel, ring, mPendingMask>>,
           \/ pipe' \in 0..(pipe - 1)
           \/ pipe' = pipe /\ StageLeft' \in 0..(StageLeft - 1)
           \/ /\ pipe' = pipe /\ StageLeft' = StageLeft
              /\ TurnsLeft' \in 0..(TurnsLeft - 1)
    PROVE  CallLess
<1>1. ASSUME NEW d \in Drivers PROVE WorkOf(d)' \in 0..WorkOf(d)
  <2>1. WorkOf(d)' = WorkOf(d)
    BY DEF WorkOf
  <2>2. WorkOf(d) \in Nat
    BY WorkTypes
  <2>. QED  BY <2>1, <2>2
<1>. QED  BY <1>1 DEF CallLess

\* A driver is read only when there is room.
RoomInv == pc = "fill" => count # 0

LEMMA RoomStep ==
    ASSUME RoomInv, [Next]_vars
    PROVE  RoomInv'
<1> USE DEF RoomInv
<1>1. CASE PollThread \/ FillFails \/ PollFails
  BY <1>1 DEF PollThread, CallPoll, Scan, Fill, ReadEvent, EndRead, Poll, FillFails, PollFails
<1>2. CASE Activator
  BY <1>2 DEF Activator, SwitchSensor, SetEnabled, WriteWake, scanVars
<1>3. ASSUME NEW d \in Drivers, Produce(d) PROVE RoomInv'
  BY <1>3 DEF Produce, scanVars
<1>4. ASSUME NEW s \in Sensors, NEW en \in BOOLEAN, Activate(s, en) PROVE RoomInv'
  BY <1>4 DEF Activate, scanVars
<1>5. CASE UNCHANGED vars
  BY <1>5 DEF vars, scanVars
<1>. QED  BY <1>1, <1>2, <1>3, <1>4, <1>5 DEF Next

\* The loop over the drivers, the end of readEvents and the poll.
LEMMA LoopLess ==
    ASSUME TypeOK, TypeOK', Scan \/ EndRead \/ Poll, pc' # "idle"
    PROVE  CallLess
<1>a. ScanTypes /\ PipeType
  BY TypeParts
<1>b. UNCHANGED <<kernel, ring, mPendingMask>>
  BY DEF Scan, EndRead, Poll, kernelVars, readVars
<1>1. CASE Scan
  <2>1. pc = "scan" /\ UNCHANGED <<pipe, revents, count>>
    BY <1>1 DEF Scan
  <2>2. CASE pc' = "fill"
    <3>1. i \in revents /\ i' = i /\ i \in Nat
      BY <1>1, <1>a, <2>1, <2>2, Sizes DEF Scan, ScanTypes
    <3>2. StageLeft = 2 /\ StageLeft' = 1
      BY <2>1, <2>2, <3>1 DEF StageLeft, Ahead
    <3>. QED  BY <1>b, <2>1, <3>2, SameWork
  <2>3. CASE pc' = "scan"
    <3>1. i \in Drivers /\ i \notin revents /\ i' = i + 1
      BY <1>1, <2>3 DEF Scan
    <3>2. Ahead' <=> Ahead
      BY <1>a, <2>1, <3>1, Sizes DEF Ahead, ScanTypes
    <3>3. StageLeft' = StageLeft
      BY <2>1, <2>3, <3>2 DEF StageLeft
    <3>4. TurnsLeft' \in 0..(TurnsLeft - 1)
      BY <3>1, Sizes DEF TurnsLeft
    <3>. QED  BY <1>b, <2>1, <3>3, <3>4, SameWork
  <2>4. CASE pc' = "poll"
    <3>1. i \notin Drivers
      BY <1>1, <2>4 DEF Scan
    <3>2. ~Ahead
      BY <1>a, <3>1, Sizes DEF Ahead, ScanTypes
    <3>3. StageLeft = 4 /\ StageLeft' = 3
      BY <2>1, <2>4, <3>2 DEF StageLeft
    <3>. QED  BY <1>b, <2>1, <3>3, SameWork
  <2>5. pc' \in {"scan", "fill", "poll"}
    BY <1>1, <2>1 DEF Scan
  <2>. QED  BY <2>2, <2>3, <2>4, <2>5
<1>2. CASE EndRead
  <2>1. /\ pc = "read" /\ pc' = "scan" /\ pipe' = pipe
        /\ got = count \/ ring[i] = <<>>
    BY <1>2 DEF EndRead
  <2>2. ~(got < count /\ ring[i] # <<>>)
    BY <1>a, <2>1 DEF ScanTypes
  <2>3. StageLeft = 5 /\ StageLeft' \in {2, 4}
    BY <2>1, <2>2 DEF StageLeft
  <2>. QED  BY <1>b, <2>1, <2>3, SameWork
<1>3. CASE Poll
  <2>1. pc = "poll" /\ pc' = "scan" /\ n' # 0 /\ revents' = Ready /\ i' = 1
    BY <1>3 DEF Poll
  <2>2. pipe \in Nat
    BY <1>a, Sizes DEF PipeType
  <2>3. CASE pipe > 0
    <3>1. pipe' = pipe - 1
      BY <1>3, <2>3 DEF Poll
    <3>. QED  BY <1>b, <2>2, <2>3, <3>1, SameWork
  <2>4. CASE ~(pipe > 0)
    <3>1. pipe' = pipe
      BY <1>3, <2>2, <2>4 DEF Poll
    <3>2. Ready # {}
      BY <1>3, <2>1, <2>4 DEF Poll
    <3>3. Ahead'
      BY <2>1, <3>2, Sizes DEF Ahead, Ready
    <3>4. StageLeft = 3 /\ StageLeft' = 2
      BY <2>1, <3>3 DEF StageLeft
    <3>. QED  BY <1>b, <3>1, <3>4, SameWork
  <2>. QED  BY <2>3, <2>4
<1>. QED  BY <1>1, <1>2, <1>3

\* fill moves events to the ring, or the ring is full and is read next.
LEMMA FillLess ==
    ASSUME TypeOK, TypeOK', RoomInv, Fill
    PROVE  CallLess
<1>1. /\ i \in Drivers /\ pc = "fill" /\ pc' = "read" /\ got = 0 /\ count \in Nat \ {0}
      /\ UNCHANGED <<i, got, count, pipe, mPendingMask>>
  BY TypeParts DEF Fill, ScanTypes, scanVars, RoomInv
<1>2. /\ DOMAIN ring = Drivers /\ DOMAIN kernel = Drivers
      /\ ring[i] \in Seq(EventsOf(i)) /\ kernel[i] \in Seq(EventsOf(i))
  BY <1>1, UnreadType, TypeParts DEF DeviceTypes, RingTypes
<1>3. CASE Free(i) = 0 /\ UNCHANGED <<ring, kernel>>
  <2>1. Len(ring[i]) = numEvents /\ numEvents # 0
    BY <1>1, <1>2, <1>3, Sizes, DriverAssumption DEF Free
  <2>2. ring[i] # <<>>
    BY <1>2, <2>1
  <2>3. StageLeft = 1 /\ StageLeft' = 0
    BY <1>1, <1>3, <2>2 DEF StageLeft
  <2>. QED  BY <1>1, <1>3, <2>3, SameWork
<1>4. ASSUME NEW k \in 1..Len(kernel[i]),
             ring' = [ring EXCEPT ![i] = @ \o SubSeq(kernel[i], 1, k)],
             kernel' = [kernel EXCEPT ![i] = SubSeq(@, k + 1, Len(@))]
      PROVE  CallLess
  <2>1. PICK e \in Drivers : e = i
    BY <1>1
  <2> DEFINE E == EventsOf(e)
             moved == SubSeq(kernel[e], 1, k)
             rest == SubSeq(kernel[e], k + 1, Len(kernel[e]))
  <2>2. ring[e] \in Seq(E) /\ kernel[e] \in Seq(E)
    BY <1>2, <2>1
  <2>3. moved \in Seq(E) /\ Len(moved) = k
    BY <1>4, <2>1, <2>2, SplitType
  <2>4. Len(rest) = Len(kernel[e]) - k
    BY <1>4, <2>1, <2>2
  <2>5. ring'[e] = ring[e] \o moved /\ kernel'[e] = rest
    BY <1>2, <1>4, <2>1
  <2>. HIDE DEF E, moved, rest
  <2>6. Len(ring[e] \o moved) = Len(ring[e]) + k
    BY <2>2, <2>3, ConcatProperties
  <2>7. PendingOf(e)' = PendingOf(e) /\ PendingOf(e) \in Nat
    BY <1>1, WorkTypes DEF PendingOf
  <2>8. \A d \in Drivers : d # e => WorkOf(d)' = WorkOf(d)
    <3>1. ASSUME NEW d \in Drivers, d # e PROVE WorkOf(d)' = WorkOf(d)
      <4>1. ring'[d] = ring[d] /\ kernel'[d] = kernel[d]
        BY <1>2, <1>4, <2>1, <3>1
      <4>. QED  BY <1>1, <4>1 DEF WorkOf
    <3>. QED  BY <3>1
  <2>9. k \in Nat \ {0}
    BY <1>4
  <2>10. Len(kernel[e])' = Len(kernel[e]) - k /\ Len(ring[e])' = Len(ring[e]) + k
    BY <2>4, <2>5, <2>6
  <2>11. PendingOf(e)' = PendingOf(e) + 0 /\ 2 * k + 0 < 3 * k
    BY <2>7, <2>9
  <2>. QED  BY <2>8, <2>9, <2>10, <2>11, LessWork
<1>. QED  BY <1>3, <1>4 DEF Fill

\* readEvents takes an event from the ring, or delivers a pending one.
LEMMA ReadLess ==
    ASSUME TypeOK, TypeOK', SampleInv, ReadEvent
    PROVE  CallLess
<1>1. PICK e \in Drivers : e = i
  BY ReadHead
<1>2. /\ ring[e] # <<>> /\ DOMAIN ring = Drivers
      /\ kernel' = kernel /\ ring[e] \in Seq(EventsOf(e))
  BY <1>1, UnreadType, TypeParts DEF ReadEvent, kernelVars, RingTypes
<1>3. Len(ring[e]) \in Nat \ {0} /\ Len(kernel[e]) \in Nat /\ PendingOf(e) \in Nat
  <2>1. Len(ring[e]) \in Nat \ {0}
    BY <1>2
  <2>. QED  BY <2>1, WorkTypes
<1>4. NextEvent => Len(ring[e])' = Len(ring[e]) - 1
  BY <1>1, <1>2 DEF NextEvent
<1>5. Len(kernel[e])' = Len(kernel[e]) - 0
  BY <1>2, <1>3
<1>6. \A d \in Drivers : d # e => WorkOf(d)' = WorkOf(d)
  <2>1. \A d \in Drivers : d # e => ring'[d] = ring[d]
    BY <1>1, <1>2 DEF ReadEvent, ReadRel, ReadSynSingle, ReadSynAkm, NextEvent
  <2>2. e # akm => mPendingMask' = mPendingMask
    BY <1>1 DEF ReadEvent, ReadRel, ReadSynSingle, ReadSynAkm
  <2>. QED  BY <1>2, <2>1, <2>2 DEF WorkOf
<1>7. CASE ReadRel
  <2>1. PendingOf(e)' \in {PendingOf(e) + 0, PendingOf(e) + 1}
    <3>1. CASE e = akm
      <4>1. mPendingMask' = mPendingMask \cup {Head(ring[e]).sensor}
        BY <1>1, <1>7, <3>1 DEF ReadRel
      <4>2. IsFiniteSet(mPendingMask) /\ Cardinality(mPendingMask) \in Nat
        BY PendingFinite, TypeParts DEF PendingType
      <4>3. Cardinality(mPendingMask') \in {Cardinality(mPendingMask), Cardinality(mPendingMask) + 1}
        BY <4>1, <4>2, FS_AddElement
      <4>4. PendingOf(e)' = Cardinality(mPendingMask') /\ PendingOf(e) = Cardinality(mPendingMask)
        BY <3>1 DEF PendingOf
      <4>. QED  BY <4>2, <4>3, <4>4
    <3>2. CASE e # akm
      <4>1. PendingOf(e)' = 0 /\ PendingOf(e) = 0
        BY <3>2 DEF PendingOf
      <4>. QED  BY <4>1
    <3>. QED  BY <3>1, <3>2
  <2>2. Len(ring[e])' = Len(ring[e]) - 1
    BY <1>4, <1>7 DEF ReadRel
  <2>3. PICK z \in Int : PendingOf(e)' = PendingOf(e) + z /\ z \in {0, 1}
    BY <2>1
  <2>. QED  BY <1>3, <1>5, <1>6, <2>2, <2>3, LessOfRing
<1>8. CASE ReadSynSingle
  <2>1. PendingOf(e)' = PendingOf(e) + 0
    <3>1. PendingOf(e)' = PendingOf(e)
      BY <1>8 DEF ReadSynSingle, PendingOf
    <3>. QED  BY <1>3, <3>1
  <2>2. Len(ring[e])' = Len(ring[e]) - 1
    BY <1>4, <1>8 DEF ReadSynSingle
  <2>3. PICK z \in Int : PendingOf(e)' = PendingOf(e) + z /\ z \in {0, 1}
    BY <2>1
  <2>. QED  BY <1>3, <1>5, <1>6, <2>2, <2>3, LessOfRing
<1>9. CASE ReadSynAkm
  <2>1. e = akm
    BY <1>1, <1>9 DEF ReadSynAkm
  <2>2. FirstPending \in mPendingMask
    <3>1. PICK p \in Places(akm) : Head(ring[akm]) = EventAt(akm, p) /\ Disposed(akm, p)
      BY <1>1, <2>1, ReadHead
    <3>2. Head(ring[akm]) = Syn
      BY <1>1, <1>9, <2>1 DEF ReadSynAkm
    <3>3. p.a = Size(akm) + 1 /\ Size(akm) \in Nat \ {0}
      BY <3>1, <3>2, <2>1, PlaceOf, SensorsAt
    <3>4. Delivering(p)
      BY <3>1, <3>3 DEF Disposed
    <3>5. PICK c \in 1..Size(akm) : mPendingMask = {mSensors[akm][b] : b \in c..Size(akm)}
      BY <3>4 DEF Delivering
    <3>6. FirstPending = mSensors[akm][c] /\ c \in c..Size(akm)
      BY <3>3, <3>5, FirstPendingIs
    <3>. QED  BY <3>5, <3>6
  <2>3. IsFiniteSet(mPendingMask) /\ Cardinality(mPendingMask) \in Nat
    BY PendingFinite, TypeParts DEF PendingType
  <2>4. mPendingMask' = mPendingMask \ {FirstPending}
    BY <1>9 DEF ReadSynAkm
  <2>5. Cardinality(mPendingMask') = Cardinality(mPendingMask) - 1
    BY <2>2, <2>3, <2>4, FS_RemoveElement
  <2>6. PendingOf(e)' = Cardinality(mPendingMask') /\ PendingOf(e) = Cardinality(mPendingMask)
    BY <2>1 DEF PendingOf
  <2>7. PendingOf(e)' = PendingOf(e) + (-1)
    BY <2>3, <2>5, <2>6
  <2>8. PICK y \in Int : Len(ring[e])' = Len(ring[e]) + y /\ y <= 0
    <3>1. CASE NextEvent
      <4>1. PICK y \in Int : y = -1
        OBVIOUS
      <4>2. Len(ring[e])' = Len(ring[e]) + y /\ y <= 0
        BY <1>3, <1>4, <3>1, <4>1
      <4>. QED  BY <4>2
    <3>2. CASE UNCHANGED ring
      <4>1. PICK y \in Int : y = 0
        OBVIOUS
      <4>2. Len(ring[e])' = Len(ring[e]) + y /\ y <= 0
        BY <1>3, <3>2, <4>1
      <4>. QED  BY <4>2
    <3>3. NextEvent \/ UNCHANGED ring
      BY <1>9 DEF ReadSynAkm
    <3>. QED  BY <3>1, <3>2, <3>3
  <2>9. PICK x \in Int, z \in Int : x = 0 /\ z = -1
    OBVIOUS
  <2>10. 2 * y + z < 3 * x
    BY <2>8, <2>9
  <2>11. Len(kernel[e])' = Len(kernel[e]) - x /\ PendingOf(e)' = PendingOf(e) + z
    BY <1>5, <2>7, <2>9
  <2>. QED  BY <1>6, <2>8, <2>10, <2>11, LessWork
<1>. QED  BY <1>7, <1>8, <1>9 DEF ReadEvent

LEMMA CallStep ==
    ASSUME TypeOK, TypeOK', SampleInv, RoomInv, [Next]_vars, pc # "idle", pc' # "idle"
    PROVE  \/ CallLess
           \/ UNCHANGED <<pc, scanVars, readVars, kernel, pipe>>
           \/ produced' # produced \/ pipe' > pipe \/ faults' # faults
<1>1. CASE Scan \/ EndRead \/ Poll
  BY <1>1, LoopLess
<1>2. CASE Fill
  BY <1>2, FillLess
<1>3. CASE ReadEvent
  BY <1>3, ReadLess
<1>4. CASE CallPoll \/ PollFails
  BY <1>4 DEF CallPoll, PollFails
<1>5. CASE FillFails
  <2>1. faults \in [{"read", "poll"} -> Nat] /\ faults'["read"] = faults["read"] + 1
    BY <1>5, TypeParts DEF FillFails, FaultTypes
  <2>. QED  BY <2>1
<1>6. CASE Activator
  <2>1. UNCHANGED <<pc, scanVars, readVars, kernel>>
    BY <1>6 DEF Activator, SwitchSensor, SetEnabled, WriteWake, kernelVars
  <2>2. pipe' = pipe \/ pipe' = pipe + 1
    BY <1>6 DEF Activator, SwitchSensor, SetEnabled, WriteWake
  <2>3. pipe \in Nat
    BY TypeParts, Sizes DEF PipeType
  <2>. QED  BY <2>1, <2>2, <2>3
<1>7. ASSUME NEW d \in Drivers, Produce(d) PROVE produced' # produced
  <2>1. produced \in [Drivers -> 0..MaxSamples] /\ produced' = [produced EXCEPT ![d] = @ + 1]
    BY <1>7, TypeParts DEF Produce, DeviceTypes
  <2>2. produced'[d] = produced[d] + 1 /\ produced[d] \in Int
    BY <2>1, Sizes
  <2>. QED  BY <2>2
<1>8. ASSUME NEW s \in Sensors, NEW en \in BOOLEAN, Activate(s, en)
      PROVE  UNCHANGED <<pc, scanVars, readVars, kernel, pipe>>
  BY <1>8 DEF Activate, kernelVars
<1>9. CASE UNCHANGED vars
  BY <1>9 DEF vars, kernelVars
<1>. QED
  BY <1>1, <1>2, <1>3, <1>4, <1>5, <1>6, <1>7, <1>8, <1>9 DEF Next, PollThread

\* CallProceeds: a call of pollEvents does not spin, for all drivers and sizes,
\* and whatever is switched or reported while it runs.
THEOREM CallsProceed == Spec => CallProceeds
<1>1. Init => RoomInv
  BY DEF Init, RoomInv
<1>2. TypeOK /\ SampleInv /\ [Next]_vars => SampleInv'
  BY SampleStep
<1>3. TypeOK /\ TypeOK' /\ SampleInv /\ RoomInv /\ [Next]_vars =>
        [pc # "idle" /\ pc' # "idle" =>
            \/ CallLess
            \/ UNCHANGED <<pc, scanVars, readVars, kernel, pipe>>
            \/ produced' # produced \/ pipe' > pipe \/ faults' # faults]_vars
  BY CallStep
<1>4. RoomInv /\ [Next]_vars => RoomInv'
  BY RoomStep
<1>. QED
  BY <1>1, <1>2, <1>3, <1>4, SampleInit, PollTypeCorrect, PTL DEF Spec, CallProceeds
=============================================================================
