----------------------- MODULE InputEventReader_proofs -----------------------
(* The ring of InputEventReader is a queue, for every size of the ring.      *)
EXTENDS InputEventReader, SequenceTheorems, TLAPS

\* The slots of the unread events are offsets before mBufferEnd, and no two
\* events share one.
LEMMA SlotRange ==
    ASSUME TypeOK
    PROVE  \A i \in 0..(numEvents - 1) :
             /\ Slot(i) \in 0..(numEvents - 1)
             /\ Slot(i) \in Offsets
  BY SizeAssumption DEF TypeOK, Slot, Offsets

\* Fill never reads past the buffer.
LEMMA Fits == TypeOK => ReadFits
  BY SizeAssumption DEF TypeOK, ReadFits

LEMMA RingInvInit == Init => RingInv
  BY SizeAssumption
  DEF Init, RingInv, TypeOK, HeadInv, Contents, Available, Offsets, Slot

LEMMA FillRingInv ==
    ASSUME RingInv, NEW k \in 1..numEvents, Fill(k)
    PROVE  RingInv'
<1> USE SizeAssumption DEF RingInv, TypeOK, Available, Offsets, mBufferEnd
<1> DEFINE head == mHead + k
<1>1. /\ k <= mFreeSpace /\ mFreeSpace' = mFreeSpace - k
      /\ mCurr' = mCurr /\ taken' = taken
      /\ mHead' = IF head > numEvents THEN head - numEvents ELSE head
  BY DEF Fill
<1>2. NextEvent = taken + Available + 1 /\ NextEvent \in Nat
  BY DEF NextEvent
<1>3. ReadInto(k) \in [Offsets -> Nat]
  BY <1>2 DEF ReadInto
<1>4. \A o \in Offsets :
        mBuffer'[o] = IF head > numEvents /\ o < head - numEvents
                      THEN ReadInto(k)[numEvents + o] ELSE ReadInto(k)[o]
  BY <1>1, <1>3 DEF Fill, MoveToFront, ReadInto
<1>5. mBuffer' \in [Offsets -> Nat]
  <2>1. CASE head > numEvents
    <3>1. mBuffer' = MoveToFront(ReadInto(k), head - numEvents)
      BY <2>1 DEF Fill
    <3>2. ASSUME NEW o \in Offsets
          PROVE  (IF o < head - numEvents THEN ReadInto(k)[numEvents + o]
                                          ELSE ReadInto(k)[o]) \in Nat
      BY <1>1, <1>3, <2>1
    <3> QED BY <3>1, <3>2 DEF MoveToFront
  <2>2. CASE ~(head > numEvents)
    BY <1>3, <2>2 DEF Fill
  <2> QED BY <2>1, <2>2
<1>6. TypeOK'
  BY <1>1, <1>5
<1>7. HeadInv'
  BY <1>1 DEF HeadInv
<1>8. ASSUME NEW i \in 0..(Available' - 1)
      PROVE  mBuffer'[Slot(i)'] = taken' + i + 1
  <2>1. Slot(i)' = Slot(i)
    BY <1>1 DEF Slot
  <2>2. i \in 0..(numEvents - 1) /\ i < Available + k
    BY <1>1
  <2>3. Slot(i) \in 0..(numEvents - 1)
    BY <2>2, SlotRange
  \* An old event keeps its place: it lies before what the read delivered
  \* and behind what was copied to the front.
  <2>4. CASE i < Available
    <3>1. mBuffer[Slot(i)] = taken + i + 1
      BY <2>4, <2>2 DEF Contents
    <3>2. ~(mHead <= Slot(i) /\ Slot(i) < mHead + k)
      BY <2>4, <2>2, <1>1 DEF HeadInv, Slot
    <3>3. ~(head > numEvents /\ Slot(i) < head - numEvents)
      BY <2>4, <2>2, <1>1 DEF HeadInv, Slot
    <3>4. ReadInto(k)[Slot(i)] = mBuffer[Slot(i)]
      BY <2>3, <3>2 DEF ReadInto
    <3>5. mBuffer'[Slot(i)] = ReadInto(k)[Slot(i)]
      BY <2>3, <3>3, <1>4
    <3> QED BY <2>1, <1>1, <3>1, <3>4, <3>5
  \* A new event is found where the read put it, or where it was copied.
  <2>5. CASE i >= Available
    <3> DEFINE o == mHead + (i - Available)
    <3>1. o \in Offsets /\ mHead <= o /\ o < mHead + k
      BY <2>5, <2>2, <1>1
    <3>2. ReadInto(k)[o] = taken + i + 1
      BY <2>5, <2>2, <3>1, <1>2 DEF ReadInto
    <3>3. CASE Slot(i) = o /\ ~(head > numEvents /\ Slot(i) < head - numEvents)
      BY <2>1, <2>3, <1>1, <1>4, <3>2, <3>3
    <3>4. CASE Slot(i) = o - numEvents /\ head > numEvents
      <4>1. Slot(i) < head - numEvents /\ numEvents + Slot(i) = o
        BY <3>4, <3>1, <2>3
      <4> QED BY <2>1, <2>3, <1>1, <1>4, <3>2, <3>4, <4>1
    <3>5. \/ Slot(i) = o /\ ~(head > numEvents /\ Slot(i) < head - numEvents)
          \/ Slot(i) = o - numEvents /\ head > numEvents
      BY <2>5, <2>2, <1>1 DEF HeadInv, Slot
    <3> QED BY <3>3, <3>4, <3>5
  <2> QED BY <2>2, <2>4, <2>5
<1> QED BY <1>6, <1>7, <1>8 DEF Contents

LEMMA TakeRingInv ==
    ASSUME RingInv, Take
    PROVE  RingInv' /\ taken' = taken + 1
<1> USE SizeAssumption DEF RingInv, TypeOK, Available, Offsets, mBufferEnd
<1>1. /\ Available # 0 /\ mFreeSpace' = mFreeSpace + 1
      /\ mCurr' = IF mCurr + 1 >= numEvents THEN 0 ELSE mCurr + 1
      /\ mBuffer' = mBuffer /\ mHead' = mHead /\ taken' = mBuffer[mCurr]
  BY DEF Take
<1>2. Slot(0) = mCurr /\ 0 \in 0..(Available - 1)
  BY <1>1 DEF Slot
<1>3. taken' = taken + 1
  BY <1>1, <1>2 DEF Contents
<1>4. TypeOK'
  BY <1>1, <1>3
<1>5. HeadInv'
  BY <1>1 DEF HeadInv
<1>6. ASSUME NEW i \in 0..(Available' - 1)
      PROVE  mBuffer'[Slot(i)'] = taken' + i + 1
  <2>1. i + 1 \in 0..(Available - 1) /\ Slot(i)' = Slot(i + 1)
    BY <1>1 DEF Slot
  <2>2. mBuffer[Slot(i + 1)] = taken + (i + 1) + 1
    BY <2>1 DEF Contents
  <2> QED BY <1>1, <1>3, <2>1, <2>2
<1> QED BY <1>3, <1>4, <1>5, <1>6 DEF Contents

\* The ring invariant holds in every reachable state.
LEMMA RingInvariant == Spec => []RingInv
<1>1. RingInv /\ [Next]_vars => RingInv'
  <2> SUFFICES ASSUME RingInv, [Next]_vars PROVE RingInv'
    OBVIOUS
  <2>1. CASE Take
    BY <2>1, TakeRingInv
  <2>2. ASSUME NEW k \in 1..numEvents, Fill(k) PROVE RingInv'
    BY <2>2, FillRingInv
  <2>3. CASE UNCHANGED vars
    BY <2>3 DEF RingInv, TypeOK, HeadInv, Contents, Available, Offsets, Slot, vars
  <2> QED BY <2>1, <2>2, <2>3 DEF Next
<1> QED BY <1>1, RingInvInit, PTL DEF Spec

\* For every size of the ring, no offset and no count leaves its range.
THEOREM ReaderTypeCorrect == Spec => []TypeOK
  BY RingInvariant, PTL DEF RingInv

\* For every size of the ring, no read of the device runs past the buffer.
THEOREM ReadsFit == Spec => []ReadFits
  BY RingInvariant, Fits, PTL DEF RingInv

-----------------------------------------------------------------------------
(* The refinement.                                                           *)

\* The queue the ring stands for, by the numbers of its events.
LEMMA UnreadIs ==
    ASSUME RingInv
    PROVE  /\ Unread = [i \in 1..Available |-> taken + i]
           /\ Unread \in Seq(Nat) /\ Len(Unread) = Available
<1> USE SizeAssumption DEF RingInv, TypeOK, Available
<1>1. ASSUME NEW i \in 1..Available
      PROVE  mBuffer[Slot(i - 1)] = taken + i
  <2>1. i - 1 \in 0..(Available - 1)
    OBVIOUS
  <2>2. mBuffer[Slot(i - 1)] = taken + (i - 1) + 1
    BY <2>1 DEF Contents
  <2> QED BY <2>2
<1>2. Unread = [i \in 1..Available |-> taken + i]
  BY <1>1 DEF Unread
<1>3. Available \in Nat /\ Unread \in [1..Available -> Nat]
  BY <1>2
<1> QED BY <1>2, <1>3

\* A fill is a delivery of k events, or of none that the queue could hold.
LEMMA FillRefines ==
    ASSUME RingInv, NEW k \in 1..numEvents, Fill(k)
    PROVE  Queue!Deliver(k)
<1> USE SizeAssumption
<1>1. RingInv'
  BY FillRingInv
<1>2. /\ Available' = Available + k /\ taken' = taken
      /\ Available' <= numEvents /\ Available \in Nat /\ taken \in Nat
  BY DEF Fill, Available, RingInv, TypeOK
<1>3. Unread = [i \in 1..Available |-> taken + i] /\ Len(Unread) = Available
  BY UnreadIs
<1>4. Unread' = [i \in 1..(Available + k) |-> taken + i]
  <2>1. ASSUME NEW i \in 1..(Available + k)
        PROVE  mBuffer'[Slot(i - 1)'] = taken + i
    <3>1. i - 1 \in 0..(Available' - 1)
      BY <1>2
    <3>2. mBuffer'[Slot(i - 1)'] = taken' + (i - 1) + 1
      BY <1>1, <3>1 DEF RingInv, Contents
    <3> QED BY <1>2, <3>2
  <2> QED BY <2>1, <1>2 DEF Unread
<1> DEFINE new == [i \in 1..k |-> taken + Len(Unread) + i]
<1>5. Unread \in Seq(Nat) /\ new \in Seq(Nat) /\ Len(new) = k
  <2>1. new \in [1..k -> Nat] /\ k \in Nat
    BY <1>2, <1>3
  <2> QED BY <2>1, UnreadIs
<1>6. \A i \in 1..k : new[i] = taken + Available + i
  BY <1>3
<1> HIDE DEF new
<1>7. Unread' = Unread \o new
  <2>1. /\ Unread \o new \in Seq(Nat) /\ Len(Unread \o new) = Available + k
        /\ \A i \in 1..(Available + k) :
             (Unread \o new)[i] = IF i <= Available THEN Unread[i]
                                  ELSE new[i - Available]
    <3>1. /\ Unread \o new \in Seq(Nat)
          /\ Len(Unread \o new) = Len(Unread) + Len(new)
      BY <1>5, ConcatProperties
    <3>2. \A i \in 1..(Len(Unread) + Len(new)) :
            (Unread \o new)[i] = IF i <= Len(Unread) THEN Unread[i]
                                 ELSE new[i - Len(Unread)]
      BY <1>5, ConcatProperties
    <3> QED BY <1>2, <1>3, <1>5, <3>1, <3>2
  <2>2. ASSUME NEW i \in 1..(Available + k)
        PROVE  (Unread \o new)[i] = taken + i
    <3>1. CASE i <= Available
      BY <2>1, <3>1, <1>2, <1>3
    <3>2. CASE i > Available
      <4>1. i - Available \in 1..k
        BY <3>2, <1>2
      <4>2. new[i - Available] = taken + Available + (i - Available)
        BY <4>1, <1>6
      <4>3. taken + Available + (i - Available) = taken + i
        BY <1>2
      <4>4. ~(i <= Available) /\ i \in 1..(Available + k)
        BY <3>2, <1>2
      <4>5. (Unread \o new)[i] = new[i - Available]
        BY <2>1, <4>4
      <4> QED BY <4>2, <4>3, <4>5
    <3>3. i <= Available \/ i > Available
      BY <1>2
    <3> QED BY ONLY <3>1, <3>2, <3>3
  <2>3. Unread' \in Seq(Nat) /\ Len(Unread') = Available + k
    <3>1. Unread' \in [1..(Available + k) -> Nat] /\ Available + k \in Nat
      BY <1>2, <1>4
    <3> QED BY <3>1
  <2>4. \A i \in 1..(Available + k) : Unread'[i] = (Unread \o new)[i]
    BY <2>2, <1>4
  <2> QED BY <2>1, <2>3, <2>4, SeqEqual
<1> QED BY <1>2, <1>3, <1>7 DEF Queue!Deliver, new

\* next() takes the head of the queue.
LEMMA TakeRefines ==
    ASSUME RingInv, Take
    PROVE  Queue!Take
<1> USE SizeAssumption
<1>1. RingInv' /\ taken' = taken + 1
  BY TakeRingInv
<1>2. /\ Available' = Available - 1 /\ Available \in Nat \ {0} /\ taken \in Nat
  BY DEF Take, Available, RingInv, TypeOK
<1>3. /\ Unread = [i \in 1..Available |-> taken + i]
      /\ Unread \in Seq(Nat) /\ Len(Unread) = Available
  BY UnreadIs
<1>4. Unread' = [i \in 1..(Available - 1) |-> taken + 1 + i]
  <2>1. ASSUME NEW i \in 1..(Available - 1)
        PROVE  mBuffer'[Slot(i - 1)'] = taken + 1 + i
    <3>1. i - 1 \in 0..(Available' - 1)
      BY <1>2
    <3>2. mBuffer'[Slot(i - 1)'] = taken' + (i - 1) + 1
      BY <1>1, <3>1 DEF RingInv, Contents
    <3> QED BY <1>1, <1>2, <3>2
  <2> QED BY <2>1, <1>2 DEF Unread
<1>5. Unread # <<>> /\ Head(Unread) = taken + 1
  BY <1>2, <1>3
<1>6. Tail(Unread) = [i \in 1..(Available - 1) |-> taken + 1 + i]
  <2>1. Tail(Unread) = [i \in 1..(Len(Unread) - 1) |-> Unread[i + 1]]
    BY <1>2, <1>3, <1>5
  <2> DEFINE n == Available - 1
  <2>2. \A i \in 1..n : Unread[i + 1] = taken + 1 + i
    BY <1>2, <1>3
  <2>3. Tail(Unread) = [i \in 1..n |-> Unread[i + 1]]
    BY <2>1, <1>3
  <2> QED BY <2>2, <2>3
<1> QED BY <1>1, <1>4, <1>5, <1>6 DEF Queue!Take

\* The reader implements the queue, for every size of the ring: what the
\* driver takes are the device's events, each once and in order.
THEOREM ReaderIsQueue == Spec => QueueSpec
<1>1. Init => Queue!Init
  <2>1. Init => Unread = <<>>
    BY SizeAssumption DEF Init, Unread, Available
  <2> QED BY <2>1 DEF Init, Queue!Init
<1>2. RingInv /\ RingInv' /\ [Next]_vars => [Queue!Next]_(Queue!vars)
  <2> SUFFICES ASSUME RingInv, [Next]_vars PROVE [Queue!Next]_(Queue!vars)
    OBVIOUS
  <2>1. CASE Take
    BY <2>1, TakeRefines DEF Queue!Next
  <2>2. ASSUME NEW k \in 1..numEvents, Fill(k) PROVE Queue!Next
    BY <2>2, FillRefines DEF Queue!Next
  <2>3. CASE UNCHANGED vars
    BY <2>3 DEF vars, Queue!vars, Unread, Available, Slot
  <2> QED BY <2>1, <2>2, <2>3 DEF Next
<1> QED BY <1>1, <1>2, RingInvariant, PTL DEF Spec, QueueSpec, Queue!Spec
=============================================================================
