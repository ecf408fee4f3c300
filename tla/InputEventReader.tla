-------------------------- MODULE InputEventReader --------------------------
(***************************************************************************)
(* InputEventCircularReader (sensors/InputEventReader.cpp), the ring every *)
(* sensor driver reads its input device through.  The buffer has twice the *)
(* announced size: read(2) may run past mBufferEnd, and what it put there  *)
(* is copied to the front.                                                 *)
(*                                                                         *)
(* A pointer into mBuffer is its offset, an event is its number in the     *)
(* order of delivery.  A fill that fails, or reads nothing, changes no     *)
(* state of the reader and is not an action.                               *)
(***************************************************************************)
EXTENDS Integers, Sequences

CONSTANTS
    numEvents,      \* the argument of the constructor
    MaxEvents       \* bound on the events the device delivers

ASSUME SizeAssumption == numEvents \in Nat \ {0} /\ MaxEvents \in Nat

VARIABLES
    mBuffer,        \* offset -> event; 0 is memory nothing was read into
    mHead, mCurr, mFreeSpace,
    taken           \* the last event the driver has taken

vars == <<mBuffer, mHead, mCurr, mFreeSpace, taken>>

Offsets == 0..(2 * numEvents - 1)

mBufferEnd == numEvents

\* The events that are in the ring, and the number the next one has.
Available == numEvents - mFreeSpace
NextEvent == taken + Available + 1

Init ==
    /\ mBuffer = [o \in Offsets |-> 0]
    /\ mHead = 0 /\ mCurr = 0
    /\ mFreeSpace = numEvents
    /\ taken = 0

\* The buffer after read(fd, mHead, ...) has delivered k events.
ReadInto(k) ==
    [o \in Offsets |-> IF mHead <= o /\ o < mHead + k
                       THEN NextEvent + (o - mHead) ELSE mBuffer[o]]

\* memcpy(mBuffer, mBufferEnd, s)
MoveToFront(buffer, s) ==
    [o \in Offsets |-> IF o < s THEN buffer[mBufferEnd + o] ELSE buffer[o]]

\* Mutant of Fill: mHead never returns to the front.
FillNoWrap(k) ==
    /\ k <= mFreeSpace
    /\ mFreeSpace' = mFreeSpace - k
    /\ mHead' = mHead + k /\ mBuffer' = ReadInto(k)
    /\ UNCHANGED <<mCurr, taken>>

\* Mutant of Fill: what lies past mBufferEnd is not copied.
FillNoCopy(k) ==
    /\ k <= mFreeSpace
    /\ mFreeSpace' = mFreeSpace - k
    /\ mHead' = IF mHead + k > mBufferEnd THEN mHead + k - mBufferEnd
                                          ELSE mHead + k
    /\ mBuffer' = ReadInto(k)
    /\ UNCHANGED <<mCurr, taken>>

Fill(k) ==
    /\ k <= mFreeSpace
    /\ mFreeSpace' = mFreeSpace - k
    /\ LET head == mHead + k
       IN IF head > mBufferEnd
          THEN /\ mHead' = head - mBufferEnd
               /\ mBuffer' = MoveToFront(ReadInto(k), head - mBufferEnd)
          ELSE mHead' = head /\ mBuffer' = ReadInto(k)
    /\ UNCHANGED <<mCurr, taken>>

\* Mutant of Take: mCurr wraps one event too late.
TakeLateWrap ==
    /\ Available # 0
    /\ taken' = mBuffer[mCurr]
    /\ mCurr' = IF mCurr + 1 > mBufferEnd THEN 0 ELSE mCurr + 1
    /\ mFreeSpace' = mFreeSpace + 1
    /\ UNCHANGED <<mBuffer, mHead>>

\* readEvent returned an event, and the driver is done with it: next().
Take ==
    /\ Available # 0
    /\ taken' = mBuffer[mCurr]
    /\ mCurr' = IF mCurr + 1 >= mBufferEnd THEN 0 ELSE mCurr + 1
    /\ mFreeSpace' = mFreeSpace + 1
    /\ UNCHANGED <<mBuffer, mHead>>

Next ==
    \/ Take
    \/ \E k \in 1..numEvents : NextEvent + k <= MaxEvents + 1 /\ Fill(k)

Spec == Init /\ [][Next]_vars

-----------------------------------------------------------------------------
(* Properties.                                                             *)

\* Every offset stays where the code may use it: mCurr before mBufferEnd,
\* mHead not past it, and the free space between nothing and everything.
TypeOK ==
    /\ mBuffer \in [Offsets -> Nat]
    /\ mHead \in 0..numEvents
    /\ mCurr \in 0..(numEvents - 1)
    /\ mFreeSpace \in 0..numEvents
    /\ taken \in Nat

\* fill asks read(2) for mFreeSpace events at mHead: they fit in the buffer,
\* wherever mHead is.
ReadFits == mHead + mFreeSpace <= 2 * numEvents

\* The i-th unread event, counted from 0, is at this offset.
Slot(i) == IF mCurr + i < numEvents THEN mCurr + i ELSE mCurr + i - numEvents

\* The ring read from mCurr, cyclically.
Unread == [i \in 1..Available |-> mBuffer[Slot(i - 1)]]

\* The reader is the queue the drivers take it for: no event is lost, handed
\* out twice or out of order, whatever sizes the reads have and wherever the
\* ring wraps.
Queue == INSTANCE EventQueue WITH queue <- Unread

QueueSpec == Queue!Spec

\* Why it is: mHead is Available events ahead of mCurr, cyclically, where
\* mBufferEnd stands for itself or the front, and the unread events are the
\* next ones in order.
HeadInv ==
    \/ mHead = mCurr + Available
    \/ mHead = mCurr + Available - numEvents
    \/ mHead = numEvents /\ mCurr = 0 /\ Available = 0

Contents == \A i \in 0..(Available - 1) : mBuffer[Slot(i)] = taken + i + 1

RingInv == TypeOK /\ HeadInv /\ Contents
=============================================================================
