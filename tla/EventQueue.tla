----------------------------- MODULE EventQueue -----------------------------
(***************************************************************************)
(* What a sensor driver expects of its InputEventCircularReader: a queue   *)
(* of at most numEvents input events, from which the events the device     *)
(* delivered are taken one by one, each once and in order.                 *)
(*                                                                         *)
(* The events of a device are numbered 1, 2, 3 ... in the order in which   *)
(* the device delivers them.                                               *)
(***************************************************************************)
EXTENDS Integers, Sequences

CONSTANT numEvents

VARIABLES
    queue,      \* the events that were read and not taken
    taken       \* the last event taken, 0 if there is none

vars == <<queue, taken>>

Init == queue = <<>> /\ taken = 0

\* The next k events of the device.
Deliver(k) ==
    /\ Len(queue) + k <= numEvents
    /\ queue' = queue \o [i \in 1..k |-> taken + Len(queue) + i]
    /\ UNCHANGED taken

Take ==
    /\ queue # <<>>
    /\ taken' = Head(queue) /\ queue' = Tail(queue)

Next == Take \/ \E k \in 1..numEvents : Deliver(k)

Spec == Init /\ [][Next]_vars
=============================================================================
