---------------------------- MODULE SampleStream ----------------------------
(***************************************************************************)
(* What pollEvents promises for the samples of the sensors: a device takes *)
(* a sample of all its sensors at a time, and each sample of each sensor,  *)
(* once it was reported, is disposed of - delivered, or dropped because    *)
(* the sensor is disabled - once, and in the order in which it was taken.  *)
(***************************************************************************)
EXTENDS Integers

CONSTANT Devices    \* the sensors of each device

VARIABLES
    reported,   \* the samples of each sensor its device has reported
    done        \* the samples of each sensor disposed of

vars == <<reported, done>>

Sensors == UNION Devices

Init ==
    /\ reported = [s \in Sensors |-> 0]
    /\ done = [s \in Sensors |-> 0]

Report(device) ==
    /\ reported' = [s \in Sensors |->
                      IF s \in device THEN reported[s] + 1 ELSE reported[s]]
    /\ UNCHANGED done

Dispose(s) ==
    /\ done[s] < reported[s]
    /\ done' = [done EXCEPT ![s] = @ + 1]
    /\ UNCHANGED reported

Next ==
    \/ \E device \in Devices : Report(device)
    \/ \E s \in Sensors : Dispose(s)

Spec == Init /\ [][Next]_vars
=============================================================================
