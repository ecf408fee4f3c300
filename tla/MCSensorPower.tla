--------------------------- MODULE MCSensorPower ---------------------------
(* SensorPower for TLC: of the drivers with one sensor, one that reports its *)
(* errors.                                                                   *)
EXTENDS SensorPower

MCSingles == {"ID_G"}
=============================================================================
