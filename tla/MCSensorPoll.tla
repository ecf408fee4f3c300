---------------------------- MODULE MCSensorPoll ----------------------------
(* SensorPoll for TLC: the compass driver with two sensors, and the gyroscope. *)
EXTENDS SensorPoll

MCmSensors == << <<"M", "O">>, <<"G">> >>
=============================================================================
