---------------------------- MODULE MCDockDaemon ----------------------------
(* DockDaemon for TLC: the docks are model values given by the .cfg files. *)
EXTENDS DockDaemon
=============================================================================
