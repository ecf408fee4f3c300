------------------------- MODULE MCInputEventReader -------------------------
(* InputEventReader for TLC; the .cfg gives the sizes.                     *)
EXTENDS InputEventReader
=============================================================================
