----------------------------- MODULE MCRecovery -----------------------------
(* RecoveryUI and MasterClear for TLC; the .cfg files give the sizes.      *)
EXTENDS RecoveryUI
=============================================================================
