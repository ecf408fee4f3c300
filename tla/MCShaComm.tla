----------------------------- MODULE MCShaComm -----------------------------
(* ShaComm for TLC; the .cfg files give the sizes and the fault bounds.    *)
EXTENDS ShaComm
=============================================================================
