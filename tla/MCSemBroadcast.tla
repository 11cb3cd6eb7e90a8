--------------------------- MODULE MCSemBroadcast ---------------------------
(***************************************************************************)
(* Instances of SemBroadcast for TLC.                                      *)
(***************************************************************************)
EXTENDS SemBroadcast
=============================================================================
