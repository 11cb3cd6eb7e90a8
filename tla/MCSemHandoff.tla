---------------------------- MODULE MCSemHandoff ----------------------------
(***************************************************************************)
(* Instances of SemHandoff for TLC.                                        *)
(***************************************************************************)
EXTENDS SemHandoff
=============================================================================
