--------------------------- MODULE MCQueueAnswer ----------------------------
(***************************************************************************)
(* Instances of QueueAnswer for TLC.                                       *)
(***************************************************************************)
EXTENDS QueueAnswer
=============================================================================
