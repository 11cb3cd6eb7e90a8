--------------------------- MODULE MCQueueMaster ----------------------------
(***************************************************************************)
(* Instances of QueueMaster for TLC.                                       *)
(***************************************************************************)
EXTENDS QueueMaster
=============================================================================
