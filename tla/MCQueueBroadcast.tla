-------------------------- MODULE MCQueueBroadcast --------------------------
(***************************************************************************)
(* Instances of QueueBroadcast for TLC.                                    *)
(***************************************************************************)
EXTENDS QueueBroadcast, TLC

ReceiverSymmetry == Permutations(Receivers)
=============================================================================
