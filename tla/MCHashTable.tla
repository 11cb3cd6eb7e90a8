---------------------------- MODULE MCHashTable -----------------------------
(***************************************************************************)
(* Instances of HashTable for TLC: keys are numbers, hashed by remainder,  *)
(* so that keys share buckets and a new size separates or joins them.      *)
(***************************************************************************)
EXTENDS HashTable

MCHashFunc == [k \in Keys |-> [n \in Sizes |-> k % n]]
=============================================================================
