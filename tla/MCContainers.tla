---------------------------- MODULE MCContainers ----------------------------
(***************************************************************************)
(* The two containers of the repository side by side, each with a caller   *)
(* of its own: a behaviour is one of HashTable or one of StrList.          *)
(***************************************************************************)
EXTENDS HashTable, StrList

MCHashFunc == [k \in Keys |-> [n \in Sizes |-> k % n]]

MCInit == TableInit /\ ListInit

MCNext ==
    \/ node = << >> /\ ended = "no" /\ TableNext /\ UNCHANGED listVars
    \/ sets = 0 /\ status = "open" /\ ListNext /\ UNCHANGED tableVars

MCSpec == MCInit /\ [][MCNext]_<<tableVars, listVars>>

\* The chains of both containers: every entry of the table is where lookups search it, and
\* both directions of a list tell the same, unless a call that breaks it was last.
ChainsAreSound == WellFormed /\ ListAgrees /\ LookupsAgree
=============================================================================
