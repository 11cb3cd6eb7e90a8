--------------------------- MODULE KeyValueStore ----------------------------
(***************************************************************************)
(* What a table of http_proxy/hash_table.h with a destructor keeps to: a   *)
(* key has at most one datum, and a datum goes to the destructor exactly   *)
(* when it is overwritten, deleted, or the table is destroyed.  Only a     *)
(* change of size is weaker than the header promises.                      *)
(***************************************************************************)
EXTENDS Naturals

CONSTANTS Keys, Data, NONE

VARIABLES
    content,    \* the datum of each key, or NONE
    destroyed   \* the data handed to the destructor

vars == <<content, destroyed>>

Init == content = [k \in Keys |-> NONE] /\ destroyed = {}

Present(k) == {content[k]} \ {NONE}

\* A datum belongs to one key and is not used again once destroyed.
Put(k, data) ==
    /\ data \notin destroyed /\ \A j \in Keys : content[j] # data
    /\ content' = [content EXCEPT ![k] = data]
    /\ destroyed' = destroyed \cup Present(k)

Erase(k) ==
    /\ content' = [content EXCEPT ![k] = NONE]
    /\ destroyed' = destroyed \cup Present(k)

Destroy ==
    /\ content' = [k \in Keys |-> NONE]
    /\ destroyed' = destroyed \cup UNION {Present(k) : k \in Keys}

\* Resizing may lose entries, not all of them, and destroys none.
Lose(lost) ==
    /\ \E k \in Keys \ lost : content[k] # NONE
    /\ content' = [k \in Keys |-> IF k \in lost THEN NONE ELSE content[k]]
    /\ UNCHANGED destroyed

Next ==
    \/ \E k \in Keys : \E data \in Data : Put(k, data)
    \/ \E k \in Keys : Erase(k)
    \/ \E lost \in SUBSET Keys : Lose(lost)
    \/ Destroy

Spec == Init /\ [][Next]_vars
=============================================================================
