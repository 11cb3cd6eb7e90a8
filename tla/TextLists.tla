----------------------------- MODULE TextLists ------------------------------
(***************************************************************************)
(* What the lists of 4_str_list/dslist.h keep to: each is a sequence of    *)
(* data, and every call does to it what its name says.  A call that breaks *)
(* the links of a list ends the promise.                                   *)
(***************************************************************************)
EXTENDS Naturals, Sequences, SequencesExt

CONSTANTS Lists, Data

VARIABLES
    items,      \* the sequence of each list
    live,       \* the lists there are
    promised    \* FALSE once a call has broken a list

vars == <<items, live, promised>>

Init == items = [l \in Lists |-> << >>] /\ live = {} /\ promised = TRUE

Becomes(l, s) == items' = [items EXCEPT ![l] = s]

\* A list that is not there yet is made by these two.
AppendTo(l, d) == Becomes(l, Append(items[l], d)) /\ live' = live \cup {l}
PrependTo(l, d) == Becomes(l, <<d>> \o items[l]) /\ live' = live \cup {l}

\* The first of the data that is d goes.
RemoveFrom(l, d) ==
    /\ \E i \in DOMAIN items[l] :
        /\ items[l][i] = d /\ \A j \in 1..(i - 1) : items[l][j] # d
        /\ Becomes(l, RemoveAt(items[l], i))
    /\ live' = live

RemoveBehind(l, i) ==
    /\ i + 1 \in DOMAIN items[l] /\ Becomes(l, RemoveAt(items[l], i + 1))
    /\ live' = live

\* Turning round fails for even lengths.
TurnRound(l) ==
    /\ Becomes(l, IF Len(items[l]) % 2 = 1 THEN Reverse(items[l]) ELSE items[l])
    /\ live' = live

\* A copy of the first n data of l.
CopyOf(l, k, n) == Becomes(k, SubSeq(items[l], 1, n)) /\ live' = live \cup {k}

Join(l, k) ==
    /\ items' = [items EXCEPT ![l] = @ \o items[k], ![k] = << >>]
    /\ live' = live \ {k}

Free(l) == Becomes(l, << >>) /\ live' = live \ {l}

Call ==
    \/ \E l \in Lists : \E d \in Data : AppendTo(l, d) \/ PrependTo(l, d)
    \/ \E l \in live :
        \/ \E d \in Data : RemoveFrom(l, d)
        \/ \E i \in DOMAIN items[l] : RemoveBehind(l, i)
        \/ TurnRound(l)
        \/ Free(l)
        \/ \E k \in Lists \ live : \E n \in 0..Len(items[l]) : CopyOf(l, k, n)
        \/ \E k \in live \ {l} : Join(l, k)

Next == (promised' /\ Call) \/ ~promised'

Spec == Init /\ [][promised /\ Next]_vars
=============================================================================
