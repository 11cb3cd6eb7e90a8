------------------------------ MODULE StrList -------------------------------
(***************************************************************************)
(* 4_str_list/dslist.c: doubly linked lists in a heap, under any sequence  *)
(* of its calls by one caller.  MaxNodes is the memory there is: malloc    *)
(* fails when it is used up.  A caller that has broken a list, or passed   *)
(* one dslist.c cannot digest, makes no further call.                      *)
(***************************************************************************)
EXTENDS Naturals, Sequences, FiniteSets, SequencesExt, FiniteSetsExt

CONSTANTS Lists, Data, MaxNodes

ASSUME ListAssumption == MaxNodes \in Nat

VARIABLES
    node,       \* the allocated nodes, by address: [data, next, prev]
    list,       \* the list of each name: [first, last, count]
    held,       \* the names that are not NULL
    ended,      \* why the caller stopped: "no", "hangs" or "crashed"
    broken      \* the caller has made a call known to break a list

listVars == <<node, list, held, ended, broken>>

NULL == 0
Nodes == 1..MaxNodes
FreeNodes == Nodes \ DOMAIN node
empty_list == [first |-> NULL, last |-> NULL, count |-> 0]

ListInit ==
    /\ node = << >> /\ list = [l \in Lists |-> empty_list] /\ held = {}
    /\ ended = "no" /\ broken = FALSE

\* A heap with one node more, or changed.
Put(heap, n, value) == [m \in DOMAIN heap \cup {n} |-> IF m = n THEN value ELSE heap[m]]

\* Nodes met from n on, by way of field "next" or "prev", in a sound list.
Chain(n, field) ==
    LET after == [m \in Nodes \cup {NULL} |-> IF m \in DOMAIN node THEN node[m][field] ELSE NULL]
        at[i \in Nodes] == IF i = 1 THEN n ELSE after[at[i - 1]]
    IN  [i \in 1..Cardinality({j \in Nodes : at[j] \in DOMAIN node}) |-> at[i]]

\* dslist_foreach: the data its function is called with.
Foreach(l) == LET way == Chain(list[l].first, "next") IN [i \in DOMAIN way |-> node[way[i]].data]

-----------------------------------------------------------------------------
(* Calls that return a place or a number. *)

dslist_first(l) == IF list[l].count = 0 THEN NULL ELSE list[l].first
dslist_last(l) == IF list[l].count = 0 THEN NULL ELSE list[l].last
dslist_length(l) == list[l].count

\* dslist_nth of n, or of -n if back is TRUE.
dslist_nth(l, n, back) ==
    LET way == IF ~back THEN Chain(list[l].first, "next")
                        ELSE Chain(list[l].last, "prev")
    IN  IF list[l].first = list[l].last
        THEN IF n = 1 THEN list[l].first ELSE NULL
        ELSE IF n \in DOMAIN way THEN way[n] ELSE NULL

\* The place of the first of way that is one of them, 0 if none is.
FirstPlace(way, them) ==
    LET places == {i \in 1..Len(way) : way[i] \in them}
    IN  IF places = {} THEN 0 ELSE Min(places)

\* same are the data the caller's function finds equal to the needle.
FindFrom(n, same) ==
    LET way == Chain(n, "next")
        i == FirstPlace(way, {m \in DOMAIN node : node[m].data \in same})
    IN  IF i = 0 THEN NULL ELSE way[i]

dslist_find(l, needle) == FindFrom(list[l].first, {needle})
dslist_find_custom(l, same) == FindFrom(dslist_first(l), same)

\* dslist_position counts from 0; -1 is shown as MaxNodes, no position.
dslist_position(l, el) ==
    LET i == FirstPlace(Chain(list[l].first, "next"), {el})
    IN  IF i = 0 THEN MaxNodes ELSE i - 1

-----------------------------------------------------------------------------
(* Calls that change a list. *)

\* Seeded fault: the new node does not point back.
LinkLast_NoPrev(mem, n, d) ==
    LET h == mem.head
        new == [data |-> d, next |-> NULL, prev |-> NULL]
    IN  [heap |-> IF h.count > 0
                  THEN Put(Put(mem.heap, n, new), h.last, [mem.heap[h.last] EXCEPT !.next = n])
                  ELSE Put(mem.heap, n, new),
         head |-> [first |-> IF h.count > 0 THEN h.first ELSE n,
                   last |-> n, count |-> h.count + 1]]

\* What dslist_append does to a heap and a list that is there.
LinkLast(mem, n, d) ==
    LET h == mem.head
        new == [data |-> d, next |-> NULL, prev |-> IF h.count > 0 THEN h.last ELSE NULL]
    IN  [heap |-> IF h.count > 0
                  THEN Put(Put(mem.heap, n, new), h.last, [mem.heap[h.last] EXCEPT !.next = n])
                  ELSE Put(mem.heap, n, new),
         head |-> [first |-> IF h.count > 0 THEN h.first ELSE n,
                   last |-> n, count |-> h.count + 1]]

Mem(l) == [heap |-> node, head |-> list[l]]

Hold(mem, l) ==
    /\ node' = mem.heap /\ list' = [list EXCEPT ![l] = mem.head]
    /\ held' = held \cup {l} /\ UNCHANGED <<ended, broken>>

\* On NULL, append and prepend make a list of one node.
dslist_append(l, d) == FreeNodes # {} /\ Hold(LinkLast(Mem(l), Min(FreeNodes), d), l)

dslist_prepend(l, d) ==
    LET h == list[l]
        n == Min(FreeNodes)
        new == [data |-> d, next |-> IF h.count > 0 THEN h.first ELSE NULL, prev |-> NULL]
        pointed == IF h.count > 0 THEN Put(node, h.first, [node[h.first] EXCEPT !.prev = n]) ELSE node
    IN  /\ FreeNodes # {}
        /\ Hold([heap |-> Put(pointed, n, new),
                 head |-> [first |-> n, last |-> IF h.count > 0 THEN h.last ELSE n,
                           count |-> h.count + 1]], l)

\* Behind any node but the last: next has no way back to the new node, which is not counted.
dslist_insert(l, sibling, d) ==
    \/ list[l].last = sibling /\ dslist_append(l, d)
    \/ /\ list[l].last # sibling /\ FreeNodes # {}
       /\ LET n == Min(FreeNodes) IN
          node' = Put(Put(node, n, [data |-> d, next |-> node[sibling].next, prev |-> sibling]),
                      sibling, [node[sibling] EXCEPT !.next = n])
       /\ broken' = TRUE /\ UNCHANGED <<list, held, ended>>

\* dslist_remove_raw: the heap without node n.
Unlinked(n) ==
    [m \in DOMAIN node \ {n} |->
        [data |-> node[m].data,
         next |-> IF m = node[n].prev THEN node[n].next ELSE node[m].next,
         prev |-> IF m = node[n].next THEN node[n].prev ELSE node[m].prev]]

\* dslist_remove_few: its runner never moves, so it can only take out the first node,
\* and runs for ever when that has other data.  Told to take out all, it goes on at the
\* node it has just freed, with no defined result, unless the list is empty then.
TakeFirst(l) ==
    LET h == list[l]
        n == h.first
    IN  /\ node' = Unlinked(n)
        /\ list' = [list EXCEPT ![l] = [first |-> node[n].next,
                                        last |-> IF h.last = n THEN node[n].prev ELSE h.last,
                                        count |-> h.count - 1]]

dslist_remove_few(l, d, all) ==
    /\ list[l].count > 0 /\ UNCHANGED <<held, broken>>
    /\ \/ node[list[l].first].data # d /\ ended' = "hangs" /\ UNCHANGED <<node, list>>
       \/ /\ node[list[l].first].data = d /\ TakeFirst(l)
          /\ IF all /\ list[l].count > 1 THEN ended' \in {"hangs", "crashed"}
                                         ELSE UNCHANGED ended

\* The test for the ends looks at the sibling, not at the node that goes.
dslist_remove_next(l, sibling) ==
    LET n == node[sibling].next
        h == list[l]
    IN  /\ n # NULL
        /\ node' = Unlinked(n)
        /\ list' = [list EXCEPT ![l] = [first |-> IF h.first = sibling THEN n ELSE h.first,
                                        last |-> h.last, count |-> h.count - 1]]
        /\ broken' = (h.first = sibling \/ h.last = n)
        /\ UNCHANGED <<held, ended>>

\* dslist_free runs into NULL on a list without nodes.
dslist_free(l) ==
    IF list[l].first = NULL
    THEN ended' = "crashed" /\ UNCHANGED <<node, list, held, broken>>
    ELSE /\ node' = [m \in DOMAIN node \ ToSet(Chain(list[l].first, "next")) |-> node[m]]
         /\ list' = [list EXCEPT ![l] = empty_list] /\ held' = held \ {l}
         /\ UNCHANGED <<ended, broken>>

\* dslist_reverse swaps the data of head and tail until they meet.  With an even
\* length they pass each other and every pair is swapped back.
Swapped(s) ==
    LET n == Len(s)
        swap[i \in 0..n] ==
            IF i = 0 THEN s ELSE
            LET was == swap[i - 1] IN
            IF n % 2 = 1 /\ i > n \div 2 THEN was
            ELSE [j \in 1..n |-> was[IF j = i \/ j = n + 1 - i THEN n + 1 - j ELSE j]]
    IN  swap[n]

Reversed(l) ==
    LET way == Chain(list[l].first, "next")
        data == Swapped(Foreach(l))
    IN  [m \in DOMAIN node |->
            IF m \notin ToSet(way) THEN node[m] ELSE [node[m] EXCEPT !.data = data[FirstPlace(way, {m})]]]

dslist_reverse(l) == node' = Reversed(l) /\ UNCHANGED <<list, held, ended, broken>>

\* Both lists must have nodes.  The second header is left to nobody.
dslist_concat(l, k) ==
    LET h == list[l]
        t == list[k]
    IN  IF h.last = NULL \/ t.first = NULL
        THEN ended' = "crashed" /\ UNCHANGED <<node, list, held, broken>>
        ELSE /\ node' = Put(Put(node, h.last, [node[h.last] EXCEPT !.next = t.first]),
                            t.first, [node[t.first] EXCEPT !.prev = h.last])
             /\ list' = [list EXCEPT ![l] = [first |-> h.first, last |-> t.last,
                                             count |-> h.count + t.count],
                                    ![k] = empty_list]
             /\ held' = held \ {k}
             /\ UNCHANGED <<ended, broken>>

\* Node i of a chain of new nodes.
Linked(new, data, i) ==
    [data |-> data, next |-> IF i = Len(new) THEN NULL ELSE new[i + 1], prev |-> IF i = 1 THEN NULL ELSE new[i - 1]]

\* foreach_for_copy appends to a new list what there is memory for, in the least free nodes.
CopyTo(k, data) ==
    LET n == Min({Len(data), Cardinality(FreeNodes)}) IN
    \E new \in [1..n -> FreeNodes] :
        /\ \A i \in 1..n : Cardinality({m \in FreeNodes : m < new[i]}) = i - 1
        /\ Hold([heap |-> [m \in DOMAIN node \cup ToSet(new) |->
                              IF m \in DOMAIN node THEN node[m]
                              ELSE LET i == CHOOSE i \in 1..n : new[i] = m IN Linked(new, data[i], i)],
                 head |-> IF n = 0 THEN empty_list ELSE [first |-> new[1], last |-> new[n], count |-> n]], k)

\* Seeded fault: the copy begins at the end.
dslist_copy_Backwards(l, k) == k \notin held /\ CopyTo(k, Reverse(Foreach(l)))

dslist_copy(l, k) == k \notin held /\ CopyTo(k, Foreach(l))

ListNext ==
    /\ ended = "no" /\ ~broken
    /\ \/ \E l \in Lists : \E d \in Data : dslist_append(l, d) \/ dslist_prepend(l, d)
       \/ \E l \in held :
            \/ \E d \in Data : \E all \in BOOLEAN : dslist_remove_few(l, d, all)
            \/ \E s \in ToSet(Chain(list[l].first, "next")) :
                 \/ \E d \in Data : dslist_insert(l, s, d)
                 \/ dslist_remove_next(l, s)
            \/ dslist_free(l) \/ dslist_reverse(l)
       \/ \E l \in held : \E k \in Lists \ {l} :
            dslist_copy(l, k) \/ (k \in held /\ dslist_concat(l, k))

ListSpec == ListInit /\ [][ListNext]_listVars

-----------------------------------------------------------------------------
(* Properties. *)

Forward(l) == Chain(list[l].first, "next")

Sound ==
    /\ \A l \in held :
        /\ Chain(list[l].last, "prev") = Reverse(Forward(l))
        /\ list[l].count = Len(Forward(l))
        /\ Forward(l) = << >> => list[l].first = NULL /\ list[l].last = NULL
        /\ \A n \in ToSet(Forward(l)) : {node[n].next, node[n].prev} \subseteq DOMAIN node \cup {NULL}
    /\ \A l, k \in held : l # k => ToSet(Forward(l)) \cap ToSet(Forward(k)) = {}
    /\ DOMAIN node = UNION {ToSet(Forward(l)) : l \in held}

\* After any sequence of calls both directions of every list, its ends and its counter tell
\* of the same nodes, and no node is lost or in two lists, unless the last call was one of
\* those that break it: inserting in the middle, or removing next to the first or at the end.
ListAgrees == broken <=> ~Sound

\* Whatever the history of a sound list, its ends and its length, dslist_nth from either
\* end, dslist_position and both ways to find answer for the sequence that
\* dslist_foreach visits.
LookupsAgree ==
    ~broken => \A l \in held :
        LET s == Forward(l) IN
        /\ dslist_length(l) = Len(s)
        /\ dslist_first(l) = dslist_nth(l, 1, FALSE) /\ dslist_last(l) = dslist_nth(l, 1, TRUE)
        /\ \A i \in 1..MaxNodes :
            /\ dslist_nth(l, i, FALSE) = IF i \in DOMAIN s THEN s[i] ELSE NULL
            /\ dslist_nth(l, i, TRUE) = IF i \in DOMAIN s THEN s[Len(s) + 1 - i] ELSE NULL
        /\ \A i \in DOMAIN s : dslist_position(l, s[i]) = i - 1
        /\ \A d \in Data :
            LET found == dslist_find(l, d) IN
            /\ dslist_find_custom(l, {d}) = found
            /\ IF found = NULL THEN \A i \in DOMAIN s : node[s[i]].data # d
               ELSE \A i \in 0..(dslist_position(l, found) - 1) : node[s[i + 1]].data # d

Texts == INSTANCE TextLists WITH
    promised <- ~broken, live <- IF broken THEN {} ELSE held,
    items <- [l \in Lists |-> IF broken THEN << >> ELSE Foreach(l)]

\* What a call is to the texts, unless it never returns.
AsNamed ==
    /\ \A l \in Lists : \A d \in Data :
        /\ dslist_append(l, d) => Texts!AppendTo(l, d)
        /\ dslist_prepend(l, d) => Texts!PrependTo(l, d)
    /\ \A l \in held :
        /\ \A d \in Data : \A all \in BOOLEAN :
            dslist_remove_few(l, d, all) =>
                Texts!RemoveFrom(l, d) \/ (ended' = "hangs" /\ UNCHANGED Texts!vars)
        /\ \A i \in DOMAIN Forward(l) :
            /\ \A d \in Data : dslist_insert(l, Forward(l)[i], d) => Texts!AppendTo(l, d)
            /\ dslist_remove_next(l, Forward(l)[i]) => Texts!RemoveBehind(l, i)
        /\ dslist_reverse(l) => Texts!TurnRound(l)
        /\ dslist_free(l) => Texts!Free(l) \/ (ended' = "crashed" /\ UNCHANGED Texts!vars)
        /\ \A k \in Lists \ {l} :
            /\ dslist_copy(l, k) =>
                Texts!CopyOf(l, k, Min({Len(Foreach(l)), Cardinality(FreeNodes)}))
            /\ k \in held /\ dslist_concat(l, k) =>
                Texts!Join(l, k) \/ (ended' = "crashed" /\ UNCHANGED Texts!vars)

\* The lists implement sequences: what dslist_foreach visits changes by each call as the
\* call's name says, whatever was called before, as long as nothing is broken: an append
\* puts the datum last, a removal takes the first that is equal, a copy holds as much of
\* the list as there is memory for.
ImplementsLists == Texts!Spec /\ [][broken' \/ AsNamed]_listVars
=============================================================================
