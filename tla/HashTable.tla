----------------------------- MODULE HashTable ------------------------------
(***************************************************************************)
(* http_proxy/hash_table.c: chained buckets, a counter and a destructor,   *)
(* used by one caller at a time.  A datum is the number of the call of     *)
(* ht_set that brought it: the caller passes every pointer once, since the *)
(* table will free it.  ht_set's branch for a hash beyond the size, which  *)
(* no hash function that respects its ht_size takes, is left out.          *)
(***************************************************************************)
EXTENDS Integers, Sequences, FiniteSets, SequencesExt, FiniteSetsExt

CONSTANTS
    Keys,
    Sizes,      \* sizes a table may have
    NewSizes,   \* those that ht_resize is called with
    HashFunc,   \* HashFunc[k][n]: bucket of key k in a table of size n
    MaxSets     \* bound: calls of ht_set

ASSUME TableAssumption ==
    /\ MaxSets \in Nat /\ Sizes \subseteq Nat \ {0} /\ NewSizes \subseteq Sizes
    /\ \A k \in Keys : \A n \in Sizes : HashFunc[k][n] \in 0..(n - 1)

VARIABLES
    size, table,    \* number of buckets, and their chains
    count,          \* the counter
    destroyed,      \* data handed to the destructor
    sets,           \* calls of ht_set so far
    status          \* "open", "destroyed" (ht_destroy) or "crashed"

tableVars == <<size, table, count, destroyed, sets, status>>

NoData == 0
Entry(k, data) == [key |-> k, data |-> data]
Bucket(k) == HashFunc[k][size]

TableInit ==
    /\ size \in Sizes
    /\ table = [b \in 0..(size - 1) |-> << >>]
    /\ count = 0 /\ destroyed = {} /\ sets = 0
    /\ status = "open"

-----------------------------------------------------------------------------
(* Lookups, which change nothing. *)

\* find_list: position of key k in a chain, 0 if it is not there.
find_list(chain, k) == SelectInSeq(chain, LAMBDA e : e.key = k)

ht_get(k) ==
    LET chain == table[Bucket(k)] IN
    IF find_list(chain, k) = 0 THEN NoData ELSE chain[find_list(chain, k)].data

ht_has(k) == table[Bucket(k)] # << >>
ht_has_strict(k) == ht_get(k) # NoData

\* ht_traverse visits the entries bucket by bucket.
Entries == UNION {ToSet(table[b]) : b \in DOMAIN table}

-----------------------------------------------------------------------------
(* Seeded faults: the runs are repeated with each in the place of the      *)
(* definition it is named after.                                           *)

\* An overwritten datum not handed to the destructor.
ht_set_Overwrite_NoDtor(k) ==
    LET chain == table[Bucket(k)] IN
    /\ find_list(chain, k) > 0
    /\ table' = [table EXCEPT ![Bucket(k)][find_list(chain, k)].data = sets + 1]
    /\ UNCHANGED <<count, destroyed>>

-----------------------------------------------------------------------------
(* Updates. *)

\* ht_set of a key that is there: the old datum is destroyed.
ht_set_Overwrite(k) ==
    LET chain == table[Bucket(k)]
        at == find_list(chain, k)
    IN  /\ at > 0
        /\ table' = [table EXCEPT ![Bucket(k)][at].data = sets + 1]
        /\ destroyed' = destroyed \cup {chain[at].data}
        /\ UNCHANGED count

\* ht_set of a new key: a new entry at the head of the chain.
ht_set_Insert(k) ==
    /\ find_list(table[Bucket(k)], k) = 0
    /\ table' = [table EXCEPT ![Bucket(k)] = <<Entry(k, sets + 1)>> \o @]
    /\ count' = count + 1
    /\ UNCHANGED destroyed

ht_set(k) ==
    /\ status = "open" /\ sets < MaxSets
    /\ sets' = sets + 1
    /\ ht_set_Overwrite(k) \/ ht_set_Insert(k)
    /\ UNCHANGED <<size, status>>

\* ht_delete of a key whose bucket is empty reads cur->next of a null cur.
ht_delete_Empty(k) ==
    /\ table[Bucket(k)] = << >>
    /\ status' = "crashed"
    /\ UNCHANGED <<table, count, destroyed>>

ht_delete_Found(k) ==
    LET chain == table[Bucket(k)]
        at == find_list(chain, k)
    IN  /\ at > 0
        /\ table' = [table EXCEPT ![Bucket(k)] = RemoveAt(@, at)]
        /\ destroyed' = destroyed \cup {chain[at].data}
        /\ count' = IF count > 0 THEN count - 1 ELSE count
        /\ UNCHANGED status

\* A key that is not in its bucket, with others there, is no change at all.
ht_delete(k) ==
    /\ status = "open"
    /\ ht_delete_Empty(k) \/ ht_delete_Found(k)
    /\ UNCHANGED <<size, sets>>

\* ht_resize gives the first entry of every old bucket to ht_set, bucket after bucket:
\* a new key goes to the head of its chain.  The rest of each old chain is lost.
Moved(n) ==
    LET into(new, e) == [new EXCEPT ![HashFunc[e.key][n]] = <<e>> \o @]
        after[b \in 0..size] ==
            IF b = 0 THEN [c \in 0..(n - 1) |-> << >>]
            ELSE IF table[b - 1] = << >> THEN after[b - 1]
            ELSE into(after[b - 1], table[b - 1][1])
    IN  after[size]

ht_resize(n) ==
    /\ status = "open"
    /\ size' = n
    /\ table' = Moved(n)
    /\ count' = Cardinality({b \in DOMAIN table : table[b] # << >>})
    /\ UNCHANGED <<destroyed, sets, status>>

ht_destroy ==
    /\ status = "open"
    /\ destroyed' = destroyed \cup {e.data : e \in Entries}
    /\ status' = "destroyed"
    /\ UNCHANGED <<size, table, count, sets>>

TableNext ==
    \/ \E k \in Keys : ht_set(k) \/ ht_delete(k)
    \/ \E n \in NewSizes : ht_resize(n)
    \/ ht_destroy

TableSpec == TableInit /\ [][TableNext]_tableVars

-----------------------------------------------------------------------------
(* Properties. *)

\* The table has its size; every entry is in the bucket of its key, where lookups
\* search it, a key has one entry at most, and the counter is their number.
WellFormed ==
    status = "open" =>
        /\ table \in [0..(size - 1) -> Seq([key : Keys, data : 1..MaxSets])]
        /\ \A b \in DOMAIN table : \A e \in ToSet(table[b]) : Bucket(e.key) = b
        /\ \A e, f \in Entries : e.key = f.key => e = f
        /\ count = MapThenSumSet(LAMBDA b : Len(table[b]), DOMAIN table)

\* hash_table.h, ht_has: whether the key exists in the table.
HasMeansPresent == status = "open" => \A k \in Keys : ht_has(k) <=> ht_has_strict(k)

\* hash_table.h, ht_resize: all List structures go over to the new table.
ResizeKeepsEntries ==
    [][ (\E n \in NewSizes : ht_resize(n)) => Entries' = Entries ]_tableVars

\* hash_table.h, ht_delete: deletes the element with the key, if it is there.
DeleteNeverCrashes == status # "crashed"

Store == INSTANCE KeyValueStore WITH
    Data <- 1..MaxSets, NONE <- NoData,
    content <- [k \in Keys |-> IF status = "destroyed" THEN NoData ELSE ht_get(k)]

\* The table implements the store: what lookups return is never destroyed, and
\* what leaves the table is, except for what ht_resize drops.
ImplementsStore == Store!Spec
=============================================================================
