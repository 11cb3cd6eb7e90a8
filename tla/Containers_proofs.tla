------------------------- MODULE Containers_proofs --------------------------
(***************************************************************************)
(* Proofs about the two containers.  HashTable: every entry is where       *)
(* lookups search it, the counter is exact, and the table implements       *)
(* KeyValueStore.  StrList: both directions of a list tell of the same     *)
(* nodes, every look-up answers for them, and each call does to the list   *)
(* what TextLists says of it, until a call breaks a list.                  *)
(***************************************************************************)
EXTENDS MCContainers, FiniteSetTheorems, SequenceTheorems, TLAPS

-----------------------------------------------------------------------------
(* The table: what its operators do. *)

\* Every nonempty set of numbers has a least one.
LEMMA LeastNatural ==
    ASSUME NEW T, T \subseteq Nat, T # {}
    PROVE  \E n \in T : \A m \in T : n <= m
<1> DEFINE Below == {0..n : n \in T}
<1>1. Below \subseteq FiniteSubsetsOf(Nat)
  <2> SUFFICES ASSUME NEW n \in T PROVE 0..n \in FiniteSubsetsOf(Nat)
      OBVIOUS
  <2> QED  BY FS_Interval DEF FiniteSubsetsOf
<1>2. Below # {}
    OBVIOUS
<1>3. IsWellFoundedOn(StrictSubsetOrdering(Nat), FiniteSubsetsOf(Nat))
    BY FS_StrictSubsetOrderingWellFounded
<1>4. \E U \in Below : \A V \in Below : <<V, U>> \notin StrictSubsetOrdering(Nat)
  <2> HIDE DEF Below
  <2> QED  BY <1>1, <1>2, <1>3, WFMin
<1>5. PICK n \in T : \A V \in Below : <<V, 0..n>> \notin StrictSubsetOrdering(Nat)
    BY <1>4
<1>6. ASSUME NEW m \in T, m < n PROVE FALSE
  <2>1. /\ 0..m \in SUBSET Nat /\ 0..n \in SUBSET Nat
        /\ 0..m \subseteq 0..n /\ n \in 0..n /\ n \notin 0..m
      BY <1>6
  <2>2. <<0..m, 0..n>> \in StrictSubsetOrdering(Nat)
      BY <2>1 DEF StrictSubsetOrdering
  <2> QED  BY <1>5, <2>2
<1> QED  BY <1>5, <1>6

\* The least number that CHOOSE takes is one.
LEMMA LeastChosen ==
    ASSUME NEW T, T \subseteq Nat, T # {}
    PROVE  LET least == CHOOSE i \in T : \A j \in T : i <= j
           IN  least \in T /\ \A j \in T : least <= j
BY LeastNatural, Zenon

\* Entries with data, and tables with n buckets of them.
Items == [key : Keys, data : 1..MaxSets]
Tables(n) == [0..(n - 1) -> Seq(Items)]

\* Every entry is in the bucket of its key, and a key has one entry.
Placed(t, n) == \A b \in 0..(n - 1) : \A i \in 1..Len(t[b]) : HashFunc[t[b][i].key][n] = b
OneEntry(t, n) ==
    \A b \in 0..(n - 1) : \A i, j \in 1..Len(t[b]) : t[b][i].key = t[b][j].key => i = j

\* The places in some buckets of a table.
Seats(t, B) == {s \in B \X Nat : s[2] \in 1..Len(t[s[1]])}

\* ht_get on a table given as a value.
GetFrom(t, n, k) ==
    LET chain == t[HashFunc[k][n]] IN
    IF find_list(chain, k) = 0 THEN NoData ELSE chain[find_list(chain, k)].data

\* The hash respects the size.
LEMMA HashInTable ==
    ASSUME NEW k \in Keys, NEW n \in Sizes
    PROVE  HashFunc[k][n] \in 0..(n - 1) /\ n \in Nat /\ n > 0
BY TableAssumption

\* find_list finds an entry with the key, or there is none.
LEMMA FindsKey ==
    ASSUME NEW chain \in Seq(Items), NEW k
    PROVE  /\ find_list(chain, k) \in 0..Len(chain)
           /\ find_list(chain, k) > 0 => chain[find_list(chain, k)].key = k
           /\ find_list(chain, k) = 0 => \A i \in 1..Len(chain) : chain[i].key # k
<1> DEFINE I == {i \in 1..Len(chain) : chain[i].key = k}
           least == CHOOSE x \in I : \A y \in I : x <= y
<1>1. Len(chain) \in Nat
    BY LenProperties
<1>2. find_list(chain, k) = IF I # {} THEN least ELSE 0
    BY Zenon DEF find_list, SelectInSeq, Min
<1>3. CASE I = {}
    BY <1>1, <1>2, <1>3
<1>4. CASE I # {}
  <2>1. I \subseteq Nat
      BY <1>1
  <2>2. \E x \in I : \A y \in I : x <= y
    <3> HIDE DEF I
    <3> QED  BY <1>4, <2>1, LeastNatural
  <2>3. least \in I
    <3> HIDE DEF I
    <3> QED  BY <2>2, Zenon
  <2>4. find_list(chain, k) \in I
      BY <1>2, <1>4, <2>3, Zenon
  <2> QED  BY <1>1, <2>4
<1> QED  BY <1>3, <1>4

\* A key that is there is found where it is.
LEMMA GetFound ==
    ASSUME NEW n \in Sizes, NEW t \in Tables(n), OneEntry(t, n), NEW k \in Keys,
           NEW i \in 1..Len(t[HashFunc[k][n]]), t[HashFunc[k][n]][i].key = k
    PROVE  /\ GetFrom(t, n, k) = t[HashFunc[k][n]][i].data
           /\ GetFrom(t, n, k) \in 1..MaxSets
           /\ find_list(t[HashFunc[k][n]], k) = i
<1> DEFINE b == HashFunc[k][n]
           at == find_list(t[b], k)
<1>1. b \in 0..(n - 1) /\ t[b] \in Seq(Items)
    BY HashInTable DEF Tables
<1>2. Len(t[b]) \in Nat /\ t[b][i] \in Items
    BY <1>1, LenProperties, ElementOfSeq
<1>3. /\ at \in 0..Len(t[b]) /\ (at > 0 => t[b][at].key = k)
      /\ (at = 0 => \A j \in 1..Len(t[b]) : t[b][j].key # k)
    BY <1>1, FindsKey
<1>4. at > 0 /\ at \in 1..Len(t[b]) /\ t[b][at].key = k
  <2> HIDE DEF at, b
  <2> QED  BY <1>2, <1>3 DEF b
<1>5. at = i
    BY <1>1, <1>4 DEF OneEntry
<1>6. GetFrom(t, n, k) = t[b][at].data
  <2>1. at # 0
    <3> HIDE DEF at
    <3> QED  BY <1>4
  <2> QED  BY <2>1, Zenon DEF GetFrom
<1> QED  BY <1>2, <1>5, <1>6 DEF Items

\* A key that is not there is not found.
LEMMA GetMissing ==
    ASSUME NEW n \in Sizes, NEW t \in Tables(n), NEW k \in Keys,
           \A i \in 1..Len(t[HashFunc[k][n]]) : t[HashFunc[k][n]][i].key # k
    PROVE  GetFrom(t, n, k) = NoData /\ find_list(t[HashFunc[k][n]], k) = 0
<1> DEFINE b == HashFunc[k][n]
           at == find_list(t[b], k)
<1>1. b \in 0..(n - 1) /\ t[b] \in Seq(Items)
    BY HashInTable DEF Tables
<1>2. Len(t[b]) \in Nat
    BY <1>1, LenProperties
<1>3. at \in 0..Len(t[b]) /\ (at > 0 => t[b][at].key = k)
    BY <1>1, FindsKey
<1>4. at = 0
  <2> HIDE DEF at
  <2> QED  BY <1>2, <1>3
<1> QED  BY <1>4, Zenon DEF GetFrom

\* A new entry at the head of its chain.
PutHead(t, n, e) == [t EXCEPT ![HashFunc[e.key][n]] = <<e>> \o @]

\* Table u is t with entry e at the head of chain b.
NewHead(u, t, n, b, e) ==
    /\ u \in Tables(n) /\ b \in 0..(n - 1)
    /\ \A c \in 0..(n - 1) : c # b => u[c] = t[c]
    /\ Len(u[b]) = Len(t[b]) + 1 /\ u[b][1] = e
    /\ \A i \in 1..Len(t[b]) : u[b][i + 1] = t[b][i]

\* The other entries of the chain move up by one.
LEMMA HeadFacts ==
    ASSUME NEW n \in Sizes, NEW t \in Tables(n), NEW e \in Items
    PROVE  NewHead(PutHead(t, n, e), t, n, HashFunc[e.key][n], e)
<1> DEFINE b == HashFunc[e.key][n]
           u == PutHead(t, n, e)
<1>1. b \in 0..(n - 1) /\ t[b] \in Seq(Items) /\ e.key \in Keys
    BY HashInTable DEF Tables, Items
<1>2. <<e>> \in Seq(Items) /\ Len(<<e>>) = 1 /\ <<e>>[1] = e
    OBVIOUS
<1>3. Len(t[b]) \in Nat
    BY <1>1, LenProperties
<1>4. u[b] = <<e>> \o t[b] /\ \A c \in 0..(n - 1) : c # b => u[c] = t[c]
    BY <1>1 DEF PutHead, Tables
<1> DEFINE one == <<e>>
<1>4b. DOMAIN u = 0..(n - 1) /\ u = [c \in 0..(n - 1) |-> u[c]]
    BY DEF PutHead, Tables
<1> HIDE DEF one, b, u
<1>5. /\ one \o t[b] \in Seq(Items) /\ Len(one \o t[b]) = Len(one) + Len(t[b])
      /\ \A i \in 1..(Len(one) + Len(t[b])) : (one \o t[b])[i] =
            IF i <= Len(one) THEN one[i] ELSE t[b][i - Len(one)]
    BY <1>1, <1>2, ConcatProperties DEF one
<1>6. one \o t[b] = u[b] /\ Len(one) = 1 /\ one[1] = e
    BY <1>2, <1>4 DEF one
<1>7. /\ u[b] \in Seq(Items) /\ Len(u[b]) = Len(t[b]) + 1 /\ u[b][1] = e
      /\ \A i \in 1..Len(t[b]) : u[b][i + 1] = t[b][i]
  <2>1. \A i \in 1..(1 + Len(t[b])) : u[b][i] = IF i <= 1 THEN e ELSE t[b][i - 1]
      BY <1>5, <1>6
  <2>2. \A i \in 1..Len(t[b]) : u[b][i + 1] = t[b][i]
    <3> TAKE i \in 1..Len(t[b])
    <3>1. i + 1 \in 1..(1 + Len(t[b])) /\ ~(i + 1 <= 1) /\ i + 1 - 1 = i
        BY <1>3
    <3> QED  BY <2>1, <3>1
  <2> QED  BY <1>3, <1>5, <1>6, <2>1, <2>2
<1>8. u \in Tables(n)
  <2>2. \A c \in 0..(n - 1) : u[c] \in Seq(Items)
      BY <1>4, <1>7 DEF Tables
  <2> QED  BY <1>4b, <2>2 DEF Tables
<1>9. NewHead(u, t, n, b, e)
    BY <1>1, <1>4, <1>7, <1>8 DEF NewHead
<1> QED  BY <1>9 DEF u, b

\* A new key keeps entries in their buckets and keys single.
LEMMA HeadKeeps ==
    ASSUME NEW n \in Sizes, NEW t \in Tables(n), NEW e \in Items, Placed(t, n), OneEntry(t, n),
           \A i \in 1..Len(t[HashFunc[e.key][n]]) : t[HashFunc[e.key][n]][i].key # e.key
    PROVE  Placed(PutHead(t, n, e), n) /\ OneEntry(PutHead(t, n, e), n)
<1> DEFINE b == HashFunc[e.key][n]
           u == PutHead(t, n, e)
           m == Len(t[b])
<1>1. /\ u \in Tables(n) /\ b \in 0..(n - 1)
      /\ \A c \in 0..(n - 1) : c # b => u[c] = t[c]
      /\ Len(u[b]) = m + 1 /\ u[b][1] = e
      /\ \A i \in 1..m : u[b][i + 1] = t[b][i]
  <2>1. NewHead(u, t, n, b, e)
      BY HeadFacts, Zenon
  <2> HIDE DEF u, b
  <2> QED  BY <2>1 DEF NewHead
<1>2. m \in Nat
    BY <1>1, LenProperties DEF Tables
<1>3. \A i \in 1..m : t[b][i].key # e.key /\ HashFunc[t[b][i].key][n] = b
    BY <1>1 DEF Placed
<1>4. \A i, j \in 1..m : t[b][i].key = t[b][j].key => i = j
    BY <1>1 DEF OneEntry
<1>4a. HashFunc[e.key][n] = b
    OBVIOUS
<1> HIDE DEF b, u, m
<1>5. \A i \in 1..(m + 1) : i = 1 \/ (i - 1 \in 1..m /\ u[b][i] = t[b][i - 1])
  <2> TAKE i \in 1..(m + 1)
  <2>1. CASE i # 1
    <3>1. i - 1 \in 1..m /\ i - 1 + 1 = i
        BY <1>2, <2>1
    <3>2. u[b][i - 1 + 1] = t[b][i - 1]
        BY <1>1, <3>1
    <3> QED  BY <3>1, <3>2
  <2> QED  BY <2>1
<1>6. Placed(u, n)
  <2> SUFFICES ASSUME NEW c \in 0..(n - 1), NEW i \in 1..Len(u[c])
               PROVE  HashFunc[u[c][i].key][n] = c
      BY DEF Placed
  <2>1. CASE c # b
      BY <1>1, <2>1 DEF Placed
  <2>2. CASE c = b
    <3>1. i \in 1..(m + 1)
        BY <1>1, <2>2
    <3>2. CASE i = 1
        BY <1>1, <1>4a, <2>2, <3>2
    <3>3. CASE i # 1
      <4>1. i - 1 \in 1..m /\ u[b][i] = t[b][i - 1]
          BY <1>5, <3>1, <3>3
      <4> QED  BY <1>3, <2>2, <4>1
    <3> QED  BY <3>2, <3>3
  <2> QED  BY <2>1, <2>2
<1>7. OneEntry(u, n)
  <2> SUFFICES ASSUME NEW c \in 0..(n - 1), NEW i \in 1..Len(u[c]), NEW j \in 1..Len(u[c]),
                      u[c][i].key = u[c][j].key
               PROVE  i = j
      BY DEF OneEntry
  <2>1. CASE c # b
      BY <1>1, <2>1 DEF OneEntry
  <2>2. CASE c = b
    <3>1. i \in 1..(m + 1) /\ j \in 1..(m + 1)
        BY <1>1, <2>2
    <3>2. CASE i = 1 /\ j = 1
        BY <3>2
    <3>3. CASE i = 1 /\ j # 1
      <4>1. j - 1 \in 1..m /\ u[b][j] = t[b][j - 1]
          BY <1>5, <3>1, <3>3
      <4> QED  BY <1>1, <1>3, <2>2, <3>3, <4>1
    <3>4. CASE i # 1 /\ j = 1
      <4>1. i - 1 \in 1..m /\ u[b][i] = t[b][i - 1]
          BY <1>5, <3>1, <3>4
      <4> QED  BY <1>1, <1>3, <2>2, <3>4, <4>1
    <3>5. CASE i # 1 /\ j # 1
      <4>1. /\ i - 1 \in 1..m /\ u[b][i] = t[b][i - 1]
            /\ j - 1 \in 1..m /\ u[b][j] = t[b][j - 1]
          BY <1>5, <3>1, <3>5
      <4>2. i - 1 = j - 1
          BY <1>4, <2>2, <4>1
      <4> QED  BY <1>2, <3>1, <4>2
    <3> QED  BY <3>2, <3>3, <3>4, <3>5
  <2> QED  BY <2>1, <2>2
<1> QED  BY <1>6, <1>7 DEF u

\* One entry more in one chain is one place more.
LEMMA OneSeatMore ==
    ASSUME NEW n \in Sizes, NEW t \in Tables(n), NEW u \in Tables(n), NEW b \in 0..(n - 1),
           Len(u[b]) = Len(t[b]) + 1, \A c \in 0..(n - 1) : c # b => Len(u[c]) = Len(t[c])
    PROVE  LET old == Seats(t, 0..(n - 1))
               new == Seats(u, 0..(n - 1))
           IN  /\ IsFiniteSet(old) <=> IsFiniteSet(new)
               /\ IsFiniteSet(old) => Cardinality(new) = Cardinality(old) + 1
<1> DEFINE B == 0..(n - 1)
           old == Seats(t, B)
           new == Seats(u, B)
           m == Len(t[b])
           last == <<b, m + 1>>
<1>1. m \in Nat /\ b \in B
    BY LenProperties DEF Tables
<1>2. last \notin old
    BY <1>1 DEF Seats
<1>3. new = old \cup {last}
  <2>1. ASSUME NEW c \in B, NEW i \in Nat
        PROVE  <<c, i>> \in new <=> <<c, i>> \in old \/ <<c, i>> = last
    <3>1. <<c, i>> \in new <=> i \in 1..Len(u[c])
        BY <2>1 DEF Seats
    <3>2. <<c, i>> \in old <=> i \in 1..Len(t[c])
        BY <2>1 DEF Seats
    <3>3. CASE c # b
      <4>1. Len(u[c]) = Len(t[c]) /\ <<c, i>> # last
          BY <3>3
      <4> QED  BY <3>1, <3>2, <4>1
    <3>4. CASE c = b
      <4>1. i \in 1..(m + 1) <=> i \in 1..m \/ i = m + 1
          BY <1>1
      <4> QED  BY <3>1, <3>2, <3>4, <4>1
    <3> QED  BY <3>3, <3>4
  <2>2. \A s \in new : \E c \in B, i \in Nat : s = <<c, i>>
      BY DEF Seats
  <2>3. \A s \in old \cup {last} : \E c \in B, i \in Nat : s = <<c, i>>
      BY <1>1 DEF Seats
  <2> HIDE DEF new, old, last, B
  <2> QED  BY <2>1, <2>2, <2>3
<1>4. old = new \ {last}
    BY <1>2, <1>3
<1> HIDE DEF old, new, last
<1>5. IsFiniteSet(old) => IsFiniteSet(new) /\ Cardinality(new) = Cardinality(old) + 1
    BY <1>2, <1>3, FS_AddElement
<1>6. IsFiniteSet(new) => IsFiniteSet(old)
    BY <1>4, FS_RemoveElement
<1> QED  BY <1>5, <1>6 DEF old, new

\* Places of the buckets B, and of all but x.
LEMMA SeatsWithout ==
    ASSUME NEW t, NEW B, IsFiniteSet(Seats(t, B)), NEW x \in B, Len(t[x]) \in Nat
    PROVE  /\ IsFiniteSet(Seats(t, B \ {x}))
           /\ Cardinality(Seats(t, B)) = Len(t[x]) + Cardinality(Seats(t, B \ {x}))
<1> DEFINE all == Seats(t, B)
           some == Seats(t, B \ {x})
           own == {x} \X (1..Len(t[x]))
<1>1. all = some \cup own /\ some \cap own = {}
    BY DEF Seats
<1>2. some \in SUBSET all
    BY <1>1
<1>3. IsFiniteSet(some) /\ Cardinality(some) \in Nat
    BY <1>2, FS_Subset, FS_CardinalityType
<1>4. IsFiniteSet(own) /\ Cardinality(own) = Len(t[x])
  <2>1. IsFiniteSet(1..Len(t[x])) /\ Cardinality(1..Len(t[x])) = Len(t[x])
      BY FS_Interval
  <2>2. IsFiniteSet({x}) /\ Cardinality({x}) = 1
      BY FS_Singleton
  <2>3. IsFiniteSet(own) /\ Cardinality(own) = Cardinality({x}) * Cardinality(1..Len(t[x]))
      BY <2>1, <2>2, FS_Product
  <2> QED  BY <2>1, <2>2, <2>3
<1> HIDE DEF all, some, own
<1>5. Cardinality(some \cup own) = Cardinality(some) + Cardinality(own) - Cardinality(some \cap own)
    BY <1>3, <1>4, FS_Union
<1>6. Cardinality(some \cap own) = 0
    BY <1>1, FS_EmptySet
<1> QED  BY <1>1, <1>3, <1>4, <1>5, <1>6 DEF all, some

\* The sum of the lengths of chains is the number of places.
LEMMA SumIsSeats ==
    ASSUME NEW t, IsFiniteSet(DOMAIN t), \A b \in DOMAIN t : Len(t[b]) \in Nat,
           IsFiniteSet(Seats(t, DOMAIN t))
    PROVE  MapThenSumSet(LAMBDA b : Len(t[b]), DOMAIN t) = Cardinality(Seats(t, DOMAIN t))
<1> DEFINE D == DOMAIN t
           pick(s) == CHOOSE x \in s : TRUE
           Sums(f) == f = [s \in SUBSET D |->
                             IF s = {} THEN 0 ELSE Len(t[pick(s)]) + f[s \ {pick(s)}]]
           sum == CHOOSE f : Sums(f)
           seats == [s \in SUBSET D |-> Cardinality(Seats(t, s))]
<1>1. MapThenSumSet(LAMBDA b : Len(t[b]), D) = sum[D]
    BY Zenon DEF MapThenSumSet, MapThenFoldSet
<1>2. \A s \in SUBSET D : s # {} => pick(s) \in s
    OBVIOUS
<1>3. \A s \in SUBSET D : IsFiniteSet(Seats(t, s))
  <2> TAKE s \in SUBSET D
  <2>1. Seats(t, s) \in SUBSET Seats(t, D)
      BY DEF Seats
  <2> QED  BY <2>1, FS_Subset
<1>4. \A s \in SUBSET D : seats[s] =
          IF s = {} THEN 0 ELSE Len(t[pick(s)]) + seats[s \ {pick(s)}]
  <2> TAKE s \in SUBSET D
  <2>1. CASE s = {}
    <3>1. Seats(t, s) = {}
        BY <2>1 DEF Seats
    <3> QED  BY <2>1, <3>1, FS_EmptySet
  <2>2. CASE s # {}
    <3>1. pick(s) \in s /\ pick(s) \in D /\ s \ {pick(s)} \in SUBSET D
        BY <1>2, <2>2
    <3>2. seats[s] = Cardinality(Seats(t, s)) /\ seats[s \ {pick(s)}] = Cardinality(Seats(t, s \ {pick(s)}))
        BY <3>1
    <3> HIDE DEF pick, seats
    <3>3. Cardinality(Seats(t, s)) = Len(t[pick(s)]) + Cardinality(Seats(t, s \ {pick(s)}))
        BY <1>3, <3>1, SeatsWithout
    <3> QED  BY <2>2, <3>2, <3>3
  <2> QED  BY <2>1, <2>2
<1>5. Sums(seats)
  <2> DEFINE e(s) == IF s = {} THEN 0 ELSE Len(t[pick(s)]) + seats[s \ {pick(s)}]
  <2>1. seats = [s \in SUBSET D |-> seats[s]]
      OBVIOUS
  <2>2. \A s \in SUBSET D : seats[s] = e(s)
      BY <1>4
  <2>3. seats = [s \in SUBSET D |-> e(s)]
    <3> HIDE DEF seats, e
    <3> QED  BY <2>1, <2>2
  <2> QED  BY <2>3, Zenon DEF Sums, e
<1>6. Sums(sum)
    BY <1>5, Zenon
<1>7. \A s \in SUBSET D : sum[s] = IF s = {} THEN 0 ELSE Len(t[pick(s)]) + sum[s \ {pick(s)}]
  <2> DEFINE e(s) == IF s = {} THEN 0 ELSE Len(t[pick(s)]) + sum[s \ {pick(s)}]
  <2>1. sum = [s \in SUBSET D |-> e(s)]
      BY <1>6, Zenon DEF Sums, e
  <2> HIDE DEF e
  <2>2. \A s \in SUBSET D : sum[s] = e(s)
      BY <2>1
  <2> QED  BY <2>2 DEF e
<1> DEFINE Wrong == {Cardinality(s) : s \in {r \in SUBSET D : sum[r] # seats[r]}}
<1>8. Wrong = {}
  <2> SUFFICES ASSUME Wrong # {} PROVE FALSE
      OBVIOUS
  <2>1. \A s \in SUBSET D : IsFiniteSet(s) /\ Cardinality(s) \in Nat
      BY FS_Subset, FS_CardinalityType
  <2>2. Wrong \subseteq Nat
      BY <2>1
  <2>3. PICK m \in Wrong : \A k \in Wrong : m <= k
    <3> HIDE DEF Wrong
    <3> QED  BY <2>2, LeastNatural
  <2>4. PICK s \in SUBSET D : sum[s] # seats[s] /\ Cardinality(s) = m
      BY <2>3
  <2>5. CASE s = {}
      BY <1>4, <1>7, <2>4, <2>5
  <2>6. CASE s # {}
    <3> DEFINE r == s \ {pick(s)}
    <3>1. pick(s) \in s /\ r \in SUBSET D
        BY <1>2, <2>6
    <3>2. Cardinality(r) = m - 1 /\ m \in Nat
        BY <2>1, <2>4, <3>1, FS_RemoveElement
    <3>3. sum[r] = seats[r]
      <4> SUFFICES ASSUME sum[r] # seats[r] PROVE FALSE
          OBVIOUS
      <4>1. Cardinality(r) \in Wrong
          BY <3>1
      <4> HIDE DEF Wrong, r
      <4>2. m <= Cardinality(r)
          BY <2>3, <4>1
      <4> QED  BY <3>2, <4>2
    <3> HIDE DEF sum, seats, pick
    <3> QED  BY <1>4, <1>7, <2>4, <2>6, <3>3
  <2> QED  BY <2>5, <2>6
<1>9. sum[D] = seats[D]
  <2>1. D \in SUBSET D
      OBVIOUS
  <2> HIDE DEF sum, seats
  <2> QED  BY <1>8, <2>1
<1> QED  BY <1>1, <1>9

\* after[b] is the new table when the buckets below b are done, as ht_resize's loop fills it.
Refills(after, n, m) ==
    after = [b \in 0..m |->
               IF b = 0 THEN [c \in 0..(n - 1) |-> << >>]
               ELSE IF table[b - 1] = << >> THEN after[b - 1]
               ELSE PutHead(after[b - 1], n, table[b - 1][1])]

\* What it is at each bucket.
LEMMA RefillAt ==
    ASSUME NEW n, NEW m, NEW after, Refills(after, n, m), NEW b \in 0..m
    PROVE  after[b] = IF b = 0 THEN [c \in 0..(n - 1) |-> << >>]
                      ELSE IF table[b - 1] = << >> THEN after[b - 1]
                      ELSE PutHead(after[b - 1], n, table[b - 1][1])
<1> DEFINE e(c) == IF c = 0 THEN [d \in 0..(n - 1) |-> << >>]
                   ELSE IF table[c - 1] = << >> THEN after[c - 1]
                   ELSE PutHead(after[c - 1], n, table[c - 1][1])
<1>1. after = [c \in 0..m |-> e(c)]
    BY Zenon DEF Refills
<1> HIDE DEF e
<1>2. after[b] = e(b)
    BY <1>1
<1> QED  BY <1>2 DEF e

\* The loop can be run, however many buckets there are.
LEMMA RefillExists ==
    ASSUME NEW n, NEW m \in Nat
    PROVE  \E after : Refills(after, n, m)
<1> DEFINE T == {k \in Nat : ~ \E after : Refills(after, n, k)}
           empty == [c \in 0..(n - 1) |-> << >>]
<1>1. SUFFICES ASSUME T # {} PROVE FALSE
    OBVIOUS
<1>2. PICK k \in T : \A j \in T : k <= j
  <2>1. T \subseteq Nat
      OBVIOUS
  <2> HIDE DEF T
  <2> QED  BY <1>1, <2>1, LeastNatural
<1>3. k # 0
  <2> DEFINE f == [b \in 0..0 |-> empty]
             e(b) == IF b = 0 THEN empty
                     ELSE IF table[b - 1] = << >> THEN f[b - 1]
                     ELSE PutHead(f[b - 1], n, table[b - 1][1])
  <2>1. f = [b \in 0..0 |-> e(b)]
      OBVIOUS
  <2>2. Refills(f, n, 0)
      BY <2>1, Zenon DEF Refills
  <2> QED  BY <2>2
<1>4. PICK f : Refills(f, n, k - 1)
    BY <1>2, <1>3
<1> DEFINE step(g, b) == IF b = 0 THEN empty
                         ELSE IF table[b - 1] = << >> THEN g[b - 1]
                         ELSE PutHead(g[b - 1], n, table[b - 1][1])
           g == [b \in 0..k |-> IF b <= k - 1 THEN f[b] ELSE step(f, k)]
<1>5. \A b \in 0..k : g[b] = step(g, b)
  <2>1. \A b \in 0..(k - 1) : f[b] = step(f, b)
      BY <1>4, RefillAt
  <2>2. TAKE b \in 0..k
  <2>3. k \in Nat /\ k > 0
      BY <1>2, <1>3
  <2>4. \A c \in 0..(k - 1) : g[c] = f[c]
      BY <2>3
  <2>5. b # 0 => g[b - 1] = f[b - 1]
      BY <2>3, <2>4
  <2>6. step(g, b) = step(f, b)
    <3> HIDE DEF g
    <3> QED  BY <2>5
  <2>7. CASE b <= k - 1
    <3>1. g[b] = f[b] /\ b \in 0..(k - 1)
        BY <2>3, <2>7
    <3> HIDE DEF g, step
    <3> QED  BY <2>1, <2>6, <3>1
  <2>8. CASE ~(b <= k - 1)
    <3>1. b = k /\ g[b] = step(f, k)
        BY <2>3, <2>8
    <3> HIDE DEF g, step
    <3> QED  BY <2>6, <3>1
  <2> QED  BY <2>7, <2>8
<1>6. Refills(g, n, k)
  <2> DEFINE e(b) == step(g, b)
  <2>1. g = [b \in 0..k |-> g[b]]
      OBVIOUS
  <2>2. g = [b \in 0..k |-> e(b)]
    <3>1. \A b \in 0..k : g[b] = e(b)
        BY <1>5
    <3> HIDE DEF g, e, step
    <3> QED  BY <2>1, <3>1
  <2> HIDE DEF g
  <2> QED  BY <2>2, Zenon DEF Refills, e, step, empty
<1> QED  BY <1>2, <1>6

\* Moved is the end of the loop.
LEMMA MovedIsRefill ==
    ASSUME NEW n, size \in Nat
    PROVE  \E after : Refills(after, n, size) /\ Moved(n) = after[size]
<1> DEFINE f == CHOOSE after : Refills(after, n, size)
<1>1. Refills(f, n, size)
    BY RefillExists, Zenon
<1>2. Moved(n) = f[size]
    BY Zenon DEF Moved, Refills, PutHead, f
<1> QED  BY <1>1, <1>2

\* The buckets below m with a chain.
Chained(m) == {b \in 0..(m - 1) : table[b] # << >>}

\* The table is as lookups expect it.
ChainsOK == /\ size \in Sizes /\ table \in Tables(size)
            /\ Placed(table, size) /\ OneEntry(table, size)

\* The new table when the buckets below m are done: the heads of their chains, each
\* in the bucket of its key, and nothing else.
Refilled(u, n, m) ==
    /\ u \in Tables(n) /\ Placed(u, n) /\ OneEntry(u, n)
    /\ \A c \in 0..(n - 1) : \A i \in 1..Len(u[c]) : \E b \in Chained(m) : u[c][i] = table[b][1]
    /\ \A b \in Chained(m) : \E i \in 1..Len(u[HashFunc[table[b][1].key][n]]) :
          u[HashFunc[table[b][1].key][n]][i] = table[b][1]
    /\ IsFiniteSet(Seats(u, 0..(n - 1)))
    /\ Cardinality(Seats(u, 0..(n - 1))) = Cardinality(Chained(m))

\* The head of a chain.
LEMMA HeadOfChain ==
    ASSUME ChainsOK, NEW b \in 0..(size - 1), table[b] # << >>
    PROVE  /\ 1 \in 1..Len(table[b]) /\ table[b][1] \in Items
           /\ table[b][1].key \in Keys /\ table[b][1].data \in 1..MaxSets
           /\ HashFunc[table[b][1].key][size] = b
<1>1. table[b] \in Seq(Items)
    BY DEF ChainsOK, Tables
<1>2. Len(table[b]) \in Nat \ {0}
    BY <1>1, EmptySeq
<1>3. table[b][1] \in Items
    BY <1>1, <1>2, ElementOfSeq
<1> QED  BY <1>2, <1>3 DEF ChainsOK, Placed, Items

\* Before the loop the new table is empty.
LEMMA RefillStarts ==
    ASSUME ChainsOK, NEW n \in Sizes
    PROVE  Refilled([c \in 0..(n - 1) |-> << >>], n, 0)
<1> DEFINE u == [c \in 0..(n - 1) |-> << >>]
<1>1. n \in Nat /\ << >> \in Seq(Items) /\ Len(<< >>) = 0
    BY TableAssumption, EmptySeq
<1>2. u \in Tables(n) /\ \A c \in 0..(n - 1) : Len(u[c]) = 0
    BY <1>1 DEF Tables
<1>3. Seats(u, 0..(n - 1)) = {}
    BY <1>2 DEF Seats
<1>4. Chained(0) = {}
    BY DEF Chained
<1>5. IsFiniteSet(Seats(u, 0..(n - 1))) /\ Cardinality(Seats(u, 0..(n - 1))) = Cardinality(Chained(0))
    BY <1>3, <1>4, FS_EmptySet
<1> HIDE DEF u
<1>6. \A c \in 0..(n - 1) : 1..Len(u[c]) = {}
    BY <1>2
<1>7. Placed(u, n) /\ OneEntry(u, n)
    BY <1>6 DEF Placed, OneEntry
<1> QED  BY <1>2, <1>4, <1>5, <1>6, <1>7 DEF Refilled, u

\* A turn of the loop on an empty bucket changes nothing, one on a chain takes its head over.
LEMMA RefillTurn ==
    ASSUME ChainsOK, NEW n \in Sizes, NEW m \in 0..(size - 1), NEW u, Refilled(u, n, m)
    PROVE  Refilled(IF table[m] = << >> THEN u ELSE PutHead(u, n, table[m][1]), n, m + 1)
<1>0. size \in Nat /\ m \in Nat
    BY TableAssumption DEF ChainsOK
<1>1. Chained(m + 1) = IF table[m] = << >> THEN Chained(m) ELSE Chained(m) \cup {m}
    BY <1>0 DEF Chained
<1>2. m \notin Chained(m) /\ IsFiniteSet(Chained(m))
  <2>0. IsFiniteSet(0..(m - 1))
    <3>1. m - 1 \in Int /\ 0 \in Int
        BY <1>0
    <3> QED  BY <3>1, FS_Interval
  <2>1. IsFiniteSet(0..(m - 1)) /\ Chained(m) \in SUBSET (0..(m - 1))
      BY <2>0 DEF Chained
  <2>2. m \notin Chained(m)
      BY <1>0 DEF Chained
  <2> QED  BY <2>1, <2>2, FS_Subset
<1>3. CASE table[m] = << >>
    BY <1>1, <1>3 DEF Refilled
<1>4. CASE table[m] # << >>
  <2> DEFINE e == table[m][1]
             b == HashFunc[e.key][n]
             v == PutHead(u, n, e)
  <2>1. e \in Items /\ e.key \in Keys /\ HashFunc[e.key][size] = m
      BY <1>4, HeadOfChain
  <2>2. u \in Tables(n) /\ Placed(u, n) /\ OneEntry(u, n)
      BY DEF Refilled
  <2>3. b \in 0..(n - 1)
      BY <2>1, HashInTable
  <2>4. \A i \in 1..Len(u[b]) : u[b][i].key # e.key
    <3> SUFFICES ASSUME NEW i \in 1..Len(u[b]), u[b][i].key = e.key PROVE FALSE
        OBVIOUS
    <3>1. PICK c \in Chained(m) : u[b][i] = table[c][1]
        BY <2>3 DEF Refilled
    <3>2. c \in 0..(size - 1) /\ table[c] # << >> /\ c # m
        BY <1>0, <1>2 DEF Chained
    <3>3. HashFunc[table[c][1].key][size] = c
        BY <3>2, HeadOfChain
    <3> QED  BY <2>1, <3>1, <3>2, <3>3
  <2>5. /\ v \in Tables(n)
        /\ \A c \in 0..(n - 1) : c # b => v[c] = u[c]
        /\ Len(v[b]) = Len(u[b]) + 1 /\ v[b][1] = e
        /\ \A i \in 1..Len(u[b]) : v[b][i + 1] = u[b][i]
    <3>1. NewHead(v, u, n, b, e)
        BY <2>1, <2>2, HeadFacts, Zenon
    <3> HIDE DEF v, b, e
    <3> QED  BY <3>1 DEF NewHead
  <2>6. Placed(v, n) /\ OneEntry(v, n)
    <3> HIDE DEF e
    <3> QED  BY <2>1, <2>2, <2>4, HeadKeeps
  <2>7. Len(u[b]) \in Nat
      BY <2>2, <2>3, LenProperties DEF Tables
  <2>8. Chained(m + 1) = Chained(m) \cup {m} /\ HashFunc[e.key][n] = b
      BY <1>1, <1>4
  <2>9. e = table[m][1]
      OBVIOUS
  <2> HIDE DEF v, b, e
  <2>10. ASSUME NEW c \in 0..(n - 1), NEW i \in 1..Len(v[c])
         PROVE  \E d \in Chained(m + 1) : v[c][i] = table[d][1]
    <3>1. CASE c # b
        BY <2>5, <2>8, <3>1 DEF Refilled
    <3>2. CASE c = b /\ i = 1
        BY <2>5, <2>8, <2>9, <3>2
    <3>3. CASE c = b /\ i # 1
      <4>1. i - 1 \in 1..Len(u[b]) /\ i - 1 + 1 = i
          BY <2>5, <2>7, <3>3
      <4>2. v[b][i] = u[b][i - 1]
          BY <2>5, <4>1
      <4>3. \E d \in Chained(m) : u[b][i - 1] = table[d][1]
          BY <2>3, <4>1 DEF Refilled
      <4> QED  BY <2>8, <3>3, <4>2, <4>3
    <3> QED  BY <3>1, <3>2, <3>3
  <2>11. ASSUME NEW d \in Chained(m + 1)
         PROVE  \E i \in 1..Len(v[HashFunc[table[d][1].key][n]]) :
                  v[HashFunc[table[d][1].key][n]][i] = table[d][1]
    <3>1. CASE d = m
      <4>1. 1 \in 1..Len(v[b])
          BY <2>5, <2>7
      <4> QED  BY <2>5, <2>8, <2>9, <3>1, <4>1
    <3>2. CASE d # m
      <4> DEFINE c == HashFunc[table[d][1].key][n]
      <4>1. d \in Chained(m)
          BY <2>8, <3>2
      <4>2. PICK i \in 1..Len(u[c]) : u[c][i] = table[d][1]
          BY <4>1 DEF Refilled
      <4>3. c \in 0..(n - 1)
        <5>1. d \in 0..(size - 1) /\ table[d] # << >>
            BY <1>0, <4>1 DEF Chained
        <5> QED  BY <5>1, HeadOfChain, HashInTable
      <4> HIDE DEF c
      <4>4. CASE c # b
          BY <2>5, <4>2, <4>3, <4>4 DEF c
      <4>5. CASE c = b
        <5>1. i + 1 \in 1..Len(v[b]) /\ v[b][i + 1] = u[b][i]
            BY <2>5, <2>7, <4>2, <4>5
        <5> QED  BY <4>2, <4>5, <5>1 DEF c
      <4> QED  BY <4>4, <4>5
    <3> QED  BY <3>1, <3>2
  <2>12. /\ IsFiniteSet(Seats(v, 0..(n - 1)))
         /\ Cardinality(Seats(v, 0..(n - 1))) = Cardinality(Seats(u, 0..(n - 1))) + 1
    <3>1. IsFiniteSet(Seats(u, 0..(n - 1)))
        BY DEF Refilled
    <3>2. \A c \in 0..(n - 1) : c # b => Len(v[c]) = Len(u[c])
        BY <2>5
    <3> QED  BY <2>2, <2>3, <2>5, <3>1, <3>2, OneSeatMore
  <2>13. Cardinality(Chained(m + 1)) = Cardinality(Chained(m)) + 1
      BY <1>2, <2>8, FS_AddElement
  <2>14. Refilled(v, n, m + 1)
    <3>1. Cardinality(Seats(u, 0..(n - 1))) = Cardinality(Chained(m))
        BY DEF Refilled
    <3> QED  BY <2>5, <2>6, <2>10, <2>11, <2>12, <2>13, <3>1 DEF Refilled
  <2> QED  BY <1>4, <2>14 DEF v, e
<1> QED  BY <1>3, <1>4

\* ht_resize leaves the heads of the chains, each in its new bucket, and nothing else.
LEMMA MovedIsRefilled ==
    ASSUME ChainsOK, NEW n \in Sizes
    PROVE  Refilled(Moved(n), n, size)
<1>1. size \in Nat
    BY TableAssumption DEF ChainsOK
<1>2. PICK f : Refills(f, n, size) /\ Moved(n) = f[size]
    BY <1>1, MovedIsRefill
<1> DEFINE T == {m \in 0..size : ~Refilled(f[m], n, m)}
<1>3. T = {}
  <2> SUFFICES ASSUME T # {} PROVE FALSE
      OBVIOUS
  <2>1. PICK m \in T : \A j \in T : m <= j
    <3>1. T \subseteq Nat
        BY <1>1
    <3> HIDE DEF T
    <3> QED  BY <3>1, LeastNatural
  <2>2. m \in 0..size /\ ~Refilled(f[m], n, m)
      BY <2>1
  <2>3. f[m] = IF m = 0 THEN [c \in 0..(n - 1) |-> << >>]
               ELSE IF table[m - 1] = << >> THEN f[m - 1]
               ELSE PutHead(f[m - 1], n, table[m - 1][1])
      BY <1>2, <2>2, RefillAt
  <2>4. CASE m = 0
      BY <2>2, <2>3, <2>4, RefillStarts
  <2>5. CASE m # 0
    <3>1. m - 1 \in 0..(size - 1) /\ m - 1 \in 0..size /\ m - 1 + 1 = m /\ ~(m <= m - 1)
        BY <1>1, <2>2, <2>5
    <3>2. Refilled(f[m - 1], n, m - 1)
      <4> SUFFICES ASSUME ~Refilled(f[m - 1], n, m - 1) PROVE FALSE
          OBVIOUS
      <4>1. m - 1 \in T
          BY <3>1
      <4> HIDE DEF T
      <4> QED  BY <2>1, <3>1, <4>1
    <3>3. Refilled(IF table[m - 1] = << >> THEN f[m - 1]
                   ELSE PutHead(f[m - 1], n, table[m - 1][1]), n, m - 1 + 1)
      <4> DEFINE k == m - 1
      <4>1. k \in 0..(size - 1) /\ Refilled(f[k], n, k)
          BY <3>1, <3>2
      <4> HIDE DEF k
      <4>2. Refilled(IF table[k] = << >> THEN f[k] ELSE PutHead(f[k], n, table[k][1]), n, k + 1)
          BY <4>1, RefillTurn
      <4> QED  BY <4>2 DEF k
    <3> QED  BY <2>2, <2>3, <2>5, <3>1, <3>3, Zenon
  <2> QED  BY <2>4, <2>5
<1>4. size \in 0..size
    BY <1>1
<1> QED  BY <1>2, <1>3, <1>4

-----------------------------------------------------------------------------
(* The table: its invariant. *)

\* The chains are as lookups expect them, the counter is the number of entries, and all
\* data are from calls of ht_set so far.
DataInv ==
    /\ sets \in 0..MaxSets /\ destroyed \subseteq 1..sets
    /\ \A b \in 0..(size - 1) : \A i \in 1..Len(table[b]) : table[b][i].data <= sets
CountOK ==
    /\ IsFiniteSet(Seats(table, 0..(size - 1)))
    /\ count = Cardinality(Seats(table, 0..(size - 1)))
StatusOK == status \in {"open", "destroyed", "crashed"}
ChainInv == ChainsOK /\ DataInv /\ CountOK /\ StatusOK

\* Entry e is in the chain of key k.
Holds(t, n, k, e) ==
    e.key = k /\ \E i \in 1..Len(t[HashFunc[k][n]]) : t[HashFunc[k][n]][i] = e

\* What ht_get says of the key of an entry, and of a key without one.
LEMMA GetIs ==
    ASSUME NEW n \in Sizes, NEW t \in Tables(n), OneEntry(t, n), NEW k \in Keys
    PROVE  /\ \A e \in Items : Holds(t, n, k, e) => GetFrom(t, n, k) = e.data
           /\ (\A e \in Items : ~Holds(t, n, k, e)) => GetFrom(t, n, k) = NoData
           /\ GetFrom(t, n, k) # NoData => \E e \in Items : Holds(t, n, k, e)
<1> DEFINE b == HashFunc[k][n]
<1>1. t[b] \in Seq(Items)
    BY HashInTable DEF Tables
<1>2. \A i \in 1..Len(t[b]) : t[b][i] \in Items
    BY <1>1, ElementOfSeq
<1>3. ASSUME NEW e \in Items, Holds(t, n, k, e) PROVE GetFrom(t, n, k) = e.data
  <2>1. PICK i \in 1..Len(t[b]) : t[b][i] = e /\ e.key = k
      BY <1>3 DEF Holds
  <2> HIDE DEF b
  <2>2. t[b][i].key = k
      BY <2>1
  <2>3. i \in 1..Len(t[HashFunc[k][n]]) /\ t[HashFunc[k][n]][i].key = k /\ t[HashFunc[k][n]][i] = e
      BY <2>1, <2>2 DEF b
  <2>4. GetFrom(t, n, k) = t[HashFunc[k][n]][i].data
      BY <2>3, GetFound
  <2> QED  BY <2>3, <2>4
<1>4. ASSUME \A e \in Items : ~Holds(t, n, k, e) PROVE GetFrom(t, n, k) = NoData
  <2>1. \A i \in 1..Len(t[b]) : t[b][i].key # k
      BY <1>2, <1>4 DEF Holds
  <2> QED  BY <2>1, GetMissing, Zenon DEF b
<1> QED  BY <1>3, <1>4

\* Tables with the same entry of a key give the same answer.
LEMMA GetSame ==
    ASSUME NEW n \in Sizes, NEW t \in Tables(n), OneEntry(t, n), NEW k \in Keys,
           NEW m \in Sizes, NEW u \in Tables(m), OneEntry(u, m),
           \A e \in Items : Holds(t, n, k, e) <=> Holds(u, m, k, e)
    PROVE  GetFrom(t, n, k) = GetFrom(u, m, k)
<1>1. CASE \E e \in Items : Holds(t, n, k, e)
  <2>1. PICK e \in Items : Holds(t, n, k, e) /\ Holds(u, m, k, e)
      BY <1>1
  <2>2. GetFrom(t, n, k) = e.data
      BY <2>1, GetIs, Zenon
  <2>3. GetFrom(u, m, k) = e.data
      BY <2>1, GetIs, Zenon
  <2> QED  BY <2>2, <2>3
<1>2. CASE \A e \in Items : ~Holds(t, n, k, e)
  <2>1. \A e \in Items : ~Holds(u, m, k, e)
      BY <1>2
  <2>2. GetFrom(u, m, k) = NoData
      BY <2>1, GetIs, Zenon
  <2>3. GetFrom(t, n, k) = NoData
      BY <1>2, GetIs, Zenon
  <2> QED  BY <2>2, <2>3
<1> QED  BY <1>1, <1>2

\* Only the entry of key k changes.
OnlyEntry(k) ==
    \A j \in Keys \ {k} : \A e \in Items :
        Holds(table, size, j, e) <=> Holds(table', size', j, e)

\* What the steps below say of a chain.
LEMMA ChainTypes ==
    ASSUME ChainsOK, NEW k \in Keys
    PROVE  /\ size \in Nat /\ Bucket(k) \in 0..(size - 1)
           /\ table[Bucket(k)] \in Seq(Items) /\ Len(table[Bucket(k)]) \in Nat
           /\ \A i \in 1..Len(table[Bucket(k)]) : table[Bucket(k)][i] \in Items
           /\ find_list(table[Bucket(k)], k) \in 0..Len(table[Bucket(k)])
           /\ find_list(table[Bucket(k)], k) > 0 =>
                 table[Bucket(k)][find_list(table[Bucket(k)], k)].key = k
           /\ find_list(table[Bucket(k)], k) = 0 =>
                 \A i \in 1..Len(table[Bucket(k)]) : table[Bucket(k)][i].key # k
<1>1. size \in Nat /\ Bucket(k) \in 0..(size - 1)
    BY HashInTable DEF ChainsOK, Bucket
<1>2. table[Bucket(k)] \in Seq(Items)
    BY <1>1 DEF ChainsOK, Tables
<1> QED  BY <1>1, <1>2, LenProperties, ElementOfSeq, FindsKey

\* At the start there is no entry.
LEMMA InitChainInv == TableInit => ChainInv
<1> SUFFICES ASSUME TableInit PROVE ChainInv
    OBVIOUS
<1>1. /\ size \in Sizes /\ size \in Nat /\ MaxSets \in Nat
      /\ table = [b \in 0..(size - 1) |-> << >>] /\ count = 0 /\ destroyed = {} /\ sets = 0
    BY TableAssumption DEF TableInit
<1>2. << >> \in Seq(Items) /\ Len(<< >>) = 0
    BY EmptySeq
<1>3. table \in Tables(size) /\ \A b \in 0..(size - 1) : 1..Len(table[b]) = {}
    BY <1>1, <1>2 DEF Tables
<1>4. Placed(table, size) /\ OneEntry(table, size)
    BY <1>3 DEF Placed, OneEntry
<1>5. Seats(table, 0..(size - 1)) = {}
    BY <1>3 DEF Seats
<1>6. CountOK
    BY <1>1, <1>5, FS_EmptySet DEF CountOK
<1>7. DataInv
    BY <1>1, <1>3 DEF DataInv
<1> QED  BY <1>1, <1>3, <1>4, <1>6, <1>7 DEF ChainInv, ChainsOK, StatusOK, TableInit

\* An overwritten entry has the key and the new datum; the others stay.
LEMMA OverwriteStep ==
    ASSUME ChainInv, NEW k \in Keys, ht_set(k), ht_set_Overwrite(k)
    PROVE  /\ ChainsOK' /\ DataInv' /\ CountOK' /\ OnlyEntry(k)
           /\ Holds(table', size', k, Entry(k, sets + 1))
           /\ \E e \in Items : Holds(table, size, k, e) /\ destroyed' = destroyed \cup {e.data}
<1> DEFINE b == Bucket(k)
           chain == table[b]
           at == find_list(chain, k)
           new == Entry(k, sets + 1)
           fresh == [chain EXCEPT ![at] = new]
<1>1. /\ sets < MaxSets /\ sets' = sets + 1 /\ size' = size /\ count' = count
      /\ at > 0 /\ table' = [table EXCEPT ![b][at].data = sets + 1]
      /\ destroyed' = destroyed \cup {chain[at].data}
    BY DEF ht_set, ht_set_Overwrite
<1>2. /\ size \in Nat /\ b \in 0..(size - 1) /\ chain \in Seq(Items) /\ Len(chain) \in Nat
      /\ \A i \in 1..Len(chain) : chain[i] \in Items
      /\ at \in 0..Len(chain) /\ (at > 0 => chain[at].key = k)
    BY ChainTypes DEF ChainInv
<1>3. /\ size \in Sizes /\ table \in Tables(size) /\ Placed(table, size) /\ OneEntry(table, size)
      /\ sets \in Nat /\ MaxSets \in Nat
    BY TableAssumption DEF ChainInv, ChainsOK, DataInv
<1>4. at \in 1..Len(chain) /\ chain[at].key = k /\ chain[at] \in Items
  <2> HIDE DEF chain, at
  <2> QED  BY <1>1, <1>2
<1>5. new \in Items /\ new.key = k /\ new.data = sets + 1
    BY <1>1, <1>3 DEF Items, Entry
<1>6. [chain[at] EXCEPT !.data = sets + 1] = new
  <2> HIDE DEF chain, at
  <2> QED  BY <1>4 DEF Items, Entry
<1>7. table' = [table EXCEPT ![b] = fresh]
  <2>1. table' = [table EXCEPT ![b] = [table[b] EXCEPT ![at] = [table[b][at] EXCEPT !.data = sets + 1]]]
    <3> HIDE DEF b, at
    <3> QED  BY <1>1
  <2> HIDE DEF at, b, new
  <2> QED  BY <1>6, <2>1
<1> HIDE DEF new, at
<1>8. /\ fresh \in Seq(Items) /\ Len(fresh) = Len(chain)
      /\ \A j \in 1..Len(chain) : fresh[j] = IF j = at THEN new ELSE chain[j]
  <2> HIDE DEF chain
  <2> QED  BY <1>2, <1>4, <1>5, ExceptSeq
<1> HIDE DEF fresh
<1>9. table'[b] = fresh /\ \A c \in 0..(size - 1) : c # b => table'[c] = table[c]
    BY <1>2, <1>3, <1>7 DEF Tables
<1>10. table' \in Tables(size)
    BY <1>2, <1>3, <1>7, <1>8 DEF Tables
<1> HIDE DEF b, chain
<1>11. b = HashFunc[k][size] /\ chain = table[b]
    BY DEF b, chain, Bucket
<1>12. \A c \in 0..(size - 1) :
          /\ Len(table'[c]) = Len(table[c])
          /\ \A j \in 1..Len(table[c]) : /\ table'[c][j].key = table[c][j].key
                                         /\ table'[c][j] = table[c][j] \/ table'[c][j] = new
    BY <1>4, <1>5, <1>8, <1>9, <1>11
<1>13. Placed(table', size) /\ OneEntry(table', size)
  <2>1. Placed(table', size)
      BY <1>3, <1>12 DEF Placed
  <2>2. OneEntry(table', size)
      BY <1>3, <1>12 DEF OneEntry
  <2> QED  BY <2>1, <2>2
<1>14. ChainsOK'
    BY <1>1, <1>3, <1>10, <1>13 DEF ChainsOK
<1>15. DataInv'
  <2>1. sets' \in 0..MaxSets /\ destroyed \subseteq 1..sets /\ 1..sets \subseteq 1..sets'
      BY <1>1, <1>3 DEF ChainInv, DataInv
  <2>2. chain[at].data \in 1..sets
    <3>1. table[b][at].data <= sets /\ chain[at] = table[b][at]
        BY <1>2, <1>4, <1>11 DEF ChainInv, DataInv
    <3>2. table[b][at].data \in 1..MaxSets
        BY <1>4, <1>11 DEF Items
    <3> QED  BY <1>3, <3>1, <3>2
  <2>3. \A c \in 0..(size - 1) : \A j \in 1..Len(table[c]) : table[c][j] \in Items /\ table[c][j].data <= sets
      BY <1>3, ElementOfSeq DEF ChainInv, DataInv, Tables
  <2>4. \A c \in 0..(size - 1) : \A j \in 1..Len(table'[c]) : table'[c][j].data <= sets'
      BY <1>1, <1>3, <1>5, <1>12, <2>3 DEF Items
  <2> QED  BY <1>1, <2>1, <2>2, <2>4 DEF DataInv
<1>16. CountOK'
  <2>1. Seats(table', 0..(size - 1)) = Seats(table, 0..(size - 1))
      BY <1>12 DEF Seats
  <2> QED  BY <1>1, <2>1 DEF ChainInv, CountOK
<1>17. ASSUME NEW j \in Keys \ {k}, NEW e \in Items
       PROVE  Holds(table, size, j, e) <=> Holds(table', size', j, e)
  <2> DEFINE c == HashFunc[j][size]
  <2>1. c \in 0..(size - 1)
      BY <1>3, HashInTable
  <2>2. e.key = j => \A i \in 1..Len(table[c]) : table[c][i] = e <=> table'[c][i] = e
    <3> SUFFICES ASSUME e.key = j, NEW i \in 1..Len(table[c])
                 PROVE  table[c][i] = e <=> table'[c][i] = e
        OBVIOUS
    <3>1. CASE c = b /\ i = at
        BY <1>4, <1>5, <1>8, <1>9, <1>11, <3>1
    <3>2. CASE c = b /\ i # at
        BY <1>8, <1>9, <1>11, <3>2
    <3>3. CASE c # b
        BY <1>9, <2>1, <3>3
    <3> QED  BY <3>1, <3>2, <3>3
  <2>3. Len(table'[c]) = Len(table[c])
      BY <1>12, <2>1
  <2> QED  BY <1>1, <2>2, <2>3 DEF Holds
<1>18. Holds(table', size', k, new)
    BY <1>1, <1>4, <1>5, <1>8, <1>9, <1>11 DEF Holds
<1>19. Holds(table, size, k, chain[at])
    BY <1>4, <1>11 DEF Holds
<1> QED  BY <1>1, <1>4, <1>14, <1>15, <1>16, <1>17, <1>18, <1>19 DEF OnlyEntry, new

\* A new entry is at the head of its chain; the others stay.
LEMMA InsertStep ==
    ASSUME ChainInv, NEW k \in Keys, ht_set(k), ht_set_Insert(k)
    PROVE  /\ ChainsOK' /\ DataInv' /\ CountOK' /\ OnlyEntry(k)
           /\ Holds(table', size', k, Entry(k, sets + 1))
           /\ \A e \in Items : ~Holds(table, size, k, e)
           /\ destroyed' = destroyed
<1> DEFINE b == Bucket(k)
           new == Entry(k, sets + 1)
           m == Len(table[b])
<1>1. /\ sets < MaxSets /\ sets' = sets + 1 /\ size' = size /\ count' = count + 1
      /\ find_list(table[b], k) = 0 /\ table' = [table EXCEPT ![b] = <<new>> \o @]
      /\ destroyed' = destroyed
    BY DEF ht_set, ht_set_Insert
<1>2. /\ size \in Nat /\ b \in 0..(size - 1) /\ m \in Nat
      /\ \A i \in 1..m : table[b][i].key # k
    BY <1>1, ChainTypes DEF ChainInv
<1>3. /\ size \in Sizes /\ table \in Tables(size) /\ Placed(table, size) /\ OneEntry(table, size)
      /\ sets \in Nat /\ MaxSets \in Nat
    BY TableAssumption DEF ChainInv, ChainsOK, DataInv
<1>4. new \in Items /\ new.key = k /\ new.data = sets + 1
    BY <1>1, <1>3 DEF Items, Entry
<1>5. b = HashFunc[new.key][size] /\ b = HashFunc[k][size]
    BY <1>4 DEF Bucket
<1>6. table' = PutHead(table, size, new)
    BY <1>1, <1>5 DEF PutHead
<1> HIDE DEF new, b, m
<1>7. NewHead(table', table, size, b, new)
  <2>1. NewHead(PutHead(table, size, new), table, size, HashFunc[new.key][size], new)
      BY <1>3, <1>4, HeadFacts, Zenon
  <2> QED  BY <1>5, <1>6, <2>1
<1>8. Placed(table', size) /\ OneEntry(table', size)
  <2>1. \A i \in 1..Len(table[HashFunc[new.key][size]]) : table[HashFunc[new.key][size]][i].key # new.key
      BY <1>2, <1>4, <1>5 DEF m
  <2>2. Placed(PutHead(table, size, new), size) /\ OneEntry(PutHead(table, size, new), size)
      BY <1>3, <1>4, <2>1, HeadKeeps, Zenon
  <2> QED  BY <1>6, <2>2
<1>9. ChainsOK'
    BY <1>1, <1>3, <1>7, <1>8 DEF ChainsOK, NewHead
<1>10. /\ \A c \in 0..(size - 1) : c # b => table'[c] = table[c]
       /\ Len(table'[b]) = m + 1 /\ table'[b][1] = new
       /\ \A i \in 1..m : table'[b][i + 1] = table[b][i]
    BY <1>7 DEF NewHead, m
<1>11. \A i \in 1..(m + 1) : i = 1 \/ (i - 1 \in 1..m /\ table'[b][i] = table[b][i - 1])
  <2> TAKE i \in 1..(m + 1)
  <2>1. CASE i # 1
    <3>1. i - 1 \in 1..m /\ i - 1 + 1 = i
        BY <1>2, <2>1
    <3>2. table'[b][i - 1 + 1] = table[b][i - 1]
        BY <1>10, <3>1
    <3> QED  BY <3>1, <3>2
  <2> QED  BY <2>1
<1>12. DataInv'
  <2>1. sets' \in 0..MaxSets /\ destroyed' \subseteq 1..sets'
      BY <1>1, <1>3 DEF ChainInv, DataInv
  <2>2. \A c \in 0..(size - 1) : \A j \in 1..Len(table[c]) : table[c][j] \in Items /\ table[c][j].data <= sets
      BY <1>3, ElementOfSeq DEF ChainInv, DataInv, Tables
  <2>3. ASSUME NEW c \in 0..(size - 1), NEW j \in 1..Len(table'[c]) PROVE table'[c][j].data <= sets'
    <3>1. \A d \in 0..(size - 1) : \A i \in 1..Len(table[d]) : table[d][i].data <= sets'
        BY <1>1, <1>3, <2>2 DEF Items
    <3>2. CASE c # b
        BY <1>10, <2>3, <3>1, <3>2
    <3>3. CASE c = b
      <4>1. j = 1 \/ (j - 1 \in 1..m /\ table'[b][j] = table[b][j - 1])
          BY <1>10, <1>11, <2>3, <3>3
      <4>2. CASE j = 1
          BY <1>1, <1>3, <1>4, <1>10, <3>3, <4>2
      <4>3. CASE j # 1
          BY <1>2, <3>1, <3>3, <4>1, <4>3 DEF m
      <4> QED  BY <4>2, <4>3
    <3> QED  BY <3>2, <3>3
  <2> QED  BY <1>1, <2>1, <2>3 DEF DataInv
<1>13. CountOK'
  <2>1. table' \in Tables(size) /\ \A c \in 0..(size - 1) : c # b => Len(table'[c]) = Len(table[c])
      BY <1>7 DEF NewHead
  <2>2. IsFiniteSet(Seats(table, 0..(size - 1))) /\ count = Cardinality(Seats(table, 0..(size - 1)))
      BY DEF ChainInv, CountOK
  <2>3. /\ IsFiniteSet(Seats(table', 0..(size - 1)))
        /\ Cardinality(Seats(table', 0..(size - 1))) = Cardinality(Seats(table, 0..(size - 1))) + 1
    <3>1. Len(table'[b]) = Len(table[b]) + 1
        BY <1>10 DEF m
    <3> QED  BY <1>2, <1>3, <2>1, <2>2, <3>1, OneSeatMore
  <2> QED  BY <1>1, <2>2, <2>3 DEF CountOK
<1>14. ASSUME NEW j \in Keys \ {k}, NEW e \in Items
       PROVE  Holds(table, size, j, e) <=> Holds(table', size', j, e)
  <2> DEFINE c == HashFunc[j][size]
  <2>1. c \in 0..(size - 1)
      BY <1>3, HashInTable
  <2>2. CASE c # b
      BY <1>1, <1>10, <2>1, <2>2 DEF Holds
  <2>3. CASE c = b
    <3>1. ASSUME e.key = j, NEW i \in 1..m, table[b][i] = e
          PROVE  \E x \in 1..(m + 1) : table'[b][x] = e
      <4>1. i + 1 \in 1..(m + 1) /\ table'[b][i + 1] = e
          BY <1>2, <1>10, <3>1
      <4> QED  BY <4>1
    <3>2. ASSUME e.key = j, NEW i \in 1..(m + 1), table'[b][i] = e
          PROVE  \E x \in 1..m : table[b][x] = e
      <4>1. i # 1
          BY <1>4, <1>10, <3>2
      <4> QED  BY <1>11, <3>2, <4>1
    <3>3. e.key = j => ((\E i \in 1..m : table[b][i] = e) <=> \E x \in 1..(m + 1) : table'[b][x] = e)
        BY <3>1, <3>2
    <3>4. Len(table[b]) = m /\ Len(table'[b]) = m + 1 /\ HashFunc[j][size] = b /\ size' = size
        BY <1>1, <1>10, <2>3 DEF m
    <3> QED  BY <3>3, <3>4 DEF Holds
  <2> QED  BY <2>2, <2>3
<1>15. Holds(table', size', k, new)
  <2>1. 1 \in 1..(m + 1)
      BY <1>2
  <2> QED  BY <1>1, <1>4, <1>5, <1>10, <2>1 DEF Holds
<1>16. \A e \in Items : ~Holds(table, size, k, e)
    BY <1>2, <1>5 DEF Holds, m
<1> QED  BY <1>1, <1>9, <1>12, <1>13, <1>14, <1>15, <1>16 DEF OnlyEntry, new

\* The chain without its entry at a place: the places that are left, and no other.
LEMMA ChainWithout ==
    ASSUME NEW chain \in Seq(Items), NEW p \in 1..Len(chain)
    PROVE  /\ RemoveAt(chain, p) \in Seq(Items) /\ Len(RemoveAt(chain, p)) + 1 = Len(chain)
           /\ \A i \in 1..Len(RemoveAt(chain, p)) :
                 \E j \in 1..Len(chain) \ {p} : /\ RemoveAt(chain, p)[i] = chain[j]
                                                /\ j = IF i < p THEN i ELSE i + 1
           /\ \A j \in 1..Len(chain) \ {p} :
                 \E i \in 1..Len(RemoveAt(chain, p)) : RemoveAt(chain, p)[i] = chain[j]
<1> DEFINE front == SubSeq(chain, 1, p - 1)
           back == SubSeq(chain, p + 1, Len(chain))
           m == Len(chain)
           shorter == RemoveAt(chain, p)
<1>1. m \in Nat /\ \A i \in 1..m : chain[i] \in Items
    BY ElementOfSeq, LenProperties
<1>2. /\ front \in Seq(Items) /\ Len(front) = p - 1
      /\ \A i \in 1..(p - 1) : front[i] = chain[i]
    BY <1>1
<1>3. /\ back \in Seq(Items) /\ Len(back) = m - p
      /\ \A i \in 1..(m - p) : back[i] = chain[p + i]
    BY <1>1
<1>4. shorter = front \o back
    BY DEF RemoveAt
<1> HIDE DEF front, back
<1>5. /\ front \o back \in Seq(Items)
      /\ Len(front \o back) = Len(front) + Len(back)
      /\ \A i \in 1..(Len(front) + Len(back)) :
           (front \o back)[i] = IF i <= Len(front) THEN front[i] ELSE back[i - Len(front)]
    BY <1>2, <1>3, ConcatProperties
<1>6. shorter \in Seq(Items) /\ Len(shorter) = m - 1
    BY <1>1, <1>2, <1>3, <1>4, <1>5
<1> HIDE DEF shorter, m
<1>7. ASSUME NEW i \in 1..(m - 1)
      PROVE  shorter[i] = IF i < p THEN chain[i] ELSE chain[i + 1]
  <2>1. i \in 1..(Len(front) + Len(back))
      BY <1>1, <1>2, <1>3
  <2>2. CASE i < p
      BY <2>1, <2>2, <1>1, <1>2, <1>3, <1>4, <1>5
  <2>3. CASE ~(i < p)
    <3>1. i - Len(front) \in 1..(m - p) /\ p + (i - Len(front)) = i + 1
        BY <2>3, <1>1, <1>2
    <3> QED  BY <3>1, <2>1, <2>3, <1>1, <1>2, <1>3, <1>4, <1>5
  <2> QED  BY <2>2, <2>3
<1>8. p \in 1..m /\ m \in Nat
    BY <1>1 DEF m
<1>9. ASSUME NEW i \in 1..(m - 1)
      PROVE  \E j \in 1..m \ {p} : shorter[i] = chain[j] /\ j = IF i < p THEN i ELSE i + 1
  <2>1. i < p => i \in 1..m \ {p}
      BY <1>8
  <2>2. ~(i < p) => i + 1 \in 1..m \ {p}
      BY <1>8
  <2> QED  BY <1>7, <2>1, <2>2
<1>10. ASSUME NEW j \in 1..m \ {p} PROVE \E i \in 1..(m - 1) : shorter[i] = chain[j]
  <2>1. CASE j < p
    <3>1. j \in 1..(m - 1)
        BY <1>8, <2>1
    <3> QED  BY <1>7, <2>1, <3>1
  <2>2. CASE ~(j < p)
    <3>1. j - 1 \in 1..(m - 1) /\ ~(j - 1 < p) /\ j - 1 + 1 = j
        BY <1>8, <2>2
    <3> QED  BY <1>7, <3>1
  <2> QED  BY <2>1, <2>2
<1>11. Len(shorter) + 1 = m /\ Len(shorter) = m - 1
    BY <1>6, <1>8
<1> QED  BY <1>6, <1>9, <1>10, <1>11 DEF shorter, m

\* A deleted entry leaves its chain and goes to the destructor; the others stay.
LEMMA DeleteStep ==
    ASSUME ChainInv, NEW k \in Keys, ht_delete(k), ht_delete_Found(k)
    PROVE  /\ ChainsOK' /\ DataInv' /\ CountOK' /\ OnlyEntry(k)
           /\ \A e \in Items : ~Holds(table', size', k, e)
           /\ \E e \in Items : Holds(table, size, k, e) /\ destroyed' = destroyed \cup {e.data}
<1> DEFINE b == Bucket(k)
           at == find_list(table[b], k)
           m == Len(table[b])
           shorter == RemoveAt(table[b], at)
<1>1. /\ sets' = sets /\ size' = size /\ count' = IF count > 0 THEN count - 1 ELSE count
      /\ at > 0 /\ table' = [table EXCEPT ![b] = shorter]
      /\ destroyed' = destroyed \cup {table[b][at].data}
    BY DEF ht_delete, ht_delete_Found
<1>2. /\ size \in Nat /\ b \in 0..(size - 1) /\ table[b] \in Seq(Items) /\ m \in Nat
      /\ \A i \in 1..m : table[b][i] \in Items
      /\ at \in 0..m /\ (at > 0 => table[b][at].key = k)
    BY ChainTypes DEF ChainInv
<1>3. /\ size \in Sizes /\ table \in Tables(size) /\ Placed(table, size) /\ OneEntry(table, size)
      /\ sets \in Nat /\ MaxSets \in Nat
    BY TableAssumption DEF ChainInv, ChainsOK, DataInv
<1> HIDE DEF at
<1>4. at \in 1..m /\ table[b][at].key = k /\ table[b][at] \in Items
  <2> HIDE DEF b, m
  <2> QED  BY <1>1, <1>2
<1>5. /\ shorter \in Seq(Items) /\ Len(shorter) + 1 = m
      /\ \A i \in 1..Len(shorter) :
            \E j \in 1..m \ {at} : shorter[i] = table[b][j] /\ j = IF i < at THEN i ELSE i + 1
      /\ \A j \in 1..m \ {at} : \E i \in 1..Len(shorter) : shorter[i] = table[b][j]
    BY <1>2, <1>4, ChainWithout
<1>6. b = HashFunc[k][size]
    BY DEF Bucket
<1> HIDE DEF b, shorter
<1>7. /\ table'[b] = shorter /\ \A c \in 0..(size - 1) : c # b => table'[c] = table[c]
      /\ table' \in Tables(size)
    BY <1>1, <1>2, <1>3, <1>5 DEF Tables
<1>8. \A i, j \in 1..m : table[b][i].key = table[b][j].key => i = j
    BY <1>2, <1>3 DEF OneEntry
<1>9. \A j \in 1..m : HashFunc[table[b][j].key][size] = b /\ table[b][j] \in Items
    BY <1>2, <1>3 DEF Placed
<1>10. m = Len(table[b]) /\ m \in Nat
    BY <1>2
<1> HIDE DEF m
<1>11. Len(shorter) \in Nat
    BY <1>5, LenProperties
<1>12. Placed(table', size)
  <2> SUFFICES ASSUME NEW c \in 0..(size - 1), NEW i \in 1..Len(table'[c])
               PROVE  HashFunc[table'[c][i].key][size] = c
      BY DEF Placed
  <2>1. CASE c # b
      BY <1>3, <1>7, <2>1 DEF Placed
  <2>2. CASE c = b
    <3>1. i \in 1..Len(shorter) /\ table'[c][i] = shorter[i]
        BY <1>7, <2>2
    <3>2. PICK j \in 1..m \ {at} : shorter[i] = table[b][j]
        BY <1>5, <3>1
    <3> QED  BY <1>9, <2>2, <3>1, <3>2
  <2> QED  BY <2>1, <2>2
<1>13. OneEntry(table', size)
  <2> SUFFICES ASSUME NEW c \in 0..(size - 1), NEW i \in 1..Len(table'[c]),
                      NEW j \in 1..Len(table'[c]), table'[c][i].key = table'[c][j].key
               PROVE  i = j
      BY DEF OneEntry
  <2>1. CASE c # b
      BY <1>3, <1>7, <2>1 DEF OneEntry
  <2>2. CASE c = b
    <3>1. i \in 1..Len(shorter) /\ j \in 1..Len(shorter) /\ shorter[i].key = shorter[j].key
        BY <1>7, <2>2
    <3>2. PICK x \in 1..m \ {at} : shorter[i] = table[b][x] /\ x = IF i < at THEN i ELSE i + 1
        BY <1>5, <3>1
    <3>3. PICK y \in 1..m \ {at} : shorter[j] = table[b][y] /\ y = IF j < at THEN j ELSE j + 1
        BY <1>5, <3>1
    <3>4. x = y
        BY <1>8, <3>1, <3>2, <3>3
    <3>5. i \in Nat /\ j \in Nat /\ at \in Nat
        BY <1>4, <1>10, <1>11, <3>1
    <3>6. CASE i < at
        BY <3>2, <3>3, <3>4, <3>5, <3>6
    <3>7. CASE ~(i < at)
        BY <3>2, <3>3, <3>4, <3>5, <3>7
    <3> QED  BY <3>6, <3>7
  <2> QED  BY <2>1, <2>2
<1>14. ChainsOK'
    BY <1>1, <1>3, <1>7, <1>12, <1>13 DEF ChainsOK
<1>15. DataInv'
  <2>1. \A c \in 0..(size - 1) : \A j \in 1..Len(table[c]) : table[c][j].data <= sets
      BY DEF ChainInv, DataInv
  <2>2. ASSUME NEW c \in 0..(size - 1), NEW i \in 1..Len(table'[c]) PROVE table'[c][i].data <= sets
    <3>1. CASE c # b
        BY <1>7, <2>1, <2>2, <3>1
    <3>2. CASE c = b
      <4>1. i \in 1..Len(shorter) /\ table'[c][i] = shorter[i]
          BY <1>7, <2>2, <3>2
      <4>2. PICK j \in 1..m \ {at} : shorter[i] = table[b][j]
          BY <1>5, <4>1
      <4> QED  BY <1>2, <1>10, <2>1, <4>1, <4>2
    <3> QED  BY <3>1, <3>2
  <2>3. table[b][at].data \in 1..sets
    <3>1. table[b][at].data <= sets
        BY <1>2, <1>4, <1>10, <2>1
    <3> QED  BY <1>3, <1>4, <3>1 DEF Items
  <2>4. sets \in 0..MaxSets /\ destroyed \subseteq 1..sets
      BY DEF ChainInv, DataInv
  <2> QED  BY <1>1, <2>2, <2>3, <2>4 DEF DataInv
<1>16. CountOK'
  <2> DEFINE old == Seats(table, 0..(size - 1))
             new == Seats(table', 0..(size - 1))
  <2>1. Len(table[b]) = Len(table'[b]) + 1
      BY <1>5, <1>7, <1>10
  <2>2. \A c \in 0..(size - 1) : c # b => Len(table[c]) = Len(table'[c])
      BY <1>7
  <2>3. /\ IsFiniteSet(new) <=> IsFiniteSet(old)
        /\ IsFiniteSet(new) => Cardinality(old) = Cardinality(new) + 1
      BY <1>2, <1>3, <1>7, <2>1, <2>2, OneSeatMore
  <2>4. IsFiniteSet(old) /\ count = Cardinality(old)
      BY DEF ChainInv, CountOK
  <2>5. Cardinality(new) \in Nat
      BY <2>3, <2>4, FS_CardinalityType
  <2>6. count' = Cardinality(new)
    <3> HIDE DEF old, new
    <3> QED  BY <1>1, <2>3, <2>4, <2>5
  <2> QED  BY <1>1, <2>3, <2>4, <2>6 DEF CountOK
<1>17. ASSUME NEW j \in Keys \ {k}, NEW e \in Items
       PROVE  Holds(table, size, j, e) <=> Holds(table', size', j, e)
  <2> DEFINE c == HashFunc[j][size]
  <2>1. c \in 0..(size - 1)
      BY <1>3, HashInTable
  <2>2. CASE c # b
      BY <1>1, <1>7, <2>1, <2>2 DEF Holds
  <2>3. CASE c = b
    <3>1. ASSUME e.key = j, NEW i \in 1..m, table[b][i] = e
          PROVE  \E x \in 1..Len(shorter) : shorter[x] = e
      <4>1. i # at
          BY <1>4, <3>1
      <4> QED  BY <1>5, <3>1, <4>1
    <3>2. ASSUME NEW i \in 1..Len(shorter), shorter[i] = e
          PROVE  \E x \in 1..m : table[b][x] = e
        BY <1>5, <3>2
    <3>3. e.key = j => ((\E i \in 1..m : table[b][i] = e) <=> \E x \in 1..Len(shorter) : shorter[x] = e)
        BY <3>1, <3>2
    <3>4. Len(table[b]) = m /\ table'[b] = shorter /\ HashFunc[j][size] = b /\ size' = size
        BY <1>1, <1>7, <1>10, <2>3
    <3> QED  BY <3>3, <3>4 DEF Holds
  <2> QED  BY <2>2, <2>3
<1>18. ASSUME NEW e \in Items PROVE ~Holds(table', size', k, e)
  <2>1. ASSUME NEW i \in 1..Len(shorter) PROVE shorter[i].key # k
    <3>1. PICK j \in 1..m \ {at} : shorter[i] = table[b][j]
        BY <1>5
    <3> QED  BY <1>4, <1>8, <3>1
  <2> QED  BY <1>1, <1>6, <1>7, <2>1 DEF Holds
<1>19. Holds(table, size, k, table[b][at])
    BY <1>4, <1>6, <1>10 DEF Holds
<1> QED  BY <1>1, <1>4, <1>14, <1>15, <1>16, <1>17, <1>18, <1>19 DEF OnlyEntry

\* A resize takes the head of every chain over to the bucket of its key, and only these.
LEMMA ResizeStep ==
    ASSUME ChainInv, NEW n \in NewSizes, ht_resize(n)
    PROVE  /\ ChainsOK' /\ DataInv' /\ CountOK' /\ destroyed' = destroyed
           /\ \A k \in Keys : \A e \in Items :
                 Holds(table', size', k, e) => Holds(table, size, k, e)
           /\ \A k \in Keys : \A e \in Items :
                 Holds(table, size, k, e) =>
                 \E j \in Keys : \E f \in Items : Holds(table', size', j, f)
<1>1. /\ size' = n /\ table' = Moved(n) /\ destroyed' = destroyed /\ sets' = sets
      /\ count' = Cardinality({b \in DOMAIN table : table[b] # << >>})
    BY DEF ht_resize
<1>2. n \in Sizes /\ ChainsOK /\ size \in Sizes /\ table \in Tables(size)
    BY TableAssumption DEF ChainInv, ChainsOK
<1>3. Refilled(table', n, size)
    BY <1>1, <1>2, MovedIsRefilled
<1>4. DOMAIN table = 0..(size - 1)
    BY <1>2 DEF Tables
<1>5. ChainsOK'
    BY <1>1, <1>2, <1>3 DEF ChainsOK, Refilled
<1>6. \A b \in Chained(size) :
         /\ b \in 0..(size - 1) /\ 1 \in 1..Len(table[b]) /\ table[b][1] \in Items
         /\ table[b][1].key \in Keys /\ HashFunc[table[b][1].key][size] = b
    BY <1>2, HeadOfChain DEF Chained
<1>7. \A c \in 0..(n - 1) : \A i \in 1..Len(table'[c]) :
         \E b \in Chained(size) : table'[c][i] = table[b][1]
    BY <1>3 DEF Refilled
<1>8. DataInv'
  <2>1. \A b \in 0..(size - 1) : \A i \in 1..Len(table[b]) : table[b][i].data <= sets
      BY DEF ChainInv, DataInv
  <2>2. ASSUME NEW c \in 0..(n - 1), NEW i \in 1..Len(table'[c])
        PROVE  table'[c][i].data <= sets
    <3>1. PICK b \in Chained(size) : table'[c][i] = table[b][1]
        BY <1>7
    <3>2. b \in 0..(size - 1) /\ 1 \in 1..Len(table[b])
        BY <1>6
    <3>3. table[b][1].data <= sets
        BY <2>1, <3>2
    <3> QED  BY <3>1, <3>3
  <2> QED  BY <1>1, <2>2 DEF ChainInv, DataInv
<1>9. CountOK'
  <2>1. Chained(size) = {b \in DOMAIN table : table[b] # << >>}
      BY <1>4 DEF Chained
  <2>2. /\ IsFiniteSet(Seats(table', 0..(n - 1)))
        /\ Cardinality(Seats(table', 0..(n - 1))) = Cardinality(Chained(size))
      BY <1>3 DEF Refilled
  <2> QED  BY <1>1, <2>1, <2>2 DEF CountOK
<1>10. ASSUME NEW k \in Keys, NEW e \in Items, Holds(table', size', k, e)
       PROVE  Holds(table, size, k, e)
  <2>1. PICK i \in 1..Len(table'[HashFunc[k][n]]) : table'[HashFunc[k][n]][i] = e /\ e.key = k
      BY <1>1, <1>10 DEF Holds
  <2>2. HashFunc[k][n] \in 0..(n - 1)
      BY <1>2, HashInTable
  <2>3. PICK b \in Chained(size) : e = table[b][1]
      BY <1>7, <2>1, <2>2
  <2>4. HashFunc[k][size] = b /\ 1 \in 1..Len(table[b])
      BY <1>6, <2>1, <2>3
  <2> QED  BY <2>1, <2>3, <2>4 DEF Holds
<1>11. ASSUME NEW k \in Keys, NEW e \in Items, Holds(table, size, k, e)
       PROVE  \E j \in Keys : \E f \in Items : Holds(table', size', j, f)
  <2> DEFINE b == HashFunc[k][size]
  <2>1. PICK i \in 1..Len(table[b]) : table[b][i] = e
      BY <1>11 DEF Holds
  <2>2. b \in 0..(size - 1)
      BY <1>2, HashInTable
  <2>3. table[b] # << >>
      BY <2>1, EmptySeq
  <2>4. b \in Chained(size)
      BY <2>2, <2>3 DEF Chained
  <2> DEFINE h == table[b][1]
  <2>5. \E x \in 1..Len(table'[HashFunc[h.key][n]]) : table'[HashFunc[h.key][n]][x] = h
      BY <1>3, <2>4 DEF Refilled
  <2>6. h \in Items /\ h.key \in Keys
      BY <1>6, <2>4
  <2>7. Holds(table', size', h.key, h)
      BY <1>1, <2>5 DEF Holds
  <2> QED  BY <2>6, <2>7
<1> QED  BY <1>1, <1>5, <1>8, <1>9, <1>10, <1>11

\* The destructor gets data of calls of ht_set only.
LEMMA DestroyStep ==
    ASSUME ChainInv, ht_destroy
    PROVE  ChainsOK' /\ DataInv' /\ CountOK'
<1>1. /\ size' = size /\ table' = table /\ count' = count /\ sets' = sets
      /\ destroyed' = destroyed \cup {e.data : e \in Entries}
    BY DEF ht_destroy
<1>2. ChainsOK' /\ CountOK'
    BY <1>1 DEF ChainInv, ChainsOK, CountOK
<1>3. /\ DOMAIN table = 0..(size - 1) /\ sets \in Nat
      /\ \A b \in 0..(size - 1) :
            /\ table[b] \in Seq(Items) /\ DOMAIN table[b] = 1..Len(table[b])
            /\ \A i \in 1..Len(table[b]) : table[b][i] \in Items /\ table[b][i].data <= sets
  <2>1. table \in Tables(size)
      BY DEF ChainInv, ChainsOK
  <2>2. \A b \in 0..(size - 1) : table[b] \in Seq(Items)
      BY <2>1 DEF Tables
  <2>3. \A b \in 0..(size - 1) :
           DOMAIN table[b] = 1..Len(table[b]) /\ \A i \in 1..Len(table[b]) : table[b][i] \in Items
      BY <2>2, LenProperties, ElementOfSeq
  <2>4. \A b \in 0..(size - 1) : \A i \in 1..Len(table[b]) : table[b][i].data <= sets
      BY DEF ChainInv, DataInv
  <2>5. DOMAIN table = 0..(size - 1) /\ sets \in Nat
      BY <2>1, TableAssumption DEF Tables, ChainInv, DataInv
  <2> QED  BY <2>2, <2>3, <2>4, <2>5
<1>4. \A e \in Entries : e.data \in 1..sets
  <2> SUFFICES ASSUME NEW e \in Entries PROVE e.data \in 1..sets
      OBVIOUS
  <2>1. PICK b \in 0..(size - 1) : e \in ToSet(table[b])
      BY <1>3 DEF Entries
  <2>2. PICK i \in 1..Len(table[b]) : e = table[b][i]
      BY <1>3, <2>1 DEF ToSet
  <2>3. e \in Items /\ e.data <= sets
      BY <1>3, <2>2
  <2> QED  BY <1>3, <2>3 DEF Items
<1>5. DataInv'
    BY <1>1, <1>4 DEF ChainInv, DataInv
<1> QED  BY <1>2, <1>5

\* Every step keeps the chains, the counter and the data in order.
LEMMA ChainInvStep == ChainInv /\ [TableNext]_tableVars => ChainInv'
<1> SUFFICES ASSUME ChainInv, [TableNext]_tableVars PROVE ChainInv'
    OBVIOUS
<1>1. ASSUME NEW k \in Keys, ht_set(k) PROVE ChainInv'
  <2>1. ChainsOK' /\ DataInv' /\ CountOK'
      BY <1>1, OverwriteStep, InsertStep DEF ht_set
  <2>2. StatusOK'
      BY <1>1 DEF ht_set, ChainInv, StatusOK
  <2> QED  BY <2>1, <2>2 DEF ChainInv
<1>2. ASSUME NEW k \in Keys, ht_delete(k) PROVE ChainInv'
  <2>1. CASE ht_delete_Empty(k)
      BY <1>2, <2>1 DEF ht_delete, ht_delete_Empty, ChainInv, ChainsOK, DataInv, CountOK, StatusOK
  <2>2. CASE ht_delete_Found(k)
    <3>1. ChainsOK' /\ DataInv' /\ CountOK'
        BY <1>2, <2>2, DeleteStep
    <3>2. StatusOK'
        BY <2>2 DEF ht_delete_Found, ChainInv, StatusOK
    <3> QED  BY <3>1, <3>2 DEF ChainInv
  <2> QED  BY <1>2, <2>1, <2>2 DEF ht_delete
<1>3. ASSUME NEW n \in NewSizes, ht_resize(n) PROVE ChainInv'
  <2>1. ChainsOK' /\ DataInv' /\ CountOK'
      BY <1>3, ResizeStep
  <2>2. StatusOK'
      BY <1>3 DEF ht_resize, ChainInv, StatusOK
  <2> QED  BY <2>1, <2>2 DEF ChainInv
<1>4. ASSUME ht_destroy PROVE ChainInv'
  <2>1. ChainsOK' /\ DataInv' /\ CountOK'
      BY <1>4, DestroyStep
  <2>2. StatusOK'
      BY <1>4 DEF ht_destroy, StatusOK
  <2> QED  BY <2>1, <2>2 DEF ChainInv
<1>5. CASE UNCHANGED tableVars
    BY <1>5 DEF tableVars, ChainInv, ChainsOK, DataInv, CountOK, StatusOK
<1> QED  BY <1>1, <1>2, <1>3, <1>4, <1>5 DEF TableNext

\* The chains, the counter and the data are in order in every state.
LEMMA ChainInvariant == TableSpec => []ChainInv
BY InitChainInv, ChainInvStep, PTL DEF TableSpec

\* The entries of the table are those that a lookup of their key finds.
LEMMA EntriesAreHeld ==
    ASSUME ChainsOK, NEW e
    PROVE  e \in Entries <=> e \in Items /\ \E k \in Keys : Holds(table, size, k, e)
<1>1. /\ size \in Sizes /\ DOMAIN table = 0..(size - 1) /\ Placed(table, size)
      /\ \A b \in 0..(size - 1) : /\ table[b] \in Seq(Items) /\ DOMAIN table[b] = 1..Len(table[b])
                                  /\ \A i \in 1..Len(table[b]) : table[b][i] \in Items
  <2>1. /\ size \in Sizes /\ DOMAIN table = 0..(size - 1) /\ Placed(table, size)
        /\ \A b \in 0..(size - 1) : table[b] \in Seq(Items)
      BY DEF ChainsOK, Tables
  <2> QED  BY <2>1, LenProperties, ElementOfSeq
<1>2. ASSUME e \in Entries PROVE e \in Items /\ \E k \in Keys : Holds(table, size, k, e)
  <2>1. PICK b \in 0..(size - 1) : e \in ToSet(table[b])
      BY <1>1, <1>2 DEF Entries
  <2>2. PICK i \in 1..Len(table[b]) : e = table[b][i]
      BY <1>1, <2>1 DEF ToSet
  <2>3. e \in Items /\ e.key \in Keys /\ HashFunc[e.key][size] = b
      BY <1>1, <2>2 DEF Items, Placed
  <2>4. Holds(table, size, e.key, e)
      BY <2>2, <2>3 DEF Holds
  <2> QED  BY <2>3, <2>4
<1>3. ASSUME NEW k \in Keys, Holds(table, size, k, e) PROVE e \in Entries
  <2> DEFINE b == HashFunc[k][size]
  <2>1. b \in 0..(size - 1)
      BY <1>1, HashInTable
  <2>2. PICK i \in 1..Len(table[b]) : table[b][i] = e
      BY <1>3 DEF Holds
  <2>3. e \in ToSet(table[b])
      BY <1>1, <2>1, <2>2 DEF ToSet
  <2> QED  BY <1>1, <2>1, <2>3 DEF Entries
<1> QED  BY <1>2, <1>3

\* What ht_get returns comes from an entry of the key, with a datum in use.
LEMMA GetTyped ==
    ASSUME ChainInv, NEW k \in Keys
    PROVE  /\ ht_get(k) = GetFrom(table, size, k)
           /\ \A e \in Items : Holds(table, size, k, e) => ht_get(k) = e.data
           /\ (\A e \in Items : ~Holds(table, size, k, e)) => ht_get(k) = NoData
           /\ ht_get(k) # NoData =>
                 \E e \in Items : Holds(table, size, k, e) /\ ht_get(k) = e.data
           /\ ht_get(k) \in 1..sets \cup {NoData}
           /\ \A e \in Items : Holds(table, size, k, e) => e.data \in 1..sets
<1>1. ht_get(k) = GetFrom(table, size, k)
    BY Zenon DEF ht_get, GetFrom, Bucket
<1>2. size \in Sizes /\ table \in Tables(size) /\ OneEntry(table, size)
    BY DEF ChainInv, ChainsOK
<1>3. /\ \A e \in Items : Holds(table, size, k, e) => GetFrom(table, size, k) = e.data
      /\ (\A e \in Items : ~Holds(table, size, k, e)) => GetFrom(table, size, k) = NoData
      /\ GetFrom(table, size, k) # NoData => \E e \in Items : Holds(table, size, k, e)
    BY <1>2, GetIs, Zenon
<1>4. \A e \in Items : Holds(table, size, k, e) => e.data \in 1..sets
  <2> SUFFICES ASSUME NEW e \in Items, Holds(table, size, k, e) PROVE e.data \in 1..sets
      OBVIOUS
  <2> DEFINE b == HashFunc[k][size]
  <2>1. b \in 0..(size - 1)
      BY <1>2, HashInTable
  <2>2. PICK i \in 1..Len(table[b]) : table[b][i] = e
      BY DEF Holds
  <2>3. e.data <= sets /\ sets \in Nat
      BY <2>1, <2>2, TableAssumption DEF ChainInv, DataInv
  <2> QED  BY <2>3 DEF Items
<1>5. ht_get(k) # NoData =>
         \E e \in Items : Holds(table, size, k, e) /\ ht_get(k) = e.data
    BY <1>1, <1>3
<1>6. ht_get(k) \in 1..sets \cup {NoData}
    BY <1>4, <1>5
<1> QED  BY <1>1, <1>3, <1>4, <1>5, <1>6

\* Two entries with one key are one entry.
LEMMA KeysSingle ==
    ASSUME ChainsOK, NEW e \in Entries, NEW f \in Entries, e.key = f.key
    PROVE  e = f
<1>1. \A x \in Entries : x \in Items /\ Holds(table, size, x.key, x) /\ x.key \in Keys
    BY EntriesAreHeld DEF Holds
<1> DEFINE b == HashFunc[e.key][size]
<1>2. b \in 0..(size - 1)
    BY <1>1, HashInTable DEF ChainsOK
<1>3. PICK i \in 1..Len(table[b]) : table[b][i] = e
    BY <1>1 DEF Holds
<1>4. PICK j \in 1..Len(table[b]) : table[b][j] = f
    BY <1>1 DEF Holds
<1>5. i = j
    BY <1>2, <1>3, <1>4 DEF ChainsOK, OneEntry
<1> QED  BY <1>3, <1>4, <1>5

\* Chains with everything in its place are well formed.
LEMMA ChainsAreWellFormed == ChainInv => WellFormed
<1> SUFFICES ASSUME ChainInv PROVE WellFormed
    OBVIOUS
<1>1. ChainsOK /\ size \in Sizes /\ size \in Nat /\ table \in Tables(size)
    BY TableAssumption DEF ChainInv, ChainsOK
<1>2. DOMAIN table = 0..(size - 1) /\ \A b \in 0..(size - 1) : table[b] \in Seq(Items)
    BY <1>1 DEF Tables
<1>3. table \in [0..(size - 1) -> Seq([key : Keys, data : 1..MaxSets])]
    BY <1>1 DEF Tables, Items
<1>4. ASSUME NEW b \in DOMAIN table, NEW e \in ToSet(table[b]) PROVE Bucket(e.key) = b
  <2>1. table[b] \in Seq(Items) /\ DOMAIN table[b] = 1..Len(table[b])
      BY <1>2, LenProperties
  <2>2. PICK i \in 1..Len(table[b]) : e = table[b][i]
      BY <1>4, <2>1 DEF ToSet
  <2> QED  BY <1>1, <1>2, <2>2 DEF ChainsOK, Placed, Bucket
<1>5. \A e, f \in Entries : e.key = f.key => e = f
    BY <1>1, KeysSingle
<1>6. count = MapThenSumSet(LAMBDA b : Len(table[b]), DOMAIN table)
  <2>1. IsFiniteSet(DOMAIN table)
    <3>1. 0 \in Int /\ size - 1 \in Int
        BY <1>1
    <3> QED  BY <1>2, <3>1, FS_Interval
  <2>2. \A b \in DOMAIN table : Len(table[b]) \in Nat
      BY <1>2, LenProperties
  <2>3. IsFiniteSet(Seats(table, DOMAIN table)) /\ count = Cardinality(Seats(table, DOMAIN table))
      BY <1>2 DEF ChainInv, CountOK
  <2>4. MapThenSumSet(LAMBDA b : Len(table[b]), DOMAIN table) = Cardinality(Seats(table, DOMAIN table))
      BY <2>1, <2>2, <2>3, SumIsSeats, Zenon
  <2> QED  BY <2>3, <2>4
<1> QED  BY <1>3, <1>4, <1>5, <1>6, Zenon DEF WellFormed

\* In every state of an open table an entry is where lookups search it, a key has one
\* entry, and the counter that ht_set, ht_delete and ht_resize keep is their number.
THEOREM TableIsWellFormed == TableSpec => []WellFormed
<1>1. ChainInv => WellFormed
    BY ChainsAreWellFormed
<1> QED  BY <1>1, ChainInvariant, PTL

-----------------------------------------------------------------------------
(* The table implements the store. *)

\* What the store holds.
Content == [k \in Keys |-> IF status = "destroyed" THEN NoData ELSE ht_get(k)]

\* The keys that a step is not about keep their data.
LEMMA OthersKept ==
    ASSUME ChainInv, ChainInv', status = "open", status' = "open", NEW k \in Keys, OnlyEntry(k)
    PROVE  \A j \in Keys \ {k} : Content'[j] = Content[j]
<1>1. \A j \in Keys : Content[j] = GetFrom(table, size, j)
    BY GetTyped DEF Content
<1>2. \A j \in Keys : Content'[j] = GetFrom(table', size', j)
  <2> SUFFICES ASSUME NEW j \in Keys PROVE Content'[j] = GetFrom(table', size', j)
      OBVIOUS
  <2>1. ht_get(j)' = GetFrom(table', size', j)
      BY Zenon DEF ht_get, GetFrom, Bucket
  <2> QED  BY <2>1 DEF Content
<1>3. /\ size \in Sizes /\ table \in Tables(size) /\ OneEntry(table, size)
      /\ size' \in Sizes /\ table' \in Tables(size') /\ OneEntry(table', size')
    BY DEF ChainInv, ChainsOK
<1>4. ASSUME NEW j \in Keys \ {k} PROVE GetFrom(table, size, j) = GetFrom(table', size', j)
    BY <1>3, GetSame DEF OnlyEntry
<1> QED  BY <1>1, <1>2, <1>4

\* What the store holds after a step that leaves the table open.
LEMMA KeptAfter ==
    ASSUME ChainInv', status' = "open", NEW k \in Keys
    PROVE  /\ \A e \in Items : Holds(table', size', k, e) => Content'[k] = e.data
           /\ (\A e \in Items : ~Holds(table', size', k, e)) => Content'[k] = NoData
           /\ Content'[k] # NoData => \E e \in Items : Holds(table', size', k, e)
<1>1. Content'[k] = GetFrom(table', size', k)
  <2>1. ht_get(k)' = GetFrom(table', size', k)
      BY Zenon DEF ht_get, GetFrom, Bucket
  <2> QED  BY <2>1 DEF Content
<1>2. size' \in Sizes /\ table' \in Tables(size') /\ OneEntry(table', size')
    BY DEF ChainInv, ChainsOK
<1>3. /\ \A e \in Items : Holds(table', size', k, e) => GetFrom(table', size', k) = e.data
      /\ (\A e \in Items : ~Holds(table', size', k, e)) => GetFrom(table', size', k) = NoData
      /\ GetFrom(table', size', k) # NoData => \E e \in Items : Holds(table', size', k, e)
    BY <1>2, GetIs, Zenon
<1> QED  BY <1>1, <1>3

\* What it holds while the table is open.
LEMMA KeptBefore ==
    ASSUME ChainInv, status = "open", NEW k \in Keys
    PROVE  /\ \A e \in Items : Holds(table, size, k, e) => Content[k] = e.data /\ e.data # NoData
           /\ (\A e \in Items : ~Holds(table, size, k, e)) => Content[k] = NoData
           /\ Content[k] # NoData => \E e \in Items : Holds(table, size, k, e)
           /\ Content[k] \in 1..sets \cup {NoData}
           /\ {Content[k]} \ {NoData} = {e.data : e \in {f \in Items : Holds(table, size, k, f)}}
<1>1. Content[k] = ht_get(k)
    BY DEF Content
<1>2. \A e \in Items : Holds(table, size, k, e) => Content[k] = e.data /\ e.data # NoData
  <2>1. sets \in Nat /\ NoData = 0
      BY TableAssumption DEF ChainInv, DataInv, NoData
  <2>2. \A e \in Items : Holds(table, size, k, e) => Content[k] = e.data /\ e.data \in 1..sets
      BY <1>1, GetTyped
  <2> QED  BY <2>1, <2>2
<1>3. /\ (\A e \in Items : ~Holds(table, size, k, e)) => Content[k] = NoData
      /\ Content[k] # NoData => \E e \in Items : Holds(table, size, k, e)
      /\ Content[k] \in 1..sets \cup {NoData}
    BY <1>1, GetTyped
<1>4. {Content[k]} \ {NoData} = {e.data : e \in {f \in Items : Holds(table, size, k, f)}}
  <2> HIDE DEF Content
  <2> QED  BY <1>2, <1>3
<1> QED  BY <1>2, <1>3, <1>4

\* Functions over the keys that agree are equal.
LEMMA ContentEqual ==
    ASSUME NEW f, \A k \in Keys : Content'[k] = f[k], f = [k \in Keys |-> f[k]]
    PROVE  Content' = f
<1>1. Content' = [k \in Keys |-> Content'[k]]
    BY DEF Content
<1> QED  BY <1>1, Zenon

\* ht_set puts the datum of this call, which no key has and the destructor has not had.
LEMMA SetRefines ==
    ASSUME ChainInv, ChainInv', NEW k \in Keys, ht_set(k)
    PROVE  Store!Put(k, sets + 1) /\ sets + 1 \in 1..MaxSets
<1>1. /\ status = "open" /\ status' = "open" /\ sets < MaxSets
      /\ sets \in Nat /\ MaxSets \in Nat /\ destroyed \subseteq 1..sets
    BY TableAssumption DEF ht_set, ChainInv, DataInv
<1>2. sets + 1 \in 1..MaxSets /\ sets + 1 \notin destroyed
    BY <1>1
<1>3. \A j \in Keys : Content[j] # sets + 1
  <2>1. \A j \in Keys : Content[j] \in 1..sets \cup {NoData}
      BY <1>1, KeptBefore
  <2>2. NoData = 0
      BY DEF NoData
  <2> HIDE DEF NoData, Content
  <2> QED  BY <1>1, <2>1, <2>2
<1>4. /\ OnlyEntry(k) /\ Holds(table', size', k, Entry(k, sets + 1))
      /\ destroyed' = destroyed \cup {e.data : e \in {f \in Items : Holds(table, size, k, f)}}
  <2>1. CASE ht_set_Overwrite(k)
    <3>1. /\ OnlyEntry(k) /\ Holds(table', size', k, Entry(k, sets + 1))
          /\ \E e \in Items : Holds(table, size, k, e) /\ destroyed' = destroyed \cup {e.data}
        BY <2>1, OverwriteStep
    <3>2. PICK e \in Items : Holds(table, size, k, e) /\ destroyed' = destroyed \cup {e.data}
        BY <3>1
    <3>3. \A f \in Items : Holds(table, size, k, f) => f.data = e.data
      <4>1. \A f \in Items : Holds(table, size, k, f) => Content[k] = f.data
          BY <1>1, KeptBefore
      <4> HIDE DEF Content
      <4> QED  BY <3>2, <4>1
    <3>4. {f.data : f \in {x \in Items : Holds(table, size, k, x)}} = {e.data}
        BY <3>2, <3>3
    <3> QED  BY <3>1, <3>2, <3>4
  <2>2. CASE ht_set_Insert(k)
    <3>1. /\ OnlyEntry(k) /\ Holds(table', size', k, Entry(k, sets + 1))
          /\ (\A e \in Items : ~Holds(table, size, k, e)) /\ destroyed' = destroyed
        BY <2>2, InsertStep
    <3>2. {e.data : e \in {f \in Items : Holds(table, size, k, f)}} = {}
        BY <3>1
    <3> QED  BY <3>1, <3>2
  <2> QED  BY <2>1, <2>2 DEF ht_set
<1>5. Content' = [Content EXCEPT ![k] = sets + 1]
  <2> DEFINE f == [Content EXCEPT ![k] = sets + 1]
  <2>1. Entry(k, sets + 1) \in Items /\ Entry(k, sets + 1).data = sets + 1
      BY <1>2 DEF Items, Entry
  <2>2. Content'[k] = sets + 1
      BY <1>1, <1>4, <2>1, KeptAfter
  <2>3. \A j \in Keys \ {k} : Content'[j] = Content[j]
      BY <1>1, <1>4, OthersKept
  <2>4. f = [j \in Keys |-> IF j = k THEN sets + 1 ELSE Content[j]]
      BY DEF Content
  <2>5. \A j \in Keys : Content'[j] = f[j]
    <3> HIDE DEF Content, f
    <3> QED  BY <2>2, <2>3, <2>4
  <2>6. f = [j \in Keys |-> f[j]]
    <3> HIDE DEF Content, f
    <3> QED  BY <2>4
  <2> HIDE DEF Content, f
  <2>7. Content' = f
      BY <2>5, <2>6, ContentEqual
  <2> QED  BY <2>7 DEF f
<1>6. destroyed' = destroyed \cup ({Content[k]} \ {NoData})
    BY <1>1, <1>4, KeptBefore
<1> QED  BY <1>2, <1>3, <1>5, <1>6 DEF Content, Store!Put, Store!Present

\* ht_delete erases the entry it finds; with none it changes nothing of the store.
LEMMA DeleteRefines ==
    ASSUME ChainInv, ChainInv', NEW k \in Keys, ht_delete(k)
    PROVE  Store!Erase(k) \/ (Content' = Content /\ destroyed' = destroyed)
<1>1. status = "open"
    BY DEF ht_delete
<1>2. CASE ht_delete_Empty(k)
  <2>1. /\ status' = "crashed" /\ table' = table /\ size' = size /\ destroyed' = destroyed
      BY <1>2 DEF ht_delete, ht_delete_Empty
  <2>2. \A j \in Keys : ht_get(j)' = ht_get(j)
      BY <2>1, Zenon DEF ht_get, Bucket
  <2>3. Content' = Content
      BY <1>1, <2>1, <2>2 DEF Content
  <2> QED  BY <2>1, <2>3
<1>3. CASE ht_delete_Found(k)
  <2>1. /\ OnlyEntry(k) /\ \A e \in Items : ~Holds(table', size', k, e)
        /\ \E e \in Items : Holds(table, size, k, e) /\ destroyed' = destroyed \cup {e.data}
      BY <1>3, DeleteStep
  <2>2. status' = "open"
      BY <1>1, <1>3 DEF ht_delete_Found
  <2>3. PICK e \in Items : Holds(table, size, k, e) /\ destroyed' = destroyed \cup {e.data}
      BY <2>1
  <2>4. Content[k] = e.data /\ e.data # NoData
      BY <1>1, <2>3, KeptBefore
  <2>5. destroyed' = destroyed \cup ({Content[k]} \ {NoData})
    <3> HIDE DEF Content
    <3> QED  BY <2>3, <2>4
  <2>6. Content' = [Content EXCEPT ![k] = NoData]
    <3> DEFINE f == [Content EXCEPT ![k] = NoData]
    <3>1. Content'[k] = NoData
        BY <2>1, <2>2, KeptAfter
    <3>2. \A j \in Keys \ {k} : Content'[j] = Content[j]
        BY <1>1, <2>1, <2>2, OthersKept
    <3>3. f = [j \in Keys |-> IF j = k THEN NoData ELSE Content[j]]
        BY DEF Content
    <3>4. \A j \in Keys : Content'[j] = f[j]
      <4> HIDE DEF Content, f
      <4> QED  BY <3>1, <3>2, <3>3
    <3>5. f = [j \in Keys |-> f[j]]
      <4> HIDE DEF Content, f
      <4> QED  BY <3>3
    <3> HIDE DEF Content, f
    <3>6. Content' = f
        BY <3>4, <3>5, ContentEqual
    <3> QED  BY <3>6 DEF f
  <2> QED  BY <2>5, <2>6 DEF Content, Store!Erase, Store!Present
<1> QED  BY <1>2, <1>3 DEF ht_delete

\* ht_resize loses the keys that are found no more, but never all of them.
LEMMA ResizeRefines ==
    ASSUME ChainInv, ChainInv', NEW n \in NewSizes, ht_resize(n)
    PROVE  (\E lost \in SUBSET Keys : Store!Lose(lost)) \/ (Content' = Content /\ destroyed' = destroyed)
<1>1. status = "open" /\ status' = "open"
    BY DEF ht_resize
<1>2. /\ destroyed' = destroyed
      /\ \A k \in Keys : \A e \in Items : Holds(table', size', k, e) => Holds(table, size, k, e)
      /\ \A k \in Keys : \A e \in Items :
            Holds(table, size, k, e) => \E j \in Keys : \E f \in Items : Holds(table', size', j, f)
    BY ResizeStep
<1>3. \A k \in Keys :
         /\ Content'[k] # NoData => Content'[k] = Content[k]
         /\ Content'[k] # NoData => Content[k] # NoData
  <2> SUFFICES ASSUME NEW k \in Keys, Content'[k] # NoData
               PROVE  Content'[k] = Content[k] /\ Content[k] # NoData
      OBVIOUS
  <2>1. PICK e \in Items : Holds(table', size', k, e)
      BY <1>1, KeptAfter
  <2>2. Content'[k] = e.data
      BY <1>1, <2>1, KeptAfter
  <2>3. Content[k] = e.data /\ e.data # NoData
      BY <1>1, <1>2, <2>1, KeptBefore
  <2> HIDE DEF Content
  <2> QED  BY <2>2, <2>3
<1>4. CASE \A k \in Keys : Content'[k] = NoData
  <2>1. \A k \in Keys : Content[k] = NoData
    <3> SUFFICES ASSUME NEW k \in Keys, Content[k] # NoData PROVE FALSE
        OBVIOUS
    <3>1. PICK e \in Items : Holds(table, size, k, e)
        BY <1>1, KeptBefore
    <3>2. PICK j \in Keys, f \in Items : Holds(table', size', j, f) /\ Holds(table, size, j, f)
        BY <1>2, <3>1
    <3>3. Content'[j] = f.data
        BY <1>1, <3>2, KeptAfter
    <3>4. f.data # NoData
        BY <1>1, <3>2, KeptBefore
    <3> HIDE DEF Content
    <3> QED  BY <1>4, <3>3, <3>4
  <2>2. Content = [k \in Keys |-> Content[k]]
      BY DEF Content
  <2>3. Content' = Content
    <3> HIDE DEF Content
    <3> QED  BY <1>4, <2>1, <2>2, ContentEqual
  <2> QED  BY <1>2, <2>3
<1>5. CASE \E k \in Keys : Content'[k] # NoData
  <2> DEFINE lost == {k \in Keys : Content'[k] = NoData}
             kept == [k \in Keys |-> IF k \in lost THEN NoData ELSE Content[k]]
  <2>1. \E k \in Keys \ lost : Content[k] # NoData
    <3> HIDE DEF Content
    <3> QED  BY <1>3, <1>5
  <2>2. Content' = kept
    <3>1. \A k \in Keys : Content'[k] = kept[k]
      <4> HIDE DEF Content
      <4> QED  BY <1>3
    <3>2. kept = [k \in Keys |-> kept[k]]
        OBVIOUS
    <3> HIDE DEF Content, kept
    <3> QED  BY <3>1, <3>2, ContentEqual
  <2>3. lost \in SUBSET Keys
      OBVIOUS
  <2> HIDE DEF lost
  <2>4. Store!Lose(lost)
      BY <1>2, <2>1, <2>2 DEF Content, Store!Lose
  <2> QED  BY <2>3, <2>4
<1> QED  BY <1>4, <1>5

\* ht_destroy hands all that lookups find to the destructor, and nothing else.
LEMMA DestroyRefines ==
    ASSUME ChainInv, ht_destroy
    PROVE  Store!Destroy
<1>1. /\ status = "open" /\ status' = "destroyed"
      /\ destroyed' = destroyed \cup {e.data : e \in Entries}
    BY DEF ht_destroy
<1>2. Content' = [k \in Keys |-> NoData]
    BY <1>1 DEF Content
<1>3. {e.data : e \in Entries} = UNION {{Content[k]} \ {NoData} : k \in Keys}
  <2>1. \A k \in Keys :
           {Content[k]} \ {NoData} = {e.data : e \in {f \in Items : Holds(table, size, k, f)}}
      BY <1>1, KeptBefore
  <2>2. \A e : e \in Entries <=> e \in Items /\ \E k \in Keys : Holds(table, size, k, e)
      BY EntriesAreHeld DEF ChainInv
  <2> HIDE DEF Content, Entries
  <2>3. ASSUME NEW e \in Entries
        PROVE  e.data \in UNION {{Content[k]} \ {NoData} : k \in Keys}
    <3>1. PICK k \in Keys : Holds(table, size, k, e) /\ e \in Items
        BY <2>2
    <3>2. e.data \in {Content[k]} \ {NoData}
        BY <2>1, <3>1
    <3> QED  BY <3>2
  <2>4. ASSUME NEW k \in Keys, NEW x \in {Content[k]} \ {NoData}
        PROVE  x \in {e.data : e \in Entries}
    <3>1. PICK e \in Items : Holds(table, size, k, e) /\ x = e.data
        BY <2>1
    <3>2. e \in Entries
        BY <2>2, <3>1
    <3> QED  BY <3>1, <3>2
  <2> QED  BY <2>3, <2>4
<1> QED  BY <1>1, <1>2, <1>3 DEF Content, Store!Destroy, Store!Present

\* A new table is an empty store.
LEMMA InitRefines == TableInit => Store!Init
<1> SUFFICES ASSUME TableInit PROVE Store!Init
    OBVIOUS
<1>1. ChainInv /\ status = "open" /\ destroyed = {} /\ sets = 0
    BY InitChainInv DEF TableInit
<1>2. \A k \in Keys : Content[k] = NoData
  <2>1. \A k \in Keys : Content[k] \in 1..sets \cup {NoData}
      BY <1>1, KeptBefore
  <2> HIDE DEF Content
  <2> QED  BY <1>1, <2>1
<1>3. Content = [k \in Keys |-> NoData]
  <2>1. Content = [k \in Keys |-> Content[k]]
      BY DEF Content
  <2> HIDE DEF Content
  <2> QED  BY <1>2, <2>1
<1> QED  BY <1>1, <1>3 DEF Content, Store!Init

\* Every step of the table is a step of the store, or changes nothing that it shows.
LEMMA StepRefines ==
    ChainInv /\ ChainInv' /\ [TableNext]_tableVars => [Store!Next]_(Store!vars)
<1> SUFFICES ASSUME ChainInv, ChainInv', [TableNext]_tableVars
             PROVE  Store!Next \/ (Content' = Content /\ destroyed' = destroyed)
    BY DEF Store!vars, Content
<1>1. ASSUME NEW k \in Keys, ht_set(k) PROVE Store!Next
    BY <1>1, SetRefines DEF Store!Next
<1>2. ASSUME NEW k \in Keys, ht_delete(k)
      PROVE  Store!Next \/ (Content' = Content /\ destroyed' = destroyed)
    BY <1>2, DeleteRefines DEF Store!Next
<1>3. ASSUME NEW n \in NewSizes, ht_resize(n)
      PROVE  Store!Next \/ (Content' = Content /\ destroyed' = destroyed)
    BY <1>3, ResizeRefines DEF Store!Next
<1>4. ASSUME ht_destroy PROVE Store!Next
    BY <1>4, DestroyRefines DEF Store!Next
<1>5. CASE UNCHANGED tableVars
  <2>1. status' = status /\ table' = table /\ size' = size /\ destroyed' = destroyed
      BY <1>5 DEF tableVars
  <2>2. \A j \in Keys : ht_get(j)' = ht_get(j)
      BY <2>1, Zenon DEF ht_get, Bucket
  <2> QED  BY <2>1, <2>2 DEF Content
<1> QED  BY <1>1, <1>2, <1>3, <1>4, <1>5 DEF TableNext

\* The table implements the store: for every hash function, number of keys and sizes,
\* ht_set, ht_delete and ht_destroy hand a datum to the destructor exactly when the key
\* loses it, and ht_resize, which may drop keys, destroys none and keeps one at least.
THEOREM TableImplementsStore == TableSpec => ImplementsStore
BY InitRefines, StepRefines, ChainInvariant, PTL DEF TableSpec, ImplementsStore, Store!Spec
-----------------------------------------------------------------------------
(* Lists: their chains, in both directions. *)

\* The nodes met in heap h, and where each is found.
AtIn(h, n, field, at) ==
    at = [i \in Nodes |-> IF i = 1 THEN n
                          ELSE [m \in Nodes \cup {NULL} |-> IF m \in DOMAIN h THEN h[m][field] ELSE NULL][at[i - 1]]]

ChainIn(h, n, field) ==
    LET at == CHOOSE at : AtIn(h, n, field, at)
    IN  [i \in 1..Cardinality({j \in Nodes : at[j] \in DOMAIN h}) |-> at[i]]

\* From n on the field leads through s, and from its last node to e, which is none.
Follows(h, n, field, s, e) ==
    /\ DOMAIN h \subseteq Nodes /\ s \in Seq(Nodes) /\ Len(s) <= MaxNodes
    /\ e \in (Nodes \cup {NULL}) \ DOMAIN h
    /\ n = IF Len(s) = 0 THEN e ELSE s[1]
    /\ \A i \in 1..Len(s) : s[i] \in DOMAIN h /\ h[s[i]][field] = IF i = Len(s) THEN e ELSE s[i + 1]

\* The place the field leads to after i - 1 steps.
PlaceAt(s, e, i) == IF i <= Len(s) THEN s[i] ELSE IF i = Len(s) + 1 THEN e ELSE NULL

\* One step more leads to the next place.
LEMMA NextPlace ==
    ASSUME NEW h, NEW n, NEW field, NEW s, NEW e, Follows(h, n, field, s, e), NEW i \in Nodes
    PROVE  PlaceAt(s, e, i) = IF i = 1 THEN n
                              ELSE [m \in Nodes \cup {NULL} |-> IF m \in DOMAIN h THEN h[m][field] ELSE NULL][PlaceAt(s, e, i - 1)]
<1> DEFINE after == [m \in Nodes \cup {NULL} |-> IF m \in DOMAIN h THEN h[m][field] ELSE NULL]
<1>1. /\ DOMAIN h \subseteq Nodes /\ s \in Seq(Nodes) /\ Len(s) \in Nat /\ Len(s) <= MaxNodes
      /\ e \in Nodes \cup {NULL} /\ e \notin DOMAIN h
      /\ n = IF Len(s) = 0 THEN e ELSE s[1]
      /\ \A j \in 1..Len(s) : s[j] \in DOMAIN h /\ h[s[j]][field] = IF j = Len(s) THEN e ELSE s[j + 1]
    BY LenProperties DEF Follows
<1>2. i \in Nat /\ i >= 1 /\ NULL \notin Nodes /\ NULL = 0
    BY ListAssumption DEF Nodes, NULL
<1>3. CASE i = 1
    BY <1>1, <1>2, <1>3 DEF PlaceAt
<1>4. CASE i # 1 /\ i - 1 <= Len(s)
  <2>1. i - 1 \in 1..Len(s)
      BY <1>1, <1>2, <1>4
  <2>2. PlaceAt(s, e, i - 1) = s[i - 1] /\ s[i - 1] \in DOMAIN h
      BY <1>1, <2>1 DEF PlaceAt
  <2>3. after[s[i - 1]] = h[s[i - 1]][field]
      BY <1>1, <2>2
  <2>4. h[s[i - 1]][field] = IF i - 1 = Len(s) THEN e ELSE s[i - 1 + 1]
      BY <1>1, <2>1
  <2>5. i - 1 + 1 = i
      BY <1>2
  <2>6. PlaceAt(s, e, i) = IF i - 1 = Len(s) THEN e ELSE s[i]
      BY <1>1, <1>2, <2>1 DEF PlaceAt
  <2> HIDE DEF after
  <2> QED  BY <1>4, <2>2, <2>3, <2>4, <2>5, <2>6 DEF after
<1>5. CASE i # 1 /\ i - 1 > Len(s)
  <2>1. PlaceAt(s, e, i) = NULL
      BY <1>1, <1>2, <1>5 DEF PlaceAt
  <2>2. PlaceAt(s, e, i - 1) \in Nodes \cup {NULL} /\ PlaceAt(s, e, i - 1) \notin DOMAIN h
      BY <1>1, <1>2, <1>5 DEF PlaceAt
  <2>3. after[PlaceAt(s, e, i - 1)] = NULL
      BY <2>2
  <2> QED  BY <1>5, <2>1, <2>3
<1> QED  BY <1>1, <1>2, <1>3, <1>4, <1>5

\* What follows a field from node to node is the chain.
LEMMA ChainIs ==
    ASSUME NEW h, NEW n, NEW field, NEW s, NEW e, Follows(h, n, field, s, e)
    PROVE  ChainIn(h, n, field) = s
<1> DEFINE after == [m \in Nodes \cup {NULL} |-> IF m \in DOMAIN h THEN h[m][field] ELSE NULL]
           G == [i \in Nodes |-> PlaceAt(s, e, i)]
           at == CHOOSE at : AtIn(h, n, field, at)
<1>1. /\ DOMAIN h \subseteq Nodes /\ s \in Seq(Nodes) /\ Len(s) \in Nat /\ Len(s) <= MaxNodes
      /\ e \notin DOMAIN h
      /\ \A j \in 1..Len(s) : s[j] \in DOMAIN h
    BY LenProperties DEF Follows
<1>2. \A i \in Nodes : i \in Nat /\ i >= 1 /\ i <= MaxNodes /\ (i # 1 => i - 1 \in Nodes)
    BY ListAssumption DEF Nodes
<1>3. \A i \in Nodes : PlaceAt(s, e, i) = IF i = 1 THEN n ELSE after[PlaceAt(s, e, i - 1)]
    BY NextPlace
<1>4. AtIn(h, n, field, G)
  <2> HIDE DEF after
  <2>1. \A i \in Nodes : G[i] = IF i = 1 THEN n ELSE after[G[i - 1]]
      BY <1>2, <1>3
  <2>2. G = [i \in Nodes |-> IF i = 1 THEN n ELSE after[G[i - 1]]]
      BY <2>1
  <2> HIDE DEF G
  <2> QED  BY <2>2 DEF AtIn, after
<1>5. AtIn(h, n, field, at)
  <2> HIDE DEF G
  <2> QED  BY <1>4, Zenon
<1> HIDE DEF at
<1>6. \A i \in Nodes : at[i] = IF i = 1 THEN n ELSE after[at[i - 1]]
  <2> HIDE DEF after
  <2>1. at = [i \in Nodes |-> IF i = 1 THEN n ELSE after[at[i - 1]]]
      BY <1>5 DEF AtIn, after
  <2> QED  BY <2>1
<1> HIDE DEF after, G
<1>7. \A i \in Nodes : at[i] = PlaceAt(s, e, i)
  <2> DEFINE T == {i \in Nodes : at[i] # PlaceAt(s, e, i)}
  <2> SUFFICES ASSUME T # {} PROVE FALSE
      OBVIOUS
  <2>1. T \subseteq Nat
      BY <1>2
  <2>2. PICK k \in T : \A j \in T : k <= j
    <3> HIDE DEF T
    <3> QED  BY <2>1, LeastNatural
  <2>3. k # 1
      BY <1>3, <1>6
  <2>4. k - 1 \in Nodes /\ ~(k <= k - 1)
      BY <1>2, <2>3
  <2>5. at[k - 1] = PlaceAt(s, e, k - 1)
      BY <2>2, <2>4
  <2> QED  BY <1>3, <1>6, <2>2, <2>3, <2>5
<1>8. {j \in Nodes : at[j] \in DOMAIN h} = 1..Len(s)
  <2>1. ASSUME NEW j \in Nodes PROVE at[j] \in DOMAIN h <=> j <= Len(s)
    <3>1. NULL \notin Nodes
        BY ListAssumption DEF Nodes, NULL
    <3> QED  BY <1>1, <1>2, <1>7, <3>1 DEF PlaceAt
  <2>2. \A j \in 1..Len(s) : j \in Nodes
      BY <1>1, ListAssumption DEF Nodes
  <2> QED  BY <1>1, <1>2, <2>1, <2>2
<1>9. Cardinality(1..Len(s)) = Len(s)
  <2> DEFINE l == Len(s)
  <2>1. l \in Int /\ 1 \in Int /\ l - 1 + 1 = l /\ (1 > l => l = 0)
      BY <1>1
  <2>2. Cardinality(1..l) = IF 1 > l THEN 0 ELSE l - 1 + 1
    <3> HIDE DEF l
    <3> QED  BY <2>1, FS_Interval
  <2> QED  BY <2>1, <2>2
<1>10. ChainIn(h, n, field) = [i \in 1..Len(s) |-> at[i]]
    BY <1>8, <1>9 DEF ChainIn, at
<1>11. \A i \in 1..Len(s) : at[i] = s[i]
  <2>1. \A i \in 1..Len(s) : i \in Nodes
      BY <1>1, ListAssumption DEF Nodes
  <2> QED  BY <1>1, <1>7, <2>1 DEF PlaceAt
<1> QED  BY <1>1, <1>10, <1>11

\* The chains of the lists, now and after a step.
LEMMA ChainsAre ==
    \A n, field : Chain(n, field) = ChainIn(node, n, field) /\ Chain(n, field)' = ChainIn(node', n, field)
BY Zenon DEF Chain, ChainIn, AtIn

\* A node is a record, and the nodes of s are linked in both directions.
IsNode(r) == r = [data |-> r.data, next |-> r.next, prev |-> r.prev]
NextIn(s, i) == IF i = Len(s) THEN NULL ELSE s[i + 1]
PrevIn(s, i) == IF i = 1 THEN NULL ELSE s[i - 1]
LinkedAs(h, s) ==
    \A i \in 1..Len(s) :
        s[i] \in DOMAIN h /\ h[s[i]].next = NextIn(s, i) /\ h[s[i]].prev = PrevIn(s, i)

\* The head of a list with nodes s.
ListHead(r, s) ==
    /\ r.count = Len(s)
    /\ r.first = IF Len(s) = 0 THEN NULL ELSE s[1]
    /\ r.last = IF Len(s) = 0 THEN NULL ELSE s[Len(s)]

\* The nodes w[l] of the lists L: no node twice, each linked to its neighbours.
Apart(L, w) ==
    \A l, k \in L : \A i \in 1..Len(w[l]), j \in 1..Len(w[k]) : w[l][i] = w[k][j] => l = k /\ i = j
In(L, w, m) == \E l \in L : \E i \in 1..Len(w[l]) : m = w[l][i]
LinksOK(L, h, hd, hl, w) ==
    \A l \in L : LinkedAs(h, w[l]) /\ ListHead(hd[l], w[l]) /\ (l \notin hl => w[l] = << >>)

\* Heap h, heads hd and names hl are those of lists of the nodes w[l].
Shape(h, hd, hl, w) ==
    /\ w \in [Lists -> Seq(Nodes)] /\ DOMAIN hd = Lists /\ hl \subseteq Lists
    /\ DOMAIN h \subseteq Nodes /\ \A m \in DOMAIN h : IsNode(h[m]) /\ In(Lists, w, m)
    /\ Apart(Lists, w) /\ LinksOK(Lists, h, hd, hl, w)

\* Lists L are changed, from nodes of their own and new ones, and the others stay.
Changes(L, h, hd, hl, w, h2, hd2, hl2, v) ==
    /\ L \subseteq Lists /\ v \in [Lists -> Seq(Nodes)]
    /\ DOMAIN hd2 = Lists /\ hl2 \subseteq Lists /\ DOMAIN h2 \subseteq Nodes
    /\ \A l \in Lists \ L : v[l] = w[l] /\ hd2[l] = hd[l] /\ (l \in hl => l \in hl2)
    /\ \A m \in DOMAIN h2 : IsNode(h2[m]) /\ (In(L, v, m) \/ (m \in DOMAIN h /\ ~In(L, w, m)))
    /\ \A m \in DOMAIN h : ~In(L, w, m) => m \in DOMAIN h2 /\ h2[m] = h[m]
    /\ \A m : In(L, v, m) => m \notin DOMAIN h \/ In(L, w, m)
    /\ Apart(L, v) /\ LinksOK(L, h2, hd2, hl2, v)

\* Then they are lists of their nodes again.
LEMMA ShapeKept ==
    ASSUME NEW h, NEW hd, NEW hl, NEW w, Shape(h, hd, hl, w), NEW L, NEW h2, NEW hd2, NEW hl2, NEW v,
           Changes(L, h, hd, hl, w, h2, hd2, hl2, v)
    PROVE  Shape(h2, hd2, hl2, v)
<1>1. /\ w \in [Lists -> Seq(Nodes)] /\ DOMAIN hd = Lists /\ hl \subseteq Lists
      /\ DOMAIN h \subseteq Nodes /\ (\A m \in DOMAIN h : IsNode(h[m]) /\ In(Lists, w, m))
      /\ Apart(Lists, w) /\ LinksOK(Lists, h, hd, hl, w)
    BY DEF Shape
<1>2. /\ L \subseteq Lists /\ v \in [Lists -> Seq(Nodes)]
      /\ DOMAIN hd2 = Lists /\ hl2 \subseteq Lists /\ DOMAIN h2 \subseteq Nodes
      /\ \A l \in Lists \ L : v[l] = w[l] /\ hd2[l] = hd[l] /\ (l \in hl => l \in hl2)
    BY DEF Changes
<1>3. \A m \in DOMAIN h2 : IsNode(h2[m]) /\ (In(L, v, m) \/ (m \in DOMAIN h /\ ~In(L, w, m)))
    BY DEF Changes
<1>4. \A m \in DOMAIN h : ~In(L, w, m) => m \in DOMAIN h2 /\ h2[m] = h[m]
    BY DEF Changes
<1>5. \A m : In(L, v, m) => m \notin DOMAIN h \/ In(L, w, m)
    BY DEF Changes
<1>6. Apart(L, v) /\ LinksOK(L, h2, hd2, hl2, v)
    BY DEF Changes
<1>7. ASSUME NEW l \in Lists \ L, NEW i \in 1..Len(w[l])
      PROVE  w[l][i] \in DOMAIN h /\ ~In(L, w, w[l][i])
  <2>1. w[l][i] \in DOMAIN h
      BY <1>1 DEF LinksOK, LinkedAs
  <2>2. \A k \in L : \A j \in 1..Len(w[k]) : w[l][i] # w[k][j]
      BY <1>1, <1>2 DEF Apart
  <2> QED  BY <2>1, <2>2 DEF In
<1>8. \A m \in DOMAIN h2 : IsNode(h2[m]) /\ In(Lists, v, m)
  <2> SUFFICES ASSUME NEW m \in DOMAIN h2, ~In(L, v, m) PROVE In(Lists, v, m)
      BY <1>2, <1>3 DEF In
  <2>1. m \in DOMAIN h /\ ~In(L, w, m)
      BY <1>3
  <2>2. PICK l \in Lists : \E i \in 1..Len(w[l]) : m = w[l][i]
      BY <1>1, <2>1 DEF In
  <2>3. l \notin L
      BY <2>1, <2>2 DEF In
  <2>4. v[l] = w[l]
      BY <1>2, <2>3
  <2> QED  BY <2>2, <2>4 DEF In
<1>9. Apart(Lists, v)
  <2> SUFFICES ASSUME NEW l \in Lists, NEW k \in Lists, NEW i \in 1..Len(v[l]), NEW j \in 1..Len(v[k]), v[l][i] = v[k][j]
               PROVE  l = k /\ i = j
      BY DEF Apart
  <2>1. CASE l \in L /\ k \in L
      BY <1>6, <2>1 DEF Apart
  <2>2. CASE l \notin L /\ k \notin L
    <3>1. v[l] = w[l] /\ v[k] = w[k]
        BY <1>2, <2>2
    <3> QED  BY <1>1, <3>1 DEF Apart
  <2>3. CASE l \in L /\ k \notin L
    <3>1. v[k] = w[k]
        BY <1>2, <2>3
    <3>2. w[k][j] \in DOMAIN h /\ ~In(L, w, w[k][j])
        BY <1>7, <2>3, <3>1
    <3>3. In(L, v, v[l][i])
        BY <2>3 DEF In
    <3> QED  BY <1>5, <3>1, <3>2, <3>3
  <2>4. CASE l \notin L /\ k \in L
    <3>1. v[l] = w[l]
        BY <1>2, <2>4
    <3>2. w[l][i] \in DOMAIN h /\ ~In(L, w, w[l][i])
        BY <1>7, <2>4, <3>1
    <3>3. In(L, v, v[k][j])
        BY <2>4 DEF In
    <3> QED  BY <1>5, <3>1, <3>2, <3>3
  <2> QED  BY <2>1, <2>2, <2>3, <2>4
<1>10. LinksOK(Lists, h2, hd2, hl2, v)
  <2> SUFFICES ASSUME NEW l \in Lists \ L
               PROVE  LinkedAs(h2, v[l]) /\ ListHead(hd2[l], v[l]) /\ (l \notin hl2 => v[l] = << >>)
      BY <1>6 DEF LinksOK
  <2>1. v[l] = w[l] /\ hd2[l] = hd[l] /\ (l \in hl => l \in hl2)
      BY <1>2
  <2>2. LinkedAs(h, w[l]) /\ ListHead(hd[l], w[l]) /\ (l \notin hl => w[l] = << >>)
      BY <1>1 DEF LinksOK
  <2>3. \A i \in 1..Len(w[l]) : w[l][i] \in DOMAIN h2 /\ h2[w[l][i]] = h[w[l][i]]
      BY <1>4, <1>7
  <2>4. LinkedAs(h2, w[l])
      BY <2>2, <2>3 DEF LinkedAs
  <2> QED  BY <2>1, <2>2, <2>4
<1> QED  BY <1>2, <1>8, <1>9, <1>10 DEF Shape

\* No more nodes without repetition than there are.
LEMMA NodesAreBounded ==
    ASSUME NEW s \in Seq(Nodes), \A i, j \in 1..Len(s) : s[i] = s[j] => i = j
    PROVE  Len(s) \in Nat /\ Len(s) <= MaxNodes
<1> DEFINE n == Len(s)
<1>1. n \in Nat /\ s \in [1..n -> Nodes] /\ \A i, j \in 1..n : s[i] = s[j] => i = j
    BY LenProperties
<1>3. s \in Injection(1..n, Nodes)
  <2> HIDE DEF n
  <2>1. DOMAIN s = 1..n
      BY <1>1
  <2> QED  BY <1>1, <2>1 DEF Injection, IsInjective
<1>4. IsFiniteSet(Nodes) /\ Cardinality(Nodes) = MaxNodes
  <2>1. 1 \in Int /\ MaxNodes \in Int /\ MaxNodes - 1 + 1 = MaxNodes /\ (1 > MaxNodes => MaxNodes = 0)
      BY ListAssumption
  <2> QED  BY <2>1, FS_Interval DEF Nodes
<1>5. Cardinality(1..n) = n
  <2>1. n \in Int /\ 1 \in Int /\ n - 1 + 1 = n /\ (1 > n => n = 0)
      BY <1>1
  <2> HIDE DEF n
  <2>2. Cardinality(1..n) = IF 1 > n THEN 0 ELSE n - 1 + 1
      BY <2>1, FS_Interval
  <2> QED  BY <2>1, <2>2
<1>6. Cardinality(1..n) <= Cardinality(Nodes)
  <2> HIDE DEF n
  <2> QED  BY <1>3, <1>4, FS_Injection
<1> QED  BY <1>1, <1>4, <1>5, <1>6

\* So a list has no more.
LEMMA ListsAreBounded ==
    ASSUME NEW h, NEW hd, NEW hl, NEW w, Shape(h, hd, hl, w), NEW l \in Lists
    PROVE  /\ w[l] \in Seq(Nodes) /\ Len(w[l]) \in Nat /\ Len(w[l]) <= MaxNodes
           /\ \A i, j \in 1..Len(w[l]) : w[l][i] = w[l][j] => i = j
<1>1. w[l] \in Seq(Nodes)
    BY DEF Shape
<1>2. \A i, j \in 1..Len(w[l]) : w[l][i] = w[l][j] => i = j
    BY DEF Shape, Apart
<1> QED  BY <1>1, <1>2, NodesAreBounded

\* Reverse is what its name says.
LEMMA ReverseIs ==
    ASSUME NEW S, NEW s \in Seq(S)
    PROVE  /\ Reverse(s) \in Seq(S) /\ Len(Reverse(s)) = Len(s)
           /\ \A i \in 1..Len(s) : Reverse(s)[i] = s[Len(s) - i + 1] /\ Len(s) - i + 1 \in 1..Len(s)
<1> DEFINE n == Len(s)
           r == [i \in 1..n |-> s[n - i + 1]]
<1>1. n \in Nat /\ \A i \in 1..n : s[i] \in S
    BY LenProperties, ElementOfSeq
<1> HIDE DEF n
<1>2. \A i \in 1..n : n - i + 1 \in 1..n
    BY <1>1
<1>3. r \in Seq(S) /\ Len(r) = n
    BY <1>1, <1>2
<1>4. Reverse(s) = r
    BY DEF Reverse, n
<1> QED  BY <1>2, <1>3, <1>4 DEF n

\* Both chains of a list of nodes s are s, from the front and from the back.
LEMMA ChainsOf ==
    ASSUME NEW h, NEW r, NEW s \in Seq(Nodes), Len(s) <= MaxNodes, DOMAIN h \subseteq Nodes,
           LinkedAs(h, s), ListHead(r, s)
    PROVE  ChainIn(h, r.first, "next") = s /\ ChainIn(h, r.last, "prev") = Reverse(s)
<1> DEFINE n == Len(s)
           b == Reverse(s)
<1>1. n \in Nat /\ NULL \in Nodes \cup {NULL} /\ NULL \notin DOMAIN h
    BY LenProperties, ListAssumption DEF Nodes, NULL
<1>2. \A i \in 1..n : s[i] \in DOMAIN h /\ h[s[i]]["next"] = NextIn(s, i) /\ h[s[i]]["prev"] = PrevIn(s, i)
    BY DEF LinkedAs
<1>3. /\ r.first = IF n = 0 THEN NULL ELSE s[1]
      /\ r.last = IF n = 0 THEN NULL ELSE s[n]
    BY DEF ListHead
<1>4. b \in Seq(Nodes) /\ Len(b) = n /\ \A i \in 1..n : b[i] = s[n - i + 1] /\ n - i + 1 \in 1..n
    BY ReverseIs
<1>5. Follows(h, r.first, "next", s, NULL)
    BY <1>1, <1>2, <1>3 DEF Follows, NextIn
<1> HIDE DEF b, n
<1>6. Follows(h, r.last, "prev", b, NULL)
  <2>1. r.last = IF Len(b) = 0 THEN NULL ELSE b[1]
    <3>1. n # 0 => 1 \in 1..n /\ n - 1 + 1 = n
        BY <1>1
    <3> QED  BY <1>3, <1>4, <3>1
  <2>2. ASSUME NEW i \in 1..n PROVE b[i] \in DOMAIN h /\ h[b[i]]["prev"] = IF i = n THEN NULL ELSE b[i + 1]
    <3> DEFINE j == n - i + 1
    <3>1. j \in 1..n /\ b[i] = s[j]
        BY <1>4
    <3>2. CASE i = n
      <4>1. j = 1
          BY <1>1, <3>2
      <4> QED  BY <1>2, <3>1, <3>2, <4>1 DEF PrevIn
    <3>3. CASE i # n
      <4>1. i + 1 \in 1..n /\ n - (i + 1) + 1 = j - 1 /\ j # 1
          BY <1>1, <3>3
      <4>2. b[i + 1] = s[j - 1]
          BY <1>4, <4>1
      <4> HIDE DEF j
      <4> QED  BY <1>2, <3>1, <3>3, <4>1, <4>2 DEF PrevIn
    <3> QED  BY <3>2, <3>3
  <2> QED  BY <1>1, <1>4, <2>1, <2>2 DEF Follows, n
<1>7. ChainIn(h, r.first, "next") = s
    BY <1>5, ChainIs
<1>8. ChainIn(h, r.last, "prev") = b
    BY <1>6, ChainIs
<1> QED  BY <1>7, <1>8 DEF b

\* So it is for every list.
LEMMA ShapeChains ==
    ASSUME NEW h, NEW hd, NEW hl, NEW w, Shape(h, hd, hl, w), NEW l \in Lists
    PROVE  /\ ChainIn(h, hd[l].first, "next") = w[l] /\ ChainIn(h, hd[l].last, "prev") = Reverse(w[l])
<1>1. w[l] \in Seq(Nodes) /\ Len(w[l]) <= MaxNodes
    BY ListsAreBounded
<1>2. DOMAIN h \subseteq Nodes /\ LinkedAs(h, w[l]) /\ ListHead(hd[l], w[l])
    BY DEF Shape, LinksOK
<1> QED  BY <1>1, <1>2, ChainsOf

-----------------------------------------------------------------------------
(* The invariant. *)

\* Unless a call has broken a list, there are nodes for each, and they are those of the heap.
ListInv ==
    /\ ~broken => \E w : Shape(node, list, held, w)
    /\ broken => ~Sound

\* Then everything a list tells agrees.
LEMMA ShapeIsSound ==
    ASSUME NEW w, Shape(node, list, held, w)
    PROVE  Sound
<1>1. \A l \in Lists : Forward(l) = w[l] /\ Chain(list[l].last, "prev") = Reverse(w[l])
    BY ShapeChains, ChainsAre DEF Forward
<1>2. held \subseteq Lists /\ \A l \in Lists : w[l] \in Seq(Nodes) /\ Len(w[l]) \in Nat
    BY LenProperties DEF Shape
<1>3. \A l \in Lists : LinkedAs(node, w[l]) /\ ListHead(list[l], w[l]) /\ (l \notin held => w[l] = << >>)
    BY DEF Shape, LinksOK
<1>4. \A l \in Lists : ToSet(w[l]) = {w[l][i] : i \in 1..Len(w[l])}
  <2> TAKE l \in Lists
  <2>1. DOMAIN w[l] = 1..Len(w[l])
      BY <1>2
  <2> QED  BY <2>1 DEF ToSet
<1>5. ASSUME NEW l \in held
      PROVE  /\ Chain(list[l].last, "prev") = Reverse(Forward(l))
             /\ list[l].count = Len(Forward(l))
             /\ Forward(l) = << >> => list[l].first = NULL /\ list[l].last = NULL
             /\ \A n \in ToSet(Forward(l)) : {node[n].next, node[n].prev} \subseteq DOMAIN node \cup {NULL}
  <2>1. Forward(l) = w[l] /\ Chain(list[l].last, "prev") = Reverse(w[l])
      BY <1>1, <1>2
  <2>2. ListHead(list[l], w[l]) /\ LinkedAs(node, w[l]) /\ Len(w[l]) \in Nat
      BY <1>2, <1>3
  <2>3. Forward(l) = << >> => Len(w[l]) = 0
      BY <2>1
  <2>4. ASSUME NEW i \in 1..Len(w[l])
        PROVE  {node[w[l][i]].next, node[w[l][i]].prev} \subseteq DOMAIN node \cup {NULL}
    <3>1. /\ i # Len(w[l]) => i + 1 \in 1..Len(w[l])
          /\ i # 1 => i - 1 \in 1..Len(w[l])
        BY <2>2
    <3>2. node[w[l][i]].next = NextIn(w[l], i) /\ node[w[l][i]].prev = PrevIn(w[l], i)
        BY <2>2 DEF LinkedAs
    <3>3. \A j \in 1..Len(w[l]) : w[l][j] \in DOMAIN node
        BY <2>2 DEF LinkedAs
    <3>4. NextIn(w[l], i) \in DOMAIN node \cup {NULL}
        BY <3>1, <3>3 DEF NextIn
    <3>5. PrevIn(w[l], i) \in DOMAIN node \cup {NULL}
        BY <3>1, <3>3 DEF PrevIn
    <3> QED  BY <3>2, <3>4, <3>5
  <2>5. ToSet(Forward(l)) = {w[l][i] : i \in 1..Len(w[l])}
      BY <1>2, <1>4, <2>1
  <2>6. \A n \in ToSet(Forward(l)) : {node[n].next, node[n].prev} \subseteq DOMAIN node \cup {NULL}
      BY <2>4, <2>5
  <2>7. list[l].count = Len(Forward(l)) /\ (Forward(l) = << >> => list[l].first = NULL /\ list[l].last = NULL)
      BY <2>1, <2>2, <2>3 DEF ListHead
  <2>8. Chain(list[l].last, "prev") = Reverse(Forward(l))
      BY <2>1
  <2> QED  BY <2>6, <2>7, <2>8
<1>6. ASSUME NEW l \in held, NEW k \in held, l # k PROVE ToSet(Forward(l)) \cap ToSet(Forward(k)) = {}
  <2>1. \A i \in 1..Len(w[l]), j \in 1..Len(w[k]) : w[l][i] # w[k][j]
      BY <1>2, <1>6 DEF Shape, Apart
  <2>2. /\ ToSet(Forward(l)) = {w[l][i] : i \in 1..Len(w[l])}
        /\ ToSet(Forward(k)) = {w[k][j] : j \in 1..Len(w[k])}
      BY <1>1, <1>2, <1>4
  <2> QED  BY <2>1, <2>2
<1>7. DOMAIN node = UNION {ToSet(Forward(l)) : l \in held}
  <2>1. ASSUME NEW m \in DOMAIN node PROVE \E l \in held : m \in ToSet(Forward(l))
    <3>1. PICK l \in Lists : \E i \in 1..Len(w[l]) : m = w[l][i]
        BY DEF Shape, In
    <3>2. l \in held
      <4>1. w[l] # << >>
          BY <1>2, <3>1
      <4> QED  BY <1>3, <4>1
    <3> QED  BY <1>1, <1>4, <3>1, <3>2
  <2>2. ASSUME NEW l \in held, NEW m \in ToSet(Forward(l)) PROVE m \in DOMAIN node
    <3>1. l \in Lists /\ Forward(l) = w[l]
        BY <1>1, <1>2, <2>2
    <3>2. \A i \in 1..Len(w[l]) : w[l][i] \in DOMAIN node
        BY <1>3, <3>1 DEF LinkedAs
    <3>3. m \in {w[l][i] : i \in 1..Len(w[l])}
        BY <1>4, <2>2, <3>1
    <3> QED  BY <3>2, <3>3
  <2> QED  BY <2>1, <2>2
<1> QED  BY <1>5, <1>6, <1>7 DEF Sound

-----------------------------------------------------------------------------
(* What the calls do to the nodes of one list. *)

OnIt(s, m) == \E i \in 1..Len(s) : m = s[i]

\* The nodes t are those of a list in heap h.
ListIn(h, t) ==
    /\ t \in Seq(Nodes) /\ \A i, j \in 1..Len(t) : t[i] = t[j] => i = j
    /\ DOMAIN h \subseteq Nodes /\ LinkedAs(h, t) /\ \A m \in DOMAIN h : IsNode(h[m])

\* In heap g they have become s, and no other node has changed.
Renewed(h, t, g, s) ==
    /\ ListIn(g, s)
    /\ \A m \in DOMAIN g : OnIt(s, m) \/ (m \in DOMAIN h /\ ~OnIt(t, m))
    /\ \A m \in DOMAIN h : ~OnIt(t, m) => m \in DOMAIN g /\ g[m] = h[m]
    /\ \A m : OnIt(s, m) => m \notin DOMAIN h \/ OnIt(t, m)

\* A pointer set.
SetNext(r, n) == [r EXCEPT !.next = n]
SetPrev(r, n) == [r EXCEPT !.prev = n]

\* A node stays one, with the pointer that was set and the rest as it was.
LEMMA NodeSet ==
    ASSUME NEW r, IsNode(r), NEW n
    PROVE  /\ IsNode(SetNext(r, n)) /\ SetNext(r, n).next = n
           /\ SetNext(r, n).prev = r.prev /\ SetNext(r, n).data = r.data
           /\ IsNode(SetPrev(r, n)) /\ SetPrev(r, n).prev = n
           /\ SetPrev(r, n).next = r.next /\ SetPrev(r, n).data = r.data
<1> DEFINE d == r.data
           a == r.next
           b == r.prev
<1>1. r = [data |-> d, next |-> a, prev |-> b]
    BY DEF IsNode
<1> HIDE DEF d, a, b
<1>2. SetNext(r, n) = [data |-> d, next |-> n, prev |-> b]
    BY <1>1 DEF SetNext
<1>3. SetPrev(r, n) = [data |-> d, next |-> a, prev |-> n]
    BY <1>1 DEF SetPrev
<1> QED  BY <1>1, <1>2, <1>3 DEF IsNode

\* The nodes of a list with one more behind, or in front.
Behind(t, n) == [i \in 1..(Len(t) + 1) |-> IF i <= Len(t) THEN t[i] ELSE n]
InFront(t, n) == [i \in 1..(Len(t) + 1) |-> IF i = 1 THEN n ELSE t[i - 1]]

\* dslist_append links one node more behind the last.
LEMMA LinkedLast ==
    ASSUME NEW h, NEW t, ListIn(h, t), NEW r, ListHead(r, t), NEW n \in Nodes, n \notin DOMAIN h, NEW d
    PROVE  LET mem == LinkLast([heap |-> h, head |-> r], n, d) IN
           /\ Renewed(h, t, mem.heap, Behind(t, n)) /\ ListHead(mem.head, Behind(t, n))
           /\ mem.heap[n].data = d /\ \A m \in DOMAIN h : mem.heap[m].data = h[m].data
<1> DEFINE N == Len(t)
           s == Behind(t, n)
           new == [data |-> d, next |-> NULL, prev |-> IF N > 0 THEN t[N] ELSE NULL]
           g == IF N > 0 THEN Put(Put(h, n, new), t[N], SetNext(h[t[N]], n)) ELSE Put(h, n, new)
           first == IF N > 0 THEN t[1] ELSE n
<1>1. /\ t \in Seq(Nodes) /\ N \in Nat /\ (\A i \in 1..N : t[i] \in Nodes)
      /\ \A i, j \in 1..N : t[i] = t[j] => i = j
    BY LenProperties, ElementOfSeq DEF ListIn
<1>2. /\ DOMAIN h \subseteq Nodes /\ \A m \in DOMAIN h : IsNode(h[m])
      /\ \A i \in 1..N : t[i] \in DOMAIN h /\ h[t[i]].next = NextIn(t, i) /\ h[t[i]].prev = PrevIn(t, i)
    BY DEF ListIn, LinkedAs
<1>3. /\ r.count = N /\ (N > 0 => r.first = t[1] /\ r.last = t[N])
    BY <1>1 DEF ListHead
<1>4. /\ LinkLast([heap |-> h, head |-> r], n, d).heap = g
      /\ LinkLast([heap |-> h, head |-> r], n, d).head = [first |-> first, last |-> n, count |-> N + 1]
    BY <1>3 DEF LinkLast, SetNext
<1>5. s \in Seq(Nodes) /\ Len(s) = N + 1 /\ \A i \in 1..(N + 1) : s[i] = IF i <= N THEN t[i] ELSE n
    BY <1>1 DEF Behind
<1>6. IsNode(new) /\ new.next = NULL /\ new.prev = (IF N > 0 THEN t[N] ELSE NULL) /\ new.data = d
    BY DEF IsNode
<1>7. N > 0 => N \in 1..N /\ t[N] \in DOMAIN h /\ t[N] # n
    BY <1>1, <1>2
<1> HIDE DEF s, N, new
<1>8. /\ DOMAIN g = DOMAIN h \cup {n} /\ g[n] = new
      /\ \A m \in DOMAIN h : IF N > 0 /\ m = t[N] THEN g[m] = SetNext(h[m], n) ELSE g[m] = h[m]
  <2> DEFINE g1 == Put(h, n, new)
             x == SetNext(h[t[N]], n)
  <2>1. DOMAIN g1 = DOMAIN h \cup {n} /\ g1[n] = new /\ \A m \in DOMAIN h : m # n => g1[m] = h[m]
      BY DEF Put
  <2>2. CASE N > 0
    <3> HIDE DEF g1, x
    <3>1. /\ DOMAIN Put(g1, t[N], x) = DOMAIN g1 \cup {t[N]} /\ Put(g1, t[N], x)[t[N]] = x
          /\ \A m \in DOMAIN g1 : m # t[N] => Put(g1, t[N], x)[m] = g1[m]
        BY DEF Put
    <3>2. g = Put(g1, t[N], x)
        BY <2>2 DEF g1, x
    <3> HIDE DEF g
    <3> QED  BY <1>7, <2>1, <2>2, <3>1, <3>2 DEF x
  <2>3. CASE ~(N > 0)
      BY <2>1, <2>3
  <2> QED  BY <2>2, <2>3
<1> HIDE DEF g
<1>9. \A m \in DOMAIN h : /\ IsNode(g[m]) /\ g[m].prev = h[m].prev /\ g[m].data = h[m].data
                          /\ g[m].next = IF N > 0 /\ m = t[N] THEN n ELSE h[m].next
    BY <1>2, <1>8, NodeSet
<1>10. LinkedAs(g, s)
  <2> SUFFICES ASSUME NEW i \in 1..(N + 1)
               PROVE  s[i] \in DOMAIN g /\ g[s[i]].next = NextIn(s, i) /\ g[s[i]].prev = PrevIn(s, i)
      BY <1>5 DEF LinkedAs
  <2>1. CASE i = N + 1
    <3>1. s[i] = n /\ NextIn(s, i) = NULL
        BY <1>1, <1>5, <2>1 DEF NextIn
    <3>2. PrevIn(s, i) = IF N > 0 THEN t[N] ELSE NULL
      <4>1. CASE N = 0
          BY <1>1, <2>1, <4>1 DEF PrevIn
      <4>2. CASE N > 0
        <5>1. i # 1 /\ i - 1 = N /\ N \in 1..(N + 1) /\ N <= N
            BY <1>1, <2>1, <4>2
        <5> QED  BY <1>5, <4>2, <5>1 DEF PrevIn
      <4> QED  BY <1>1, <4>1, <4>2
    <3> QED  BY <1>6, <1>8, <3>1, <3>2
  <2>2. CASE i \in 1..N
    <3>1. s[i] = t[i] /\ t[i] \in DOMAIN h /\ i # N + 1 /\ i + 1 \in 1..(N + 1)
        BY <1>1, <1>2, <1>5, <2>2
    <3>2. PrevIn(s, i) = PrevIn(t, i)
      <4>1. i # 1 => i - 1 \in 1..(N + 1) /\ i - 1 <= N
          BY <1>1, <2>2
      <4> QED  BY <1>5, <4>1 DEF PrevIn
    <3>3. NextIn(s, i) = IF i = N THEN n ELSE NextIn(t, i)
      <4>1. i = N => ~(i + 1 <= N)
          BY <1>1
      <4>2. i # N => i + 1 <= N
          BY <1>1, <2>2
      <4> QED  BY <1>5, <3>1, <4>1, <4>2 DEF NextIn, N
    <3>4. N > 0 /\ (t[i] = t[N] <=> i = N)
        BY <1>1, <2>2
    <3> QED  BY <1>2, <1>8, <1>9, <2>2, <3>1, <3>2, <3>3, <3>4
  <2> QED  BY <1>1, <2>1, <2>2
<1>11. ListIn(g, s)
  <2>1. \A i, j \in 1..(N + 1) : s[i] = s[j] => i = j
    <3>1. \A i \in 1..(N + 1) : i = N + 1 \/ i \in 1..N
        BY <1>1
    <3> QED  BY <1>1, <1>2, <1>5, <3>1
  <2> QED  BY <1>2, <1>5, <1>6, <1>8, <1>9, <1>10, <2>1 DEF ListIn
<1>12. \A m : OnIt(s, m) <=> m = n \/ OnIt(t, m)
  <2>1. \A i \in 1..(N + 1) : i = N + 1 \/ i \in 1..N
      BY <1>1
  <2>2. N + 1 \in 1..(N + 1) /\ ~(N + 1 <= N) /\ \A i \in 1..N : i \in 1..(N + 1) /\ i <= N
      BY <1>1
  <2>3. Len(s) = N + 1 /\ Len(t) = N
      BY <1>5 DEF N
  <2>4. ASSUME NEW m, OnIt(s, m) PROVE m = n \/ OnIt(t, m)
    <3>1. PICK i \in 1..(N + 1) : m = s[i]
        BY <2>3, <2>4 DEF OnIt
    <3> QED  BY <1>5, <2>1, <2>2, <2>3, <3>1 DEF OnIt
  <2>5. ASSUME NEW m, m = n \/ OnIt(t, m) PROVE OnIt(s, m)
    <3>1. CASE m = n
        BY <1>5, <2>2, <2>3, <3>1 DEF OnIt
    <3>2. CASE OnIt(t, m)
      <4>1. PICK i \in 1..N : m = t[i]
          BY <2>3, <3>2 DEF OnIt
      <4> QED  BY <1>5, <2>2, <2>3, <4>1 DEF OnIt
    <3> QED  BY <2>5, <3>1, <3>2
  <2> QED  BY <2>4, <2>5
<1>13. Renewed(h, t, g, s)
  <2>1. \A m \in DOMAIN g : OnIt(s, m) \/ (m \in DOMAIN h /\ ~OnIt(t, m))
      BY <1>8, <1>12
  <2>2. \A m \in DOMAIN h : ~OnIt(t, m) => m \in DOMAIN g /\ g[m] = h[m]
    <3>1. N > 0 => OnIt(t, t[N])
        BY <1>7 DEF OnIt, N
    <3> QED  BY <1>8, <3>1
  <2> QED  BY <1>11, <1>12, <2>1, <2>2 DEF Renewed
<1>14. ListHead([first |-> first, last |-> n, count |-> N + 1], s)
  <2>1. s[N + 1] = n /\ s[1] = first /\ N + 1 # 0
      BY <1>1, <1>5
  <2>2. s[Len(s)] = n /\ Len(s) # 0 /\ Len(s) = N + 1
      BY <1>5, <2>1
  <2> HIDE DEF first
  <2> QED  BY <2>1, <2>2 DEF ListHead
<1> QED  BY <1>4, <1>6, <1>8, <1>9, <1>13, <1>14 DEF s

\* Each list of a sound heap.
LEMMA ListsAre ==
    ASSUME NEW h, NEW hd, NEW hl, NEW w, Shape(h, hd, hl, w), NEW l \in Lists
    PROVE  ListIn(h, w[l]) /\ ListHead(hd[l], w[l]) /\ (l \notin hl => w[l] = << >>)
<1>1. w[l] \in Seq(Nodes) /\ \A i, j \in 1..Len(w[l]) : w[l][i] = w[l][j] => i = j
    BY ListsAreBounded
<1>2. DOMAIN h \subseteq Nodes /\ \A m \in DOMAIN h : IsNode(h[m])
    BY DEF Shape
<1>3. LinkedAs(h, w[l]) /\ ListHead(hd[l], w[l]) /\ (l \notin hl => w[l] = << >>)
    BY DEF Shape, LinksOK
<1> QED  BY <1>1, <1>2, <1>3 DEF ListIn

\* One list with other nodes, and its head with them, and all are lists again.
LEMMA OneList ==
    ASSUME NEW h, NEW hd, NEW hl, NEW w, Shape(h, hd, hl, w), NEW l \in Lists,
           NEW g, NEW s, Renewed(h, w[l], g, s), NEW r, ListHead(r, s),
           NEW hl2, hl2 \subseteq Lists, \A k \in hl : k # l => k \in hl2, l \notin hl2 => s = << >>
    PROVE  Shape(g, [hd EXCEPT ![l] = r], hl2, [w EXCEPT ![l] = s])
<1> DEFINE v == [w EXCEPT ![l] = s]
           hd2 == [hd EXCEPT ![l] = r]
<1>1. w \in [Lists -> Seq(Nodes)] /\ DOMAIN hd = Lists
    BY DEF Shape
<1>2. /\ s \in Seq(Nodes) /\ \A i, j \in 1..Len(s) : s[i] = s[j] => i = j
      /\ DOMAIN g \subseteq Nodes /\ LinkedAs(g, s) /\ \A m \in DOMAIN g : IsNode(g[m])
    BY DEF Renewed, ListIn
<1>3. v \in [Lists -> Seq(Nodes)] /\ v[l] = s /\ \A k \in Lists \ {l} : v[k] = w[k]
    BY <1>1, <1>2
<1>4. DOMAIN hd2 = Lists /\ hd2[l] = r /\ \A k \in Lists \ {l} : hd2[k] = hd[k]
    BY <1>1
<1> HIDE DEF v, hd2
<1>5. \A m : (In({l}, v, m) <=> OnIt(s, m)) /\ (In({l}, w, m) <=> OnIt(w[l], m))
    BY <1>3 DEF In, OnIt
<1>6. Apart({l}, v)
    BY <1>2, <1>3 DEF Apart
<1>7. LinksOK({l}, g, hd2, hl2, v)
    BY <1>2, <1>3, <1>4 DEF LinksOK
<1>8. Changes({l}, h, hd, hl, w, g, hd2, hl2, v)
  <2>1. \A m \in DOMAIN g : IsNode(g[m]) /\ (In({l}, v, m) \/ (m \in DOMAIN h /\ ~In({l}, w, m)))
      BY <1>2, <1>5 DEF Renewed
  <2>2. \A m \in DOMAIN h : ~In({l}, w, m) => m \in DOMAIN g /\ g[m] = h[m]
      BY <1>5 DEF Renewed
  <2>3. \A m : In({l}, v, m) => m \notin DOMAIN h \/ In({l}, w, m)
      BY <1>5 DEF Renewed
  <2>4. \A k \in Lists \ {l} : v[k] = w[k] /\ hd2[k] = hd[k] /\ (k \in hl => k \in hl2)
      BY <1>3, <1>4
  <2> QED  BY <1>2, <1>3, <1>4, <1>6, <1>7, <2>1, <2>2, <2>3, <2>4 DEF Changes
<1>9. Shape(g, hd2, hl2, v)
    BY <1>8, ShapeKept
<1> QED  BY <1>9 DEF hd2, v

\* The heap with one node more that the first node of t, if any, has before it.
WithFirst(h, t, n, new) ==
    IF Len(t) > 0 THEN Put(Put(h, t[1], SetPrev(h[t[1]], n)), n, new) ELSE Put(h, n, new)

\* dslist_prepend links one node more before the first.
LEMMA LinkedFirst ==
    ASSUME NEW h, NEW t, ListIn(h, t), NEW n \in Nodes, n \notin DOMAIN h, NEW d,
           NEW new, new = [data |-> d, next |-> IF Len(t) > 0 THEN t[1] ELSE NULL, prev |-> NULL]
    PROVE  LET g == WithFirst(h, t, n, new) IN
           /\ Renewed(h, t, g, InFront(t, n))
           /\ ListHead([first |-> n, last |-> IF Len(t) > 0 THEN t[Len(t)] ELSE n, count |-> Len(t) + 1], InFront(t, n))
           /\ g[n].data = d /\ \A m \in DOMAIN h : g[m].data = h[m].data
<1> DEFINE N == Len(t)
           s == InFront(t, n)
           g == WithFirst(h, t, n, new)
           last == IF N > 0 THEN t[N] ELSE n
<1>1. /\ t \in Seq(Nodes) /\ N \in Nat /\ (\A i \in 1..N : t[i] \in Nodes)
      /\ \A i, j \in 1..N : t[i] = t[j] => i = j
    BY LenProperties, ElementOfSeq DEF ListIn
<1>2. /\ DOMAIN h \subseteq Nodes /\ \A m \in DOMAIN h : IsNode(h[m])
      /\ \A i \in 1..N : t[i] \in DOMAIN h /\ h[t[i]].next = NextIn(t, i) /\ h[t[i]].prev = PrevIn(t, i)
    BY DEF ListIn, LinkedAs
<1>5. s \in Seq(Nodes) /\ Len(s) = N + 1 /\ \A i \in 1..(N + 1) : s[i] = IF i = 1 THEN n ELSE t[i - 1]
  <2>1. \A i \in 1..(N + 1) : i = 1 \/ i - 1 \in 1..N
      BY <1>1
  <2> QED  BY <1>1, <2>1 DEF InFront
<1>6. IsNode(new) /\ new.next = (IF N > 0 THEN t[1] ELSE NULL) /\ new.prev = NULL /\ new.data = d
    BY DEF IsNode
<1>7. N > 0 => 1 \in 1..N /\ t[1] \in DOMAIN h /\ t[1] # n
    BY <1>1, <1>2
<1>8. /\ DOMAIN g = DOMAIN h \cup {n} /\ g[n] = new
      /\ \A m \in DOMAIN h : IF N > 0 /\ m = t[1] THEN g[m] = SetPrev(h[m], n) ELSE g[m] = h[m]
  <2> DEFINE x == SetPrev(h[t[1]], n)
             g1 == Put(h, t[1], x)
  <2>2. CASE N > 0
    <3> HIDE DEF x
    <3>1. DOMAIN g1 = DOMAIN h \cup {t[1]} /\ g1[t[1]] = x /\ \A m \in DOMAIN h : m # t[1] => g1[m] = h[m]
        BY DEF Put
    <3> HIDE DEF g1
    <3>2. /\ DOMAIN Put(g1, n, new) = DOMAIN g1 \cup {n} /\ Put(g1, n, new)[n] = new
          /\ \A m \in DOMAIN g1 : m # n => Put(g1, n, new)[m] = g1[m]
        BY DEF Put
    <3>3. g = Put(g1, n, new)
        BY <2>2 DEF g1, x, WithFirst
    <3> HIDE DEF g
    <3> QED  BY <1>7, <2>2, <3>1, <3>2, <3>3 DEF x
  <2>3. CASE ~(N > 0)
      BY <2>3 DEF Put, WithFirst
  <2> QED  BY <2>2, <2>3
<1> HIDE DEF g, s, N
<1>9. \A m \in DOMAIN h : /\ IsNode(g[m]) /\ g[m].next = h[m].next /\ g[m].data = h[m].data
                          /\ g[m].prev = IF N > 0 /\ m = t[1] THEN n ELSE h[m].prev
    BY <1>2, <1>8, NodeSet
<1>10. LinkedAs(g, s)
  <2> SUFFICES ASSUME NEW i \in 1..(N + 1)
               PROVE  s[i] \in DOMAIN g /\ g[s[i]].next = NextIn(s, i) /\ g[s[i]].prev = PrevIn(s, i)
      BY <1>5 DEF LinkedAs
  <2>1. CASE i = 1
    <3>1. s[i] = n /\ PrevIn(s, i) = NULL
        BY <1>1, <1>5, <2>1 DEF PrevIn
    <3>2. NextIn(s, i) = IF N > 0 THEN t[1] ELSE NULL
      <4>1. CASE N = 0
          BY <1>1, <1>5, <2>1, <4>1 DEF NextIn
      <4>2. CASE N > 0
        <5>1. i # N + 1 /\ i + 1 \in 1..(N + 1) /\ i + 1 - 1 = 1 /\ i + 1 # 1
            BY <1>1, <2>1, <4>2
        <5>2. s[i + 1] = t[1]
            BY <1>5, <5>1
        <5> QED  BY <1>5, <4>2, <5>1, <5>2 DEF NextIn
      <4> QED  BY <1>1, <4>1, <4>2
    <3> QED  BY <1>6, <1>8, <3>1, <3>2
  <2>2. CASE i - 1 \in 1..N
    <3>1. i # 1 /\ s[i] = t[i - 1] /\ t[i - 1] \in DOMAIN h /\ N > 0
        BY <1>1, <1>2, <1>5, <2>2
    <3>2. NextIn(s, i) = NextIn(t, i - 1)
      <4>1. i = N + 1 <=> i - 1 = N
          BY <1>1
      <4>2. i # N + 1 => i + 1 \in 1..(N + 1) /\ i + 1 # 1 /\ i + 1 - 1 = i - 1 + 1
          BY <1>1, <2>2
      <4>3. i # N + 1 => s[i + 1] = t[i - 1 + 1]
          BY <1>5, <4>2
      <4> QED  BY <1>5, <4>1, <4>3 DEF NextIn, N
    <3>3. PrevIn(s, i) = IF i - 1 = 1 THEN n ELSE PrevIn(t, i - 1)
      <4>1. i - 1 = 1 => s[i - 1] = n
          BY <1>1, <1>5, <2>2
      <4>2. i - 1 # 1 => i - 1 \in 1..(N + 1)
          BY <1>1, <2>2
      <4>3. i - 1 # 1 => s[i - 1] = t[i - 1 - 1]
          BY <1>5, <4>2
      <4> QED  BY <3>1, <4>1, <4>3 DEF PrevIn
    <3>4. t[i - 1] = t[1] <=> i - 1 = 1
        BY <1>1, <2>2
    <3>5. h[t[i - 1]].next = NextIn(t, i - 1) /\ h[t[i - 1]].prev = PrevIn(t, i - 1)
        BY <1>2, <2>2
    <3>6. g[t[i - 1]].next = h[t[i - 1]].next
        BY <1>9, <3>1
    <3>7. g[t[i - 1]].prev = IF i - 1 = 1 THEN n ELSE h[t[i - 1]].prev
        BY <1>9, <3>1, <3>4
    <3> QED  BY <1>8, <3>1, <3>2, <3>3, <3>5, <3>6, <3>7
  <2> QED  BY <1>1, <2>1, <2>2
<1>11. ListIn(g, s)
  <2>1. \A i, j \in 1..(N + 1) : s[i] = s[j] => i = j
    <3> SUFFICES ASSUME NEW i \in 1..(N + 1), NEW j \in 1..(N + 1), s[i] = s[j] PROVE i = j
        OBVIOUS
    <3>1. (i = 1 \/ i - 1 \in 1..N) /\ (j = 1 \/ j - 1 \in 1..N)
        BY <1>1
    <3>2. CASE i # 1 /\ j # 1
      <4>1. t[i - 1] = t[j - 1]
          BY <1>5, <3>2
      <4>2. i - 1 = j - 1
          BY <1>1, <3>1, <3>2, <4>1
      <4> QED  BY <4>2
    <3> QED  BY <1>2, <1>5, <3>1, <3>2
  <2> QED  BY <1>2, <1>5, <1>6, <1>8, <1>9, <1>10, <2>1 DEF ListIn
<1>12. \A m : OnIt(s, m) <=> m = n \/ OnIt(t, m)
  <2>3. Len(s) = N + 1 /\ Len(t) = N
      BY <1>5 DEF N
  <2>4. ASSUME NEW m, OnIt(s, m) PROVE m = n \/ OnIt(t, m)
    <3>1. PICK i \in 1..(N + 1) : m = s[i]
        BY <2>3, <2>4 DEF OnIt
    <3>2. i = 1 \/ i - 1 \in 1..N
        BY <1>1
    <3> QED  BY <1>5, <2>3, <3>1, <3>2 DEF OnIt
  <2>5. ASSUME NEW m, m = n \/ OnIt(t, m) PROVE OnIt(s, m)
    <3>1. CASE m = n
      <4>1. 1 \in 1..(N + 1)
          BY <1>1
      <4> QED  BY <1>5, <2>3, <3>1, <4>1 DEF OnIt
    <3>2. CASE OnIt(t, m)
      <4>1. PICK i \in 1..N : m = t[i]
          BY <2>3, <3>2 DEF OnIt
      <4>2. i + 1 \in 1..(N + 1) /\ i + 1 # 1 /\ i + 1 - 1 = i
          BY <1>1
      <4>3. s[i + 1] = t[i]
          BY <1>5, <4>2
      <4> QED  BY <2>3, <4>1, <4>2, <4>3 DEF OnIt
    <3> QED  BY <2>5, <3>1, <3>2
  <2> QED  BY <2>4, <2>5
<1>13. Renewed(h, t, g, s)
  <2>1. \A m \in DOMAIN g : OnIt(s, m) \/ (m \in DOMAIN h /\ ~OnIt(t, m))
      BY <1>8, <1>12
  <2>2. \A m \in DOMAIN h : ~OnIt(t, m) => m \in DOMAIN g /\ g[m] = h[m]
    <3>1. N > 0 => OnIt(t, t[1])
        BY <1>7 DEF OnIt, N
    <3> QED  BY <1>8, <3>1
  <2> QED  BY <1>11, <1>12, <2>1, <2>2 DEF Renewed
<1>14. ListHead([first |-> n, last |-> last, count |-> N + 1], s)
  <2>1. s[1] = n /\ N + 1 # 0
      BY <1>1, <1>5
  <2>2. s[N + 1] = last
    <3>1. N = 0 => N + 1 = 1
        OBVIOUS
    <3>2. N # 0 => N > 0 /\ N + 1 \in 1..(N + 1) /\ N + 1 # 1 /\ N + 1 - 1 = N
        BY <1>1
    <3>3. N # 0 => s[N + 1] = t[N]
        BY <1>1, <1>5, <3>2
    <3>4. CASE N = 0
        BY <1>1, <2>1, <3>1, <3>4
    <3> QED  BY <3>2, <3>3, <3>4
  <2>3. s[Len(s)] = last /\ Len(s) # 0 /\ Len(s) = N + 1
      BY <1>5, <2>1, <2>2
  <2> HIDE DEF last
  <2> QED  BY <2>1, <2>3 DEF ListHead
<1> QED  BY <1>6, <1>8, <1>9, <1>13, <1>14 DEF s, g, N

\* The nodes of a list without the one at place p.
Without(t, p) == [i \in 1..(Len(t) - 1) |-> IF i < p THEN t[i] ELSE t[i + 1]]
Old(p, i) == IF i < p THEN i ELSE i + 1

\* dslist_remove_raw links the neighbours of a node.
LEMMA UnlinkedAt ==
    ASSUME NEW t, ListIn(node, t), NEW p \in 1..Len(t)
    PROVE  /\ Renewed(node, t, Unlinked(t[p]), Without(t, p))
           /\ DOMAIN Unlinked(t[p]) = DOMAIN node \ {t[p]}
           /\ \A m \in DOMAIN Unlinked(t[p]) : Unlinked(t[p])[m].data = node[m].data
<1> DEFINE N == Len(t)
           s == Without(t, p)
           n == t[p]
           g == Unlinked(n)
<1>1. /\ t \in Seq(Nodes) /\ N \in Nat /\ (\A i \in 1..N : t[i] \in Nodes)
      /\ \A i, j \in 1..N : t[i] = t[j] => i = j
    BY LenProperties, ElementOfSeq DEF ListIn
<1>2. /\ DOMAIN node \subseteq Nodes /\ \A m \in DOMAIN node : IsNode(node[m])
      /\ \A i \in 1..N : t[i] \in DOMAIN node /\ node[t[i]].next = NextIn(t, i) /\ node[t[i]].prev = PrevIn(t, i)
    BY DEF ListIn, LinkedAs
<1>3. /\ p \in 1..N /\ p \in Nat /\ N - 1 \in Nat
      /\ \A i \in 1..(N - 1) : Old(p, i) \in 1..N /\ Old(p, i) # p /\ i \in Nat
    BY <1>1 DEF Old
<1>4. s \in Seq(Nodes) /\ Len(s) = N - 1 /\ \A i \in 1..(N - 1) : s[i] = t[Old(p, i)]
  <2>1. s = [i \in 1..(N - 1) |-> t[Old(p, i)]]
      BY DEF Without, Old
  <2> HIDE DEF s
  <2> QED  BY <1>1, <1>3, <2>1
<1>5. /\ DOMAIN g = DOMAIN node \ {n}
      /\ \A m \in DOMAIN g : /\ IsNode(g[m]) /\ g[m].data = node[m].data
                             /\ g[m].next = IF m = node[n].prev THEN node[n].next ELSE node[m].next
                             /\ g[m].prev = IF m = node[n].next THEN node[n].prev ELSE node[m].prev
    BY DEF Unlinked, IsNode
<1>6. node[n].next = NextIn(t, p) /\ node[n].prev = PrevIn(t, p) /\ n \in DOMAIN node
    BY <1>2, <1>3
<1> HIDE DEF g, s, n
<1>7. \A q \in 1..N : q # p => t[q] \in DOMAIN g
    BY <1>1, <1>2, <1>3, <1>5 DEF n
<1>8. NULL \notin Nodes /\ \A q \in 1..N : t[q] # NULL
    BY <1>1, ListAssumption DEF Nodes, NULL
<1>9. LinkedAs(g, s)
  <2> SUFFICES ASSUME NEW i \in 1..(N - 1)
               PROVE  s[i] \in DOMAIN g /\ g[s[i]].next = NextIn(s, i) /\ g[s[i]].prev = PrevIn(s, i)
      BY <1>4 DEF LinkedAs
  <2> DEFINE q == Old(p, i)
  <2>1. q \in 1..N /\ q # p /\ s[i] = t[q] /\ t[q] \in DOMAIN g
      BY <1>3, <1>4, <1>7
  <2>2. node[t[q]].next = NextIn(t, q) /\ node[t[q]].prev = PrevIn(t, q)
      BY <1>2, <2>1
  <2>3. g[t[q]].next = NextIn(s, i)
    <3>1. t[q] = PrevIn(t, p) <=> i = p - 1
      <4>1. p # 1 => p - 1 \in 1..N
          BY <1>3
      <4>2. p # 1 => (t[q] = t[p - 1] <=> q = p - 1)
          BY <1>1, <2>1, <4>1
      <4>3. q = p - 1 <=> i = p - 1
          BY <1>1, <1>3 DEF Old
      <4>4. p = 1 => i # p - 1
          BY <1>3
      <4> QED  BY <1>8, <2>1, <4>2, <4>3, <4>4 DEF PrevIn
    <3>2. g[t[q]].next = IF i = p - 1 THEN NextIn(t, p) ELSE NextIn(t, q)
        BY <1>5, <1>6, <2>1, <2>2, <3>1
    <3>3. i # N - 1 => i + 1 \in 1..(N - 1) /\ s[i + 1] = t[Old(p, i + 1)]
        BY <1>3, <1>4
    <3>4. CASE i = p - 1
      <4>1. (p = N <=> i = N - 1) /\ Old(p, i + 1) = p + 1
          BY <1>1, <1>3, <3>4 DEF Old
      <4> QED  BY <1>4, <3>2, <3>3, <3>4, <4>1 DEF NextIn, N
    <3>5. CASE i # p - 1
      <4>1. (q = N <=> i = N - 1) /\ Old(p, i + 1) = q + 1
          BY <1>1, <1>3, <3>5 DEF Old
      <4> QED  BY <1>4, <3>2, <3>3, <3>5, <4>1 DEF NextIn, N
    <3> QED  BY <3>4, <3>5
  <2>4. g[t[q]].prev = PrevIn(s, i)
    <3>1. t[q] = NextIn(t, p) <=> i = p
      <4>1. p # N => p + 1 \in 1..N
          BY <1>1, <1>3
      <4>2. p # N => (t[q] = t[p + 1] <=> q = p + 1)
          BY <1>1, <2>1, <4>1
      <4>3. q = p + 1 <=> i = p
          BY <1>1, <1>3 DEF Old
      <4>4. p = N => i # p
          BY <1>1, <1>3
      <4> QED  BY <1>8, <2>1, <4>2, <4>3, <4>4 DEF NextIn, N
    <3>2. g[t[q]].prev = IF i = p THEN PrevIn(t, p) ELSE PrevIn(t, q)
        BY <1>5, <1>6, <2>1, <2>2, <3>1
    <3>3. i # 1 => i - 1 \in 1..(N - 1) /\ s[i - 1] = t[Old(p, i - 1)]
        BY <1>3, <1>4
    <3>4. CASE i = p
      <4>1. i # 1 => Old(p, i - 1) = p - 1
          BY <1>1, <1>3, <3>4 DEF Old
      <4> QED  BY <3>2, <3>3, <3>4, <4>1 DEF PrevIn
    <3>5. CASE i # p
      <4>1. (q = 1 <=> i = 1) /\ (i # 1 => Old(p, i - 1) = q - 1)
          BY <1>1, <1>3, <3>5 DEF Old
      <4> QED  BY <3>2, <3>3, <3>5, <4>1 DEF PrevIn
    <3> QED  BY <3>4, <3>5
  <2> QED  BY <2>1, <2>3, <2>4
<1>10. ListIn(g, s)
  <2>1. \A i, j \in 1..(N - 1) : s[i] = s[j] => i = j
    <3> SUFFICES ASSUME NEW i \in 1..(N - 1), NEW j \in 1..(N - 1), s[i] = s[j] PROVE i = j
        OBVIOUS
    <3>1. Old(p, i) = Old(p, j)
        BY <1>1, <1>3, <1>4
    <3> QED  BY <1>3, <3>1 DEF Old
  <2> QED  BY <1>2, <1>4, <1>5, <1>9, <2>1 DEF ListIn
<1>11. \A m : OnIt(t, m) <=> m = n \/ OnIt(s, m)
  <2>1. Len(s) = N - 1 /\ Len(t) = N
      BY <1>4 DEF N
  <2>2. ASSUME NEW m, OnIt(t, m), m # n PROVE OnIt(s, m)
    <3>1. PICK j \in 1..N : m = t[j]
        BY <2>1, <2>2 DEF OnIt
    <3>2. j # p
        BY <2>2, <3>1 DEF n
    <3>3. PICK i \in 1..(N - 1) : Old(p, i) = j
      <4>1. CASE j < p
        <5>1. j \in 1..(N - 1) /\ Old(p, j) = j
            BY <1>1, <1>3, <4>1 DEF Old
        <5> QED  BY <5>1
      <4>2. CASE ~(j < p)
        <5>1. j - 1 \in 1..(N - 1) /\ Old(p, j - 1) = j
            BY <1>1, <1>3, <3>2, <4>2 DEF Old
        <5> QED  BY <5>1
      <4> QED  BY <4>1, <4>2
    <3> QED  BY <1>4, <2>1, <3>1, <3>3 DEF OnIt
  <2>3. ASSUME NEW m, OnIt(s, m) PROVE OnIt(t, m)
    <3>1. PICK i \in 1..(N - 1) : m = s[i]
        BY <2>1, <2>3 DEF OnIt
    <3> QED  BY <1>3, <1>4, <2>1, <3>1 DEF OnIt
  <2>4. OnIt(t, n)
      BY <1>3, <2>1 DEF OnIt, n
  <2> QED  BY <2>2, <2>3, <2>4
<1>12. ~OnIt(s, n)
  <2>1. ASSUME NEW i \in 1..(N - 1) PROVE s[i] # t[p]
      BY <1>1, <1>3, <1>4
  <2> QED  BY <1>4, <2>1 DEF OnIt, n
<1>13. Renewed(node, t, g, s)
  <2>1. \A m \in DOMAIN g : OnIt(s, m) \/ (m \in DOMAIN node /\ ~OnIt(t, m))
      BY <1>5, <1>11
  <2>2. \A m \in DOMAIN node : ~OnIt(t, m) => m \in DOMAIN g /\ g[m] = node[m]
    <3> SUFFICES ASSUME NEW m \in DOMAIN node, ~OnIt(t, m) PROVE m \in DOMAIN g /\ g[m] = node[m]
        OBVIOUS
    <3>1. m \in DOMAIN g
        BY <1>5, <1>11
    <3>2. m # NextIn(t, p) /\ m # PrevIn(t, p)
      <4>1. p # N => OnIt(t, t[p + 1])
          BY <1>1, <1>3 DEF OnIt, N
      <4>2. p # 1 => OnIt(t, t[p - 1])
          BY <1>1, <1>3 DEF OnIt, N
      <4> QED  BY <1>2, <1>8, <4>1, <4>2 DEF NextIn, PrevIn, N
    <3>3. /\ g[m].data = node[m].data /\ g[m].next = node[m].next /\ g[m].prev = node[m].prev
          /\ IsNode(g[m]) /\ IsNode(node[m])
        BY <1>2, <1>5, <1>6, <3>1, <3>2
    <3> QED  BY <3>1, <3>3, Zenon DEF IsNode
  <2> QED  BY <1>10, <1>11, <2>1, <2>2 DEF Renewed
<1> QED  BY <1>5, <1>13 DEF g, s, n

\* A heap in which only other parts of the nodes t have changed than their pointers.
LEMMA SameLinks ==
    ASSUME NEW h, NEW t, ListIn(h, t), NEW g, DOMAIN g = DOMAIN h,
           \A m \in DOMAIN h : IsNode(g[m]) /\ g[m].next = h[m].next /\ g[m].prev = h[m].prev,
           \A m \in DOMAIN h : ~OnIt(t, m) => g[m] = h[m]
    PROVE  Renewed(h, t, g, t)
<1>1. /\ t \in Seq(Nodes) /\ \A i, j \in 1..Len(t) : t[i] = t[j] => i = j
      /\ DOMAIN h \subseteq Nodes
      /\ \A i \in 1..Len(t) : t[i] \in DOMAIN h /\ h[t[i]].next = NextIn(t, i) /\ h[t[i]].prev = PrevIn(t, i)
    BY DEF ListIn, LinkedAs
<1>2. LinkedAs(g, t)
    BY <1>1 DEF LinkedAs
<1>3. ListIn(g, t)
    BY <1>1, <1>2 DEF ListIn
<1>4. \A m : OnIt(t, m) => m \in DOMAIN h
    BY <1>1 DEF OnIt
<1> QED  BY <1>3, <1>4 DEF Renewed

\* dslist_free takes every node of the list away.
LEMMA FreedAre ==
    ASSUME NEW t, ListIn(node, t)
    PROVE  Renewed(node, t, [m \in DOMAIN node \ ToSet(t) |-> node[m]], << >>)
<1> DEFINE g == [m \in DOMAIN node \ ToSet(t) |-> node[m]]
           e == << >>
<1>1. \A m : m \in ToSet(t) <=> OnIt(t, m)
  <2>1. DOMAIN t = 1..Len(t)
      BY LenProperties DEF ListIn
  <2> QED  BY <2>1 DEF ToSet, OnIt
<1>2. e \in Seq(Nodes) /\ Len(e) = 0 /\ \A i : i \notin 1..Len(e)
    OBVIOUS
<1>3. DOMAIN g = {m \in DOMAIN node : ~OnIt(t, m)} /\ \A m \in DOMAIN g : g[m] = node[m]
    BY <1>1
<1> HIDE DEF g, e
<1>4. ListIn(g, e)
    BY <1>2, <1>3 DEF ListIn, LinkedAs
<1>5. \A m : ~OnIt(e, m)
    BY <1>2 DEF OnIt
<1>6. Renewed(node, t, g, e)
    BY <1>3, <1>4, <1>5 DEF Renewed
<1> QED  BY <1>6 DEF g, e

\* Other data in a node.
SetData(r, x) == [r EXCEPT !.data = x]

\* A node stays one, with the data that was set and the pointers as they were.
LEMMA DataSet ==
    ASSUME NEW r, IsNode(r), NEW x
    PROVE  /\ IsNode(SetData(r, x)) /\ SetData(r, x).data = x
           /\ SetData(r, x).next = r.next /\ SetData(r, x).prev = r.prev
<1> DEFINE d == r.data
           a == r.next
           b == r.prev
<1>1. r = [data |-> d, next |-> a, prev |-> b]
    BY DEF IsNode
<1> HIDE DEF d, a, b
<1>2. SetData(r, x) = [data |-> x, next |-> a, prev |-> b]
    BY <1>1 DEF SetData
<1> QED  BY <1>1, <1>2 DEF IsNode

\* dslist_reverse leaves the nodes where they are.
LEMMA ReversedAre ==
    ASSUME NEW l, NEW t, ListIn(node, t), Chain(list[l].first, "next") = t
    PROVE  Renewed(node, t, Reversed(l), t)
<1> DEFINE g == Reversed(l)
<1>1. \A m : m \in ToSet(t) <=> OnIt(t, m)
  <2>1. DOMAIN t = 1..Len(t)
      BY LenProperties DEF ListIn
  <2> QED  BY <2>1 DEF ToSet, OnIt
<1>2. \E f : g = [m \in DOMAIN node |-> IF m \notin ToSet(t) THEN node[m] ELSE SetData(node[m], f[m])]
  <2> DEFINE data == Swapped(Foreach(l))
             f == [m \in DOMAIN node |-> data[FirstPlace(t, {m})]]
  <2>1. g = [m \in DOMAIN node |-> IF m \notin ToSet(t) THEN node[m] ELSE SetData(node[m], data[FirstPlace(t, {m})])]
      BY DEF Reversed, SetData
  <2> HIDE DEF data, g
  <2>2. g = [m \in DOMAIN node |-> IF m \notin ToSet(t) THEN node[m] ELSE SetData(node[m], f[m])]
      BY <2>1
  <2> HIDE DEF f
  <2> QED  BY <2>2, Zenon
<1>3. PICK f : g = [m \in DOMAIN node |-> IF m \notin ToSet(t) THEN node[m] ELSE SetData(node[m], f[m])]
    BY <1>2
<1> HIDE DEF g
<1>4. \A m \in DOMAIN node : IsNode(node[m])
    BY DEF ListIn
<1>5. DOMAIN g = DOMAIN node /\ \A m \in DOMAIN node : g[m] = IF OnIt(t, m) THEN SetData(node[m], f[m]) ELSE node[m]
    BY <1>1, <1>3
<1>6. \A m \in DOMAIN node : IsNode(g[m]) /\ g[m].next = node[m].next /\ g[m].prev = node[m].prev
    BY <1>4, <1>5, DataSet
<1>7. Renewed(node, t, g, t)
    BY <1>5, <1>6, SameLinks
<1> QED  BY <1>7 DEF g

\* The heap and the head dslist_copy makes of new nodes.
CopyHeap(new, data) ==
    [m \in DOMAIN node \cup ToSet(new) |->
        IF m \in DOMAIN node THEN node[m]
        ELSE LET i == CHOOSE i \in 1..Len(new) : new[i] = m IN Linked(new, data[i], i)]
CopyHead(new) == IF Len(new) = 0 THEN empty_list ELSE [first |-> new[1], last |-> new[Len(new)], count |-> Len(new)]

\* They are those of a list of these nodes.
LEMMA CopiedAre ==
    ASSUME DOMAIN node \subseteq Nodes, \A m \in DOMAIN node : IsNode(node[m]), NEW data,
           NEW n \in Nat, NEW new \in [1..n -> FreeNodes], \A i, j \in 1..n : new[i] = new[j] => i = j
    PROVE  /\ new \in Seq(Nodes) /\ Len(new) = n
           /\ Renewed(node, << >>, CopyHeap(new, data), new) /\ ListHead(CopyHead(new), new)
           /\ \A i \in 1..n : CopyHeap(new, data)[new[i]].data = data[i]
           /\ \A m \in DOMAIN node : CopyHeap(new, data)[m] = node[m]
<1> DEFINE g == CopyHeap(new, data)
<1>1. new \in Seq(Nodes) /\ Len(new) = n /\ DOMAIN new = 1..n /\ \A i \in 1..n : new[i] \in Nodes /\ new[i] \notin DOMAIN node
    BY DEF FreeNodes
<1>2. \A m : m \in ToSet(new) <=> OnIt(new, m)
    BY <1>1 DEF ToSet, OnIt
<1>3. DOMAIN g = DOMAIN node \cup ToSet(new) /\ \A m \in DOMAIN node : g[m] = node[m]
    BY DEF CopyHeap
<1>4. \A i \in 1..n : g[new[i]] = [data |-> data[i], next |-> NextIn(new, i), prev |-> PrevIn(new, i)]
  <2> TAKE i \in 1..n
  <2> DEFINE k == CHOOSE k \in 1..Len(new) : new[k] = new[i]
  <2>1. k \in 1..n /\ new[k] = new[i]
      BY <1>1
  <2>2. k = i
      BY <2>1
  <2>3. new[i] \in ToSet(new) /\ new[i] \notin DOMAIN node
      BY <1>1 DEF ToSet
  <2>4. g[new[i]] = Linked(new, data[k], k)
      BY <2>3 DEF CopyHeap
  <2> HIDE DEF k, g
  <2> QED  BY <2>2, <2>4 DEF Linked, NextIn, PrevIn
<1> HIDE DEF g
<1>5. \A m \in DOMAIN g : IsNode(g[m])
  <2> SUFFICES ASSUME NEW i \in 1..n PROVE IsNode(g[new[i]])
      BY <1>1, <1>2, <1>3 DEF OnIt
  <2> DEFINE x == data[i]
             y == NextIn(new, i)
             z == PrevIn(new, i)
  <2>1. g[new[i]] = [data |-> x, next |-> y, prev |-> z]
      BY <1>4
  <2> HIDE DEF x, y, z
  <2> QED  BY <2>1 DEF IsNode
<1>10. \A i \in 1..n : g[new[i]].data = data[i] /\ g[new[i]].next = NextIn(new, i) /\ g[new[i]].prev = PrevIn(new, i)
  <2> TAKE i \in 1..n
  <2> DEFINE x == data[i]
             y == NextIn(new, i)
             z == PrevIn(new, i)
  <2>1. g[new[i]] = [data |-> x, next |-> y, prev |-> z]
      BY <1>4
  <2> HIDE DEF x, y, z
  <2>2. g[new[i]].data = x /\ g[new[i]].next = y /\ g[new[i]].prev = z
      BY <2>1
  <2> QED  BY <2>2 DEF x, y, z
<1>6. ListIn(g, new)
  <2>1. LinkedAs(g, new)
    <3>1. \A i \in 1..n : new[i] \in DOMAIN g
        BY <1>1, <1>2, <1>3 DEF OnIt
    <3> QED  BY <1>1, <1>10, <3>1 DEF LinkedAs
  <2>2. DOMAIN g \subseteq Nodes
      BY <1>1, <1>2, <1>3 DEF OnIt
  <2> QED  BY <1>1, <1>5, <2>1, <2>2 DEF ListIn
<1>7. \A m : ~OnIt(<< >>, m)
    BY DEF OnIt
<1>8. Renewed(node, << >>, g, new)
  <2>1. \A m : OnIt(new, m) => m \notin DOMAIN node
      BY <1>1 DEF OnIt
  <2> QED  BY <1>2, <1>3, <1>6, <1>7, <2>1 DEF Renewed
<1>9. ListHead(CopyHead(new), new)
    BY <1>1 DEF ListHead, CopyHead, empty_list
<1> QED  BY <1>1, <1>3, <1>8, <1>9, <1>10 DEF g

\* The nodes of two lists, one behind the other.
ListJoined(a, b) == [i \in 1..(Len(a) + Len(b)) |-> IF i <= Len(a) THEN a[i] ELSE b[i - Len(a)]]
JoinHeap(a, b) ==
    Put(Put(node, a[Len(a)], SetNext(node[a[Len(a)]], b[1])), b[1], SetPrev(node[b[1]], a[Len(a)]))

\* dslist_concat links them.
LEMMA JoinedAre ==
    ASSUME NEW a, NEW b, ListIn(node, a), ListIn(node, b), Len(a) > 0, Len(b) > 0,
           \A i \in 1..Len(a), j \in 1..Len(b) : a[i] # b[j]
    PROVE  LET g == JoinHeap(a, b)
               s == ListJoined(a, b)
           IN  /\ ListIn(g, s) /\ DOMAIN g = DOMAIN node /\ Len(s) = Len(a) + Len(b)
               /\ s[1] = a[1] /\ s[Len(s)] = b[Len(b)]
               /\ \A m : OnIt(s, m) <=> OnIt(a, m) \/ OnIt(b, m)
               /\ \A m \in DOMAIN node : ~OnIt(s, m) => g[m] = node[m]
               /\ \A m \in DOMAIN node : g[m].data = node[m].data
<1> DEFINE N == Len(a)
           M == Len(b)
           g == JoinHeap(a, b)
           s == ListJoined(a, b)
<1>1. /\ a \in Seq(Nodes) /\ N \in Nat /\ N > 0 /\ (\A i \in 1..N : a[i] \in Nodes)
      /\ b \in Seq(Nodes) /\ M \in Nat /\ M > 0 /\ (\A i \in 1..M : b[i] \in Nodes)
      /\ (\A i, j \in 1..N : a[i] = a[j] => i = j) /\ (\A i, j \in 1..M : b[i] = b[j] => i = j)
    BY LenProperties, ElementOfSeq DEF ListIn
<1>2. /\ DOMAIN node \subseteq Nodes /\ \A m \in DOMAIN node : IsNode(node[m])
      /\ \A i \in 1..N : a[i] \in DOMAIN node /\ node[a[i]].next = NextIn(a, i) /\ node[a[i]].prev = PrevIn(a, i)
      /\ \A i \in 1..M : b[i] \in DOMAIN node /\ node[b[i]].next = NextIn(b, i) /\ node[b[i]].prev = PrevIn(b, i)
    BY DEF ListIn, LinkedAs
<1>3. /\ N \in 1..N /\ 1 \in 1..N /\ 1 \in 1..M /\ M \in 1..M
      /\ \A i \in 1..(N + M) : i \in 1..N \/ (i - N \in 1..M /\ ~(i <= N))
    BY <1>1
<1>4. /\ s \in Seq(Nodes) /\ Len(s) = N + M
      /\ \A i \in 1..(N + M) : s[i] = IF i <= N THEN a[i] ELSE b[i - N]
  <2>1. \A i \in 1..(N + M) : (IF i <= N THEN a[i] ELSE b[i - N]) \in Nodes
      BY <1>1, <1>3
  <2>2. N + M \in Nat
      BY <1>1
  <2> HIDE DEF N, M
  <2>3. s = [i \in 1..(N + M) |-> IF i <= N THEN a[i] ELSE b[i - N]]
      BY DEF ListJoined, N, M
  <2> HIDE DEF s
  <2> QED  BY <2>1, <2>2, <2>3
<1>5. a[N] # b[1] /\ a[N] \in DOMAIN node /\ b[1] \in DOMAIN node
    BY <1>2, <1>3
<1>6. /\ DOMAIN g = DOMAIN node
      /\ \A m \in DOMAIN node : g[m] = IF m = a[N] THEN SetNext(node[m], b[1])
                                       ELSE IF m = b[1] THEN SetPrev(node[m], a[N]) ELSE node[m]
  <2> DEFINE x == SetNext(node[a[N]], b[1])
             y == SetPrev(node[b[1]], a[N])
             g1 == Put(node, a[N], x)
  <2>1. g = Put(g1, b[1], y)
      BY DEF JoinHeap
  <2> HIDE DEF x, y
  <2>2. DOMAIN g1 = DOMAIN node \cup {a[N]} /\ g1[a[N]] = x /\ \A m \in DOMAIN node : m # a[N] => g1[m] = node[m]
      BY DEF Put
  <2> HIDE DEF g1, g
  <2>3. /\ DOMAIN g = DOMAIN g1 \cup {b[1]} /\ g[b[1]] = y
        /\ \A m \in DOMAIN g1 : m # b[1] => g[m] = g1[m]
      BY <2>1 DEF Put
  <2> HIDE DEF N
  <2> QED  BY <1>5, <2>2, <2>3 DEF x, y
<1> HIDE DEF g, s, N, M
<1>7. \A m \in DOMAIN node : /\ IsNode(g[m]) /\ g[m].data = node[m].data
                             /\ g[m].next = IF m = a[N] THEN b[1] ELSE node[m].next
                             /\ g[m].prev = IF m = b[1] THEN a[N] ELSE node[m].prev
    BY <1>2, <1>5, <1>6, NodeSet
<1>8. LinkedAs(g, s)
  <2> SUFFICES ASSUME NEW i \in 1..(N + M)
               PROVE  s[i] \in DOMAIN g /\ g[s[i]].next = NextIn(s, i) /\ g[s[i]].prev = PrevIn(s, i)
      BY <1>4 DEF LinkedAs
  <2>1. CASE i \in 1..N
    <3>1. s[i] = a[i] /\ a[i] \in DOMAIN node /\ a[i] # b[1] /\ (a[i] = a[N] <=> i = N)
        BY <1>1, <1>2, <1>3, <1>4, <2>1 DEF N, M
    <3>2. NextIn(s, i) = IF i = N THEN b[1] ELSE NextIn(a, i)
      <4>1. /\ i # N + M /\ i + 1 \in 1..(N + M) /\ (i = N <=> ~(i + 1 <= N)) /\ (i = N => i + 1 - N = 1)
          BY <1>1, <2>1
      <4> QED  BY <1>4, <4>1 DEF NextIn, N
    <3>3. PrevIn(s, i) = PrevIn(a, i)
      <4>1. i # 1 => i - 1 \in 1..(N + M) /\ i - 1 <= N
          BY <1>1, <2>1
      <4> QED  BY <1>4, <4>1 DEF PrevIn
    <3> QED  BY <1>2, <1>6, <1>7, <2>1, <3>1, <3>2, <3>3
  <2>2. CASE i - N \in 1..M /\ ~(i <= N)
    <3> DEFINE j == i - N
    <3>1. s[i] = b[j] /\ b[j] \in DOMAIN node /\ b[j] # a[N] /\ (b[j] = b[1] <=> j = 1)
        BY <1>1, <1>2, <1>3, <1>4, <2>2 DEF N, M
    <3>2. NextIn(s, i) = NextIn(b, j)
      <4>1. /\ (i = N + M <=> j = M) /\ (j # M => i + 1 \in 1..(N + M) /\ ~(i + 1 <= N) /\ i + 1 - N = j + 1)
          BY <1>1, <2>2
      <4>2. j # M => s[i + 1] = b[i + 1 - N]
          BY <1>1, <1>4, <4>1
      <4>3. j # M => s[i + 1] = b[j + 1]
          BY <4>1, <4>2
      <4> HIDE DEF j
      <4> QED  BY <1>4, <4>1, <4>3 DEF NextIn, M
    <3>3. PrevIn(s, i) = IF j = 1 THEN a[N] ELSE PrevIn(b, j)
      <4>1. i # 1 /\ i - 1 \in 1..(N + M) /\ (j = 1 <=> i - 1 <= N) /\ (j = 1 => i - 1 = N) /\ i - 1 - N = j - 1
          BY <1>1, <2>2
      <4>2. s[i - 1] = IF j = 1 THEN a[N] ELSE b[j - 1]
          BY <1>4, <4>1
      <4> HIDE DEF j
      <4> QED  BY <4>1, <4>2 DEF PrevIn
    <3>4. node[b[j]].next = NextIn(b, j) /\ node[b[j]].prev = PrevIn(b, j)
        BY <1>2, <2>2
    <3> HIDE DEF j
    <3> QED  BY <1>6, <1>7, <3>1, <3>2, <3>3, <3>4
  <2> QED  BY <1>3, <2>1, <2>2
<1>9. \A i, j \in 1..(N + M) : s[i] = s[j] => i = j
  <2> SUFFICES ASSUME NEW i \in 1..(N + M), NEW j \in 1..(N + M), s[i] = s[j] PROVE i = j
      OBVIOUS
  <2>1. (i \in 1..N \/ (i - N \in 1..M /\ ~(i <= N))) /\ (j \in 1..N \/ (j - N \in 1..M /\ ~(j <= N)))
      BY <1>3
  <2>2. CASE i \in 1..N /\ j \in 1..N
    <3>1. a[i] = s[i] /\ a[j] = s[j]
        BY <1>1, <1>4, <2>2
    <3>2. a[i] = a[j]
        BY <3>1
    <3> QED  BY <1>1, <2>2, <3>2
  <2>3. CASE i \in 1..N /\ ~(j <= N)
    <3>1. s[i] = a[i] /\ s[j] = b[j - N] /\ j - N \in 1..M
        BY <1>1, <1>4, <2>1, <2>3
    <3> QED  BY <2>3, <3>1 DEF N, M
  <2>4. CASE ~(i <= N) /\ j \in 1..N
    <3>1. s[j] = a[j] /\ s[i] = b[i - N] /\ i - N \in 1..M
        BY <1>1, <1>4, <2>1, <2>4
    <3> QED  BY <2>4, <3>1 DEF N, M
  <2>5. CASE ~(i <= N) /\ ~(j <= N)
    <3>1. b[i - N] = b[j - N] /\ i - N \in 1..M /\ j - N \in 1..M
        BY <1>1, <1>4, <2>1, <2>5
    <3>2. i - N = j - N
        BY <1>1, <3>1
    <3> QED  BY <1>1, <3>2
  <2> QED  BY <1>1, <2>1, <2>2, <2>3, <2>4, <2>5
<1>10. ListIn(g, s)
    BY <1>2, <1>4, <1>6, <1>7, <1>8, <1>9 DEF ListIn
<1>11. \A m : OnIt(s, m) <=> OnIt(a, m) \/ OnIt(b, m)
  <2>1. Len(s) = N + M /\ Len(a) = N /\ Len(b) = M
      BY <1>4 DEF N, M
  <2>2. ASSUME NEW m, OnIt(s, m) PROVE OnIt(a, m) \/ OnIt(b, m)
    <3>1. PICK i \in 1..(N + M) : m = s[i]
        BY <2>1, <2>2 DEF OnIt
    <3>2. CASE i \in 1..N
      <4>1. m = a[i]
          BY <1>1, <1>4, <3>1, <3>2
      <4> QED  BY <2>1, <3>2, <4>1 DEF OnIt
    <3>3. CASE i - N \in 1..M /\ ~(i <= N)
      <4>1. m = b[i - N]
          BY <1>4, <3>1, <3>3
      <4> QED  BY <2>1, <3>3, <4>1 DEF OnIt
    <3> QED  BY <1>3, <3>2, <3>3
  <2>3. ASSUME NEW m, OnIt(a, m) PROVE OnIt(s, m)
    <3>1. PICK i \in 1..N : m = a[i]
        BY <2>1, <2>3 DEF OnIt
    <3>2. i \in 1..(N + M) /\ i <= N
        BY <1>1
    <3>3. m = s[i]
        BY <1>4, <3>1, <3>2
    <3> QED  BY <2>1, <3>2, <3>3 DEF OnIt
  <2>4. ASSUME NEW m, OnIt(b, m) PROVE OnIt(s, m)
    <3>1. PICK i \in 1..M : m = b[i]
        BY <2>1, <2>4 DEF OnIt
    <3>2. i + N \in 1..(N + M) /\ ~(i + N <= N) /\ i + N - N = i
        BY <1>1
    <3>4. s[i + N] = b[i + N - N]
        BY <1>1, <1>4, <3>2
    <3>3. m = s[i + N]
        BY <3>1, <3>2, <3>4
    <3> QED  BY <2>1, <3>2, <3>3 DEF OnIt
  <2> QED  BY <2>2, <2>3, <2>4
<1>12. \A m \in DOMAIN node : ~OnIt(s, m) => g[m] = node[m]
  <2>1. OnIt(a, a[N]) /\ OnIt(b, b[1])
      BY <1>3 DEF OnIt, N, M
  <2> QED  BY <1>6, <1>11, <2>1
<1>13. Len(s) = Len(a) + Len(b) /\ s[1] = a[1] /\ s[Len(s)] = b[Len(b)]
  <2>1. 1 \in 1..(N + M) /\ 1 <= N /\ N + M \in 1..(N + M) /\ ~(N + M <= N) /\ N + M - N = M
      BY <1>1
  <2>3. s[1] = a[1] /\ s[N + M] = b[N + M - N]
      BY <1>1, <1>4, <2>1
  <2>2. s[1] = a[1] /\ s[N + M] = b[M]
      BY <2>1, <2>3
  <2> QED  BY <1>4, <2>2 DEF N, M
<1>14. DOMAIN g = DOMAIN node /\ \A m \in DOMAIN node : g[m].data = node[m].data
    BY <1>6, <1>7
<1> QED  BY <1>10, <1>11, <1>12, <1>13, <1>14 DEF g, s

-----------------------------------------------------------------------------
(* What the calls do to all lists. *)

\* The node malloc gives out.
LEMMA LeastFree ==
    ASSUME FreeNodes # {}
    PROVE  Min(FreeNodes) \in FreeNodes /\ Min(FreeNodes) \in Nodes /\ Min(FreeNodes) \notin DOMAIN node
<1>1. FreeNodes \subseteq Nat
    BY DEF FreeNodes, Nodes
<1>2. Min(FreeNodes) \in FreeNodes
    BY <1>1, LeastChosen, Zenon DEF Min
<1> QED  BY <1>2 DEF FreeNodes

\* No data changes but those of the new node.
NewData(n, d) == node'[n].data = d /\ \A m \in DOMAIN node : node'[m].data = node[m].data

\* dslist_append.
LEMMA AppendShape ==
    ASSUME NEW w, Shape(node, list, held, w), NEW l \in Lists, NEW d, dslist_append(l, d)
    PROVE  /\ Min(FreeNodes) \in FreeNodes /\ NewData(Min(FreeNodes), d) /\ held' = held \cup {l} /\ broken' = broken
           /\ Shape(node', list', held', [w EXCEPT ![l] = Behind(w[l], Min(FreeNodes))])
<1> DEFINE n == Min(FreeNodes)
           t == w[l]
           s == Behind(t, n)
           mem == LinkLast([heap |-> node, head |-> list[l]], n, d)
<1>1. n \in FreeNodes /\ n \in Nodes /\ n \notin DOMAIN node
    BY LeastFree DEF dslist_append
<1>2. ListIn(node, t) /\ ListHead(list[l], t) /\ held \subseteq Lists
  <2>1. ListIn(node, t) /\ ListHead(list[l], t)
      BY ListsAre
  <2> QED  BY <2>1 DEF Shape
<1>3. node' = mem.heap /\ list' = [list EXCEPT ![l] = mem.head] /\ held' = held \cup {l} /\ broken' = broken
    BY DEF dslist_append, Hold, Mem
<1> HIDE DEF n, t
<1>4. /\ Renewed(node, t, mem.heap, s) /\ ListHead(mem.head, s)
      /\ mem.heap[n].data = d /\ \A m \in DOMAIN node : mem.heap[m].data = node[m].data
    BY <1>1, <1>2, LinkedLast
<1> HIDE DEF mem, s
<1>5. /\ held' \subseteq Lists /\ (\A k \in held : k # l => k \in held') /\ (l \notin held' => s = << >>)
    BY <1>2, <1>3
<1>6. Shape(mem.heap, [list EXCEPT ![l] = mem.head], held', [w EXCEPT ![l] = s])
    BY <1>4, <1>5, OneList DEF t
<1> QED  BY <1>1, <1>3, <1>4, <1>6 DEF n, s, t, NewData

\* dslist_prepend.
LEMMA PrependShape ==
    ASSUME NEW w, Shape(node, list, held, w), NEW l \in Lists, NEW d, dslist_prepend(l, d)
    PROVE  /\ Min(FreeNodes) \in FreeNodes /\ NewData(Min(FreeNodes), d) /\ held' = held \cup {l} /\ broken' = broken
           /\ Shape(node', list', held', [w EXCEPT ![l] = InFront(w[l], Min(FreeNodes))])
<1> DEFINE n == Min(FreeNodes)
           t == w[l]
           s == InFront(t, n)
           new == [data |-> d, next |-> IF Len(t) > 0 THEN t[1] ELSE NULL, prev |-> NULL]
           g == WithFirst(node, t, n, new)
           r == [first |-> n, last |-> IF Len(t) > 0 THEN t[Len(t)] ELSE n, count |-> Len(t) + 1]
<1>1. n \in FreeNodes /\ n \in Nodes /\ n \notin DOMAIN node
    BY LeastFree DEF dslist_prepend
<1>2. ListIn(node, t) /\ ListHead(list[l], t) /\ held \subseteq Lists
  <2>1. ListIn(node, t) /\ ListHead(list[l], t)
      BY ListsAre
  <2> QED  BY <2>1 DEF Shape
<1> HIDE DEF n, t
<1>3. node' = g /\ list' = [list EXCEPT ![l] = r] /\ held' = held \cup {l} /\ broken' = broken
  <2>1. Len(t) \in Nat
      BY <1>2, LenProperties DEF ListIn
  <2>2. /\ list[l].count = Len(t) /\ (Len(t) > 0 => list[l].first = t[1] /\ list[l].last = t[Len(t)])
      BY <1>2, <2>1 DEF ListHead
  <2> DEFINE h == list[l]
             new0 == [data |-> d, next |-> IF h.count > 0 THEN h.first ELSE NULL, prev |-> NULL]
             pointed == IF h.count > 0 THEN Put(node, h.first, SetPrev(node[h.first], n)) ELSE node
             r0 == [first |-> n, last |-> IF h.count > 0 THEN h.last ELSE n, count |-> h.count + 1]
  <2>3. Hold([heap |-> Put(pointed, n, new0), head |-> r0], l)
      BY DEF dslist_prepend, SetPrev, n
  <2>4. new0 = new /\ r0 = r
      BY <2>2
  <2>5. Put(pointed, n, new0) = g
    <3>1. CASE Len(t) > 0
        BY <2>2, <2>4, <3>1 DEF WithFirst
    <3>2. CASE ~(Len(t) > 0)
        BY <2>2, <2>4, <3>2 DEF WithFirst
    <3> QED  BY <3>1, <3>2
  <2> HIDE DEF new0, pointed, r0, new, r, g
  <2>6. Hold([heap |-> g, head |-> r], l)
      BY <2>3, <2>4, <2>5
  <2> QED  BY <2>6 DEF Hold
<1>4. /\ Renewed(node, t, g, s) /\ ListHead(r, s)
      /\ g[n].data = d /\ \A m \in DOMAIN node : g[m].data = node[m].data
  <2>1. new = [data |-> d, next |-> IF Len(t) > 0 THEN t[1] ELSE NULL, prev |-> NULL]
      OBVIOUS
  <2> HIDE DEF new
  <2> QED  BY <1>1, <1>2, <2>1, LinkedFirst
<1> HIDE DEF g, r, s
<1>5. /\ held' \subseteq Lists /\ (\A k \in held : k # l => k \in held') /\ (l \notin held' => s = << >>)
    BY <1>2, <1>3
<1>6. Shape(g, [list EXCEPT ![l] = r], held', [w EXCEPT ![l] = s])
    BY <1>4, <1>5, OneList DEF t
<1> QED  BY <1>1, <1>3, <1>4, <1>6 DEF n, s, t, NewData

\* A list without one of its nodes, told so by its new head.
LEMMA UnlinkShape ==
    ASSUME NEW w, Shape(node, list, held, w), NEW l \in held, NEW p \in 1..Len(w[l]),
           node' = Unlinked(w[l][p]), NEW r, list' = [list EXCEPT ![l] = r], ListHead(r, Without(w[l], p)),
           held' = held
    PROVE  /\ Shape(node', list', held', [w EXCEPT ![l] = Without(w[l], p)])
           /\ DOMAIN node' = DOMAIN node \ {w[l][p]}
           /\ \A m \in DOMAIN node' : node'[m].data = node[m].data
<1> DEFINE t == w[l]
           s == Without(t, p)
           g == Unlinked(t[p])
<1>1. held \subseteq Lists /\ l \in Lists
    BY DEF Shape
<1>2. ListIn(node, t)
    BY <1>1, ListsAre
<1>3. /\ Renewed(node, t, g, s) /\ DOMAIN g = DOMAIN node \ {t[p]}
      /\ \A m \in DOMAIN g : g[m].data = node[m].data
  <2>1. p \in 1..Len(t)
      OBVIOUS
  <2> HIDE DEF t
  <2> QED  BY <1>2, <2>1, UnlinkedAt
<1>4. node' = g /\ ListHead(r, s)
    OBVIOUS
<1> HIDE DEF g, s
<1>5. Shape(g, [list EXCEPT ![l] = r], held, [w EXCEPT ![l] = s])
    BY <1>1, <1>3, <1>4, OneList
<1> QED  BY <1>3, <1>4, <1>5 DEF s

\* dslist_remove_few, when it takes the first node out.
LEMMA TakeFirstShape ==
    ASSUME NEW w, Shape(node, list, held, w), NEW l \in held, list[l].count > 0, TakeFirst(l), held' = held
    PROVE  /\ Len(w[l]) > 0 /\ Shape(node', list', held', [w EXCEPT ![l] = Without(w[l], 1)])
           /\ \A m \in DOMAIN node' : node'[m].data = node[m].data
<1> DEFINE t == w[l]
           N == Len(t)
           n == list[l].first
           r == [first |-> node[n].next, last |-> IF list[l].last = n THEN node[n].prev ELSE list[l].last,
                 count |-> list[l].count - 1]
           s == Without(t, 1)
<1>1. l \in Lists /\ ListIn(node, t) /\ ListHead(list[l], t)
  <2>1. l \in Lists
      BY DEF Shape
  <2> QED  BY <2>1, ListsAre
<1>2. N \in Nat /\ N > 0 /\ N - 1 \in Nat /\ n = t[1] /\ list[l].last = t[N] /\ list[l].count = N
  <2>1. N \in Nat
      BY <1>1, LenProperties DEF ListIn
  <2> QED  BY <1>1, <2>1 DEF ListHead
<1>3. 1 \in 1..N /\ N \in 1..N
    BY <1>2
<1>4. node[n].next = NextIn(t, 1) /\ node[n].prev = NULL /\ (t[N] = t[1] <=> N = 1)
    BY <1>1, <1>2, <1>3 DEF ListIn, LinkedAs, PrevIn
<1>5. Len(s) = N - 1 /\ \A i \in 1..(N - 1) : s[i] = t[i + 1]
  <2>1. s = [i \in 1..(N - 1) |-> IF i < 1 THEN t[i] ELSE t[i + 1]]
      BY DEF Without
  <2> HIDE DEF s, t, N
  <2>2. \A i \in 1..(N - 1) : ~(i < 1)
      BY <1>2
  <2> QED  BY <1>2, <2>1, <2>2
<1>6. ListHead(r, s)
  <2>1. N # 1 => 1 \in 1..(N - 1) /\ N - 1 \in 1..(N - 1) /\ N - 1 + 1 = N /\ N - 1 # 0
    <3>1. N \in Nat /\ N > 0
        BY <1>2
    <3> HIDE DEF N
    <3> QED  BY <3>1
  <2>2. N # 1 => s[1] = t[1 + 1] /\ s[N - 1] = t[N]
      BY <1>5, <2>1
  <2>3. r.first = IF N = 1 THEN NULL ELSE t[1 + 1]
      BY <1>2, <1>4 DEF NextIn
  <2>4. r.last = IF N = 1 THEN NULL ELSE t[N]
      BY <1>2, <1>4
  <2>5. r.count = N - 1
      BY <1>2
  <2>6. N - 1 = 0 <=> N = 1
      BY <1>2
  <2> HIDE DEF r, s, t, N
  <2> QED  BY <1>5, <2>1, <2>2, <2>3, <2>4, <2>5, <2>6 DEF ListHead
<1>7. node' = Unlinked(t[1]) /\ list' = [list EXCEPT ![l] = r]
    BY <1>2 DEF TakeFirst
<1> HIDE DEF r
<1> QED  BY <1>2, <1>3, <1>6, <1>7, UnlinkShape

\* dslist_remove_next, inside the list.
LEMMA RemoveNextShape ==
    ASSUME NEW w, Shape(node, list, held, w), NEW l \in held, NEW q \in 1..Len(w[l]),
           dslist_remove_next(l, w[l][q]), ~broken'
    PROVE  /\ q + 1 \in 1..Len(w[l]) /\ Shape(node', list', held', [w EXCEPT ![l] = Without(w[l], q + 1)])
           /\ held' = held /\ \A m \in DOMAIN node' : node'[m].data = node[m].data
<1> DEFINE t == w[l]
           N == Len(t)
           p == q + 1
           n == node[t[q]].next
           r == [first |-> list[l].first, last |-> list[l].last, count |-> list[l].count - 1]
           s == Without(t, p)
<1>1. l \in Lists /\ ListIn(node, t) /\ ListHead(list[l], t)
  <2>1. l \in Lists
      BY DEF Shape
  <2> QED  BY <2>1, ListsAre
<1>2. N \in Nat /\ N > 0 /\ N - 1 \in Nat /\ list[l].first = t[1] /\ list[l].last = t[N] /\ list[l].count = N
  <2>1. N \in Nat
      BY <1>1, LenProperties DEF ListIn
  <2> QED  BY <1>1, <2>1 DEF ListHead
<1>3. n # NULL /\ list[l].first # t[q] /\ list[l].last # n /\ held' = held
    BY DEF dslist_remove_next
<1>4. n = NextIn(t, q)
    BY <1>1 DEF ListIn, LinkedAs
<1>5. p \in 1..N /\ n = t[p] /\ q # 1 /\ p # N
    BY <1>2, <1>3, <1>4 DEF NextIn
<1>6. Len(s) = N - 1 /\ s[1] = t[1] /\ s[N - 1] = t[N] /\ N - 1 # 0
  <2>1. s = [i \in 1..(N - 1) |-> IF i < p THEN t[i] ELSE t[i + 1]]
      BY DEF Without
  <2>2. 1 \in 1..(N - 1) /\ 1 < p /\ N - 1 \in 1..(N - 1) /\ ~(N - 1 < p) /\ N - 1 + 1 = N
      BY <1>2, <1>5
  <2> HIDE DEF s, t, N
  <2> QED  BY <1>2, <2>1, <2>2
<1>7. ListHead(r, s)
    BY <1>2, <1>6 DEF ListHead
<1>8. node' = Unlinked(t[p]) /\ list' = [list EXCEPT ![l] = r]
    BY <1>3, <1>5 DEF dslist_remove_next
<1> HIDE DEF r
<1> QED  BY <1>3, <1>5, <1>7, <1>8, UnlinkShape

\* dslist_free.
LEMMA FreeShape ==
    ASSUME NEW w, Shape(node, list, held, w), NEW l \in held, dslist_free(l)
    PROVE  /\ broken' = broken
           /\ \/ ended' = "crashed" /\ UNCHANGED <<node, list, held>>
              \/ /\ Shape(node', list', held', [w EXCEPT ![l] = << >>]) /\ held' = held \ {l}
                 /\ \A m \in DOMAIN node' : node'[m].data = node[m].data
<1> DEFINE t == w[l]
           e == << >>
           g == [m \in DOMAIN node \ ToSet(t) |-> node[m]]
<1>1. l \in Lists /\ held \subseteq Lists
    BY DEF Shape
<1>2. ListIn(node, t) /\ Chain(list[l].first, "next") = t
    BY <1>1, ListsAre, ShapeChains, ChainsAre
<1>3. CASE list[l].first = NULL
    BY <1>3 DEF dslist_free
<1>4. CASE list[l].first # NULL
  <2>1. node' = g /\ list' = [list EXCEPT ![l] = empty_list] /\ held' = held \ {l} /\ broken' = broken
      BY <1>2, <1>4 DEF dslist_free
  <2>2. \A m \in DOMAIN g : g[m] = node[m]
      OBVIOUS
  <2>3. Renewed(node, t, g, e)
    <3> HIDE DEF t
    <3> QED  BY <1>2, FreedAre DEF g, e
  <2>4. ListHead(empty_list, e)
      BY DEF ListHead, empty_list
  <2>5. held' \subseteq Lists /\ (\A k \in held : k # l => k \in held')
      BY <1>1, <2>1
  <2>6. l \notin held' => e = << >>
      OBVIOUS
  <2> HIDE DEF g, e
  <2>7. Shape(g, [list EXCEPT ![l] = empty_list], held', [w EXCEPT ![l] = e])
      BY <1>1, <2>3, <2>4, <2>5, <2>6, OneList
  <2> QED  BY <2>1, <2>2, <2>7 DEF e
<1> QED  BY <1>3, <1>4

\* dslist_reverse.
LEMMA ReverseShape ==
    ASSUME NEW w, Shape(node, list, held, w), NEW l \in held, dslist_reverse(l)
    PROVE  Shape(node', list', held', w) /\ UNCHANGED <<list, held, broken>>
<1> DEFINE t == w[l]
           g == Reversed(l)
           r == list[l]
<1>1. l \in Lists /\ held \subseteq Lists /\ w \in [Lists -> Seq(Nodes)] /\ DOMAIN list = Lists
    BY DEF Shape
<1>2. ListIn(node, t) /\ ListHead(r, t) /\ Chain(list[l].first, "next") = t
    BY <1>1, ListsAre, ShapeChains, ChainsAre
<1>3. node' = g /\ list' = list /\ held' = held /\ broken' = broken
    BY DEF dslist_reverse
<1>4. Renewed(node, t, g, t)
  <2> HIDE DEF t, g
  <2> QED  BY <1>2, ReversedAre DEF g
<1>5. Shape(g, [list EXCEPT ![l] = r], held, [w EXCEPT ![l] = t])
  <2> HIDE DEF g, r
  <2>1. (\A k \in held : k # l => k \in held) /\ l \notin held => t = << >>
      OBVIOUS
  <2> QED  BY <1>1, <1>2, <1>4, <2>1, OneList
<1>6. w = [w EXCEPT ![l] = t]
    BY <1>1
<1>7. \A k \in Lists : [list EXCEPT ![l] = r][k] = list[k]
    BY <1>1
<1> HIDE DEF g, r, t
<1>8. Shape(g, list, held, w)
    BY <1>1, <1>5, <1>6, <1>7 DEF Shape, LinksOK
<1> QED  BY <1>3, <1>8

\* dslist_copy.
LEMMA CopyShape ==
    ASSUME NEW w, Shape(node, list, held, w), NEW l \in held, NEW k \in Lists \ {l}, dslist_copy(l, k)
    PROVE  /\ k \notin held /\ held' = held \cup {k} /\ broken' = broken
           /\ \E new \in Seq(Nodes) :
                /\ Shape(node', list', held', [w EXCEPT ![k] = new]) /\ Len(new) <= Len(w[l])
                /\ Len(new) = Min({Len(Foreach(l)), Cardinality(FreeNodes)})
                /\ \A i \in 1..Len(new) : node'[new[i]].data = node[w[l][i]].data
                /\ \A m \in DOMAIN node : m \in DOMAIN node' /\ node'[m] = node[m]
<1> DEFINE t == w[l]
           data == Foreach(l)
           n == Min({Len(data), Cardinality(FreeNodes)})
<1>1. l \in Lists /\ held \subseteq Lists /\ DOMAIN node \subseteq Nodes /\ (\A m \in DOMAIN node : IsNode(node[m])) /\ DOMAIN list = Lists
    BY DEF Shape
<1>2. t \in Seq(Nodes) /\ Len(t) \in Nat /\ Chain(list[l].first, "next") = t
    BY <1>1, ListsAreBounded, ShapeChains, ChainsAre
<1>3. Len(data) = Len(t) /\ \A i \in 1..Len(t) : data[i] = node[t[i]].data
  <2>1. data = [i \in 1..Len(t) |-> node[t[i]].data]
      BY <1>2 DEF Foreach
  <2> HIDE DEF data, t
  <2> QED  BY <1>2, <2>1
<1>4. k \notin held /\ CopyTo(k, data)
    BY DEF dslist_copy
<1> HIDE DEF data, t
<1>5. n \in Nat /\ n <= Len(t)
  <2>1. IsFiniteSet(Nodes)
    <3>1. 1 \in Int /\ MaxNodes \in Int
        BY ListAssumption
    <3> QED  BY <3>1, FS_Interval DEF Nodes
  <2>2. Cardinality(FreeNodes) \in Nat
    <3>1. FreeNodes \subseteq Nodes
        BY DEF FreeNodes
    <3> QED  BY <2>1, <3>1, FS_Subset, FS_CardinalityType
  <2> DEFINE both == {Len(data), Cardinality(FreeNodes)}
  <2>3. both \subseteq Nat /\ both # {}
      BY <1>2, <1>3, <2>2
  <2>4. n \in both /\ \A j \in both : n <= j
    <3> HIDE DEF both
    <3>1. n = CHOOSE i \in both : \A j \in both : i <= j
        BY Zenon DEF Min, both
    <3> HIDE DEF n
    <3> QED  BY <2>3, <3>1, LeastChosen, Zenon
  <2> HIDE DEF n
  <2> QED  BY <1>3, <2>3, <2>4
<1>6. PICK new \in [1..n -> FreeNodes] :
        /\ \A i \in 1..n : Cardinality({m \in FreeNodes : m < new[i]}) = i - 1
        /\ Hold([heap |-> [m \in DOMAIN node \cup ToSet(new) |->
                              IF m \in DOMAIN node THEN node[m]
                              ELSE LET i == CHOOSE i \in 1..n : new[i] = m IN Linked(new, data[i], i)],
                 head |-> IF n = 0 THEN empty_list ELSE [first |-> new[1], last |-> new[n], count |-> n]], k)
    BY <1>4, Zenon DEF CopyTo
<1> HIDE DEF n
<1>7. \A i, j \in 1..n : new[i] = new[j] => i = j
  <2> SUFFICES ASSUME NEW i \in 1..n, NEW j \in 1..n, new[i] = new[j] PROVE i = j
      OBVIOUS
  <2>1. i - 1 = j - 1
      BY <1>6
  <2> QED  BY <1>5, <2>1
<1>8. /\ new \in Seq(Nodes) /\ Len(new) = n
      /\ Renewed(node, << >>, CopyHeap(new, data), new) /\ ListHead(CopyHead(new), new)
      /\ \A i \in 1..n : CopyHeap(new, data)[new[i]].data = data[i]
      /\ \A m \in DOMAIN node : CopyHeap(new, data)[m] = node[m]
    BY <1>1, <1>5, <1>7, CopiedAre
<1>9. /\ node' = CopyHeap(new, data) /\ list' = [list EXCEPT ![k] = CopyHead(new)]
      /\ held' = held \cup {k} /\ broken' = broken
    BY <1>6, <1>8 DEF Hold, CopyHeap, CopyHead
<1>10. Shape(CopyHeap(new, data), [list EXCEPT ![k] = CopyHead(new)], held', [w EXCEPT ![k] = new])
  <2>1. w[k] = << >>
      BY <1>4, ListsAre
  <2>2. held' \subseteq Lists /\ (\A j \in held : j # k => j \in held') /\ k \in held'
      BY <1>1, <1>9
  <2>3. Renewed(node, w[k], CopyHeap(new, data), new)
      BY <1>8, <2>1
  <2> QED  BY <1>8, <2>2, <2>3, OneList
<1>11. \A m \in DOMAIN node : m \in DOMAIN CopyHeap(new, data)
    BY DEF CopyHeap
<1>12. \A i \in 1..Len(new) : node'[new[i]].data = node[t[i]].data
  <2>1. \A i \in 1..n : i \in 1..Len(t)
      BY <1>2, <1>5
  <2> QED  BY <1>3, <1>8, <1>9, <2>1
<1>13. Len(new) <= Len(t)
    BY <1>5, <1>8
<1> QED  BY <1>4, <1>8, <1>9, <1>10, <1>11, <1>12, <1>13 DEF t, n, data

\* dslist_concat.
LEMMA ConcatShape ==
    ASSUME NEW w, Shape(node, list, held, w), NEW l \in held, NEW k \in held, l # k, dslist_concat(l, k)
    PROVE  /\ broken' = broken
           /\ \/ ended' = "crashed" /\ UNCHANGED <<node, list, held>>
              \/ /\ Shape(node', list', held', [w EXCEPT ![l] = ListJoined(w[l], w[k]), ![k] = << >>])
                 /\ held' = held \ {k} /\ \A m \in DOMAIN node : node'[m].data = node[m].data
<1> DEFINE a == w[l]
           b == w[k]
           J == ListJoined(a, b)
           e == << >>
           v == [w EXCEPT ![l] = J, ![k] = e]
           r == [first |-> list[l].first, last |-> list[k].last, count |-> list[l].count + list[k].count]
           hd2 == [list EXCEPT ![l] = r, ![k] = empty_list]
           g == JoinHeap(a, b)
<1>1. /\ l \in Lists /\ k \in Lists /\ held \subseteq Lists /\ w \in [Lists -> Seq(Nodes)] /\ DOMAIN list = Lists
      /\ DOMAIN node \subseteq Nodes /\ \A m \in DOMAIN node : IsNode(node[m])
    BY DEF Shape
<1>2. /\ ListIn(node, a) /\ ListHead(list[l], a) /\ ListIn(node, b) /\ ListHead(list[k], b)
      /\ Len(a) \in Nat /\ Len(b) \in Nat
    BY <1>1, ListsAre, ListsAreBounded
<1>3. \A i \in 1..Len(a), j \in 1..Len(b) : a[i] # b[j]
    BY <1>1 DEF Shape, Apart
<1>4. CASE list[l].last = NULL \/ list[k].first = NULL
    BY <1>4 DEF dslist_concat
<1>5. CASE ~(list[l].last = NULL \/ list[k].first = NULL)
  <2>1. /\ Len(a) > 0 /\ Len(b) > 0 /\ list[l].first = a[1] /\ list[l].last = a[Len(a)] /\ list[l].count = Len(a)
        /\ list[k].first = b[1] /\ list[k].last = b[Len(b)] /\ list[k].count = Len(b)
    <3> HIDE DEF a, b
    <3> QED  BY <1>2, <1>5 DEF ListHead
  <2>2. node' = g /\ list' = hd2 /\ held' = held \ {k} /\ broken' = broken
      BY <1>5, <2>1 DEF dslist_concat, JoinHeap, SetNext, SetPrev
  <2>3. /\ ListIn(g, J) /\ DOMAIN g = DOMAIN node /\ Len(J) = Len(a) + Len(b)
        /\ J[1] = a[1] /\ J[Len(J)] = b[Len(b)]
        /\ \A m : OnIt(J, m) <=> OnIt(a, m) \/ OnIt(b, m)
        /\ \A m \in DOMAIN node : ~OnIt(J, m) => g[m] = node[m]
        /\ \A m \in DOMAIN node : g[m].data = node[m].data
    <3> HIDE DEF a, b
    <3> QED  BY <1>2, <1>3, <2>1, JoinedAre
  <2> HIDE DEF J, g
  <2>4. J \in Seq(Nodes) /\ Len(J) # 0
    <3> HIDE DEF a, b
    <3> QED  BY <1>2, <2>1, <2>3 DEF ListIn
  <2>8. Len(e) = 0 /\ e \in Seq(Nodes) /\ (\A i : i \notin 1..Len(e)) /\ ListHead(empty_list, e)
      BY DEF ListHead, empty_list
  <2>5. v \in [Lists -> Seq(Nodes)] /\ v[l] = J /\ v[k] = e /\ \A x \in Lists \ {l, k} : v[x] = w[x]
    <3> HIDE DEF e
    <3> QED  BY <1>1, <2>4, <2>8
  <2>6. /\ DOMAIN hd2 = Lists /\ hd2[l] = r /\ hd2[k] = empty_list
        /\ \A x \in Lists \ {l, k} : hd2[x] = list[x]
    <3> HIDE DEF r
    <3> QED  BY <1>1
  <2>7. ListHead(r, J)
    <3> HIDE DEF a, b
    <3> QED  BY <2>1, <2>3, <2>4 DEF ListHead
  <2> HIDE DEF v, hd2, r
  <2> HIDE DEF e
  <2>9. \A m : (In({l, k}, v, m) <=> OnIt(J, m)) /\ (In({l, k}, w, m) <=> OnIt(J, m))
    <3>1. \A m : In({l, k}, w, m) <=> OnIt(a, m) \/ OnIt(b, m)
        BY DEF In, OnIt
    <3>2. \A m : In({l, k}, v, m) <=> OnIt(J, m)
        BY <2>5, <2>8 DEF In, OnIt
    <3> QED  BY <2>3, <3>1, <3>2
  <2>10. Apart({l, k}, v)
    <3> SUFFICES ASSUME NEW x \in {l, k}, NEW y \in {l, k}, NEW i \in 1..Len(v[x]), NEW j \in 1..Len(v[y]), v[x][i] = v[y][j]
                 PROVE  x = y /\ i = j
        BY DEF Apart
    <3>1. x = l /\ y = l
        BY <2>5, <2>8
    <3>2. i \in 1..Len(J) /\ j \in 1..Len(J) /\ J[i] = J[j]
        BY <2>5, <3>1
    <3> QED  BY <2>3, <3>1, <3>2 DEF ListIn
  <2>11. LinksOK({l, k}, g, hd2, held', v)
    <3>1. LinkedAs(g, J) /\ LinkedAs(g, e) /\ l \in held'
        BY <2>2, <2>3, <2>8 DEF ListIn, LinkedAs
    <3> QED  BY <2>5, <2>6, <2>7, <2>8, <3>1 DEF LinksOK, e
  <2>12. Changes({l, k}, node, list, held, w, g, hd2, held', v)
    <3>1. \A m \in DOMAIN g : IsNode(g[m]) /\ (In({l, k}, v, m) \/ (m \in DOMAIN node /\ ~In({l, k}, w, m)))
        BY <2>3, <2>9 DEF ListIn
    <3>2. \A m \in DOMAIN node : ~In({l, k}, w, m) => m \in DOMAIN g /\ g[m] = node[m]
        BY <2>3, <2>9
    <3>3. \A m : In({l, k}, v, m) => m \notin DOMAIN node \/ In({l, k}, w, m)
        BY <2>9
    <3>4. \A x \in Lists \ {l, k} : v[x] = w[x] /\ hd2[x] = list[x] /\ (x \in held => x \in held')
        BY <2>2, <2>5, <2>6
    <3>5. held' \subseteq Lists /\ {l, k} \subseteq Lists
        BY <1>1, <2>2
    <3> QED  BY <1>1, <2>3, <2>5, <2>6, <2>10, <2>11, <3>1, <3>2, <3>3, <3>4, <3>5 DEF Changes
  <2>13. Shape(g, hd2, held', v)
      BY <2>12, ShapeKept
  <2> QED  BY <2>2, <2>3, <2>13 DEF v, e, J
<1> QED  BY <1>4, <1>5

-----------------------------------------------------------------------------
(* The calls that break a list. *)

\* The chains of the lists after a step.
LEMMA ChainsThen ==
    ASSUME NEW l
    PROVE  /\ Forward(l)' = ChainIn(node', list'[l].first, "next")
           /\ Chain(list[l].last, "prev")' = ChainIn(node', list'[l].last, "prev")
BY Zenon DEF Forward, Chain, ChainIn, AtIn

\* What is sound agrees at the ends of each list.
LEMMA SoundEnds ==
    ASSUME Sound', NEW l \in held'
    PROVE  /\ ChainIn(node', list'[l].last, "prev") = Reverse(ChainIn(node', list'[l].first, "next"))
           /\ list'[l].count = Len(ChainIn(node', list'[l].first, "next"))
           /\ ChainIn(node', list'[l].first, "next") = << >> => list'[l].first = NULL
<1>1. /\ Chain(list[l].last, "prev")' = Reverse(Forward(l)')
      /\ list'[l].count = Len(Forward(l)')
      /\ Forward(l)' = << >> => list'[l].first = NULL
    BY Zenon DEF Sound, Reverse
<1> QED  BY <1>1, ChainsThen

\* The nodes a list leads through with one more behind place q.
With(t, q, n) == [i \in 1..(Len(t) + 1) |-> IF i <= q THEN t[i] ELSE IF i = q + 1 THEN n ELSE t[i - 1]]

\* dslist_insert in the middle: the new node is met on the way and not counted.
LEMMA InsertBreaks ==
    ASSUME NEW w, Shape(node, list, held, w), NEW l \in held, NEW q \in 1..Len(w[l]), NEW d,
           list[l].last # w[l][q], dslist_insert(l, w[l][q], d)
    PROVE  ~Sound' /\ broken'
<1> DEFINE t == w[l]
           N == Len(t)
           n == Min(FreeNodes)
           u == With(t, q, n)
           new == [data |-> d, next |-> node[t[q]].next, prev |-> t[q]]
           x == SetNext(node[t[q]], n)
           g == Put(Put(node, n, new), t[q], x)
<1>1. l \in Lists /\ ListIn(node, t) /\ ListHead(list[l], t)
  <2>1. l \in Lists
      BY DEF Shape
  <2> QED  BY <2>1, ListsAre
<1>2. /\ t \in Seq(Nodes) /\ N \in Nat /\ (\A i \in 1..N : t[i] \in Nodes)
      /\ \A i, j \in 1..N : t[i] = t[j] => i = j
      /\ DOMAIN node \subseteq Nodes
      /\ \A i \in 1..N : t[i] \in DOMAIN node /\ node[t[i]].next = NextIn(t, i)
    BY <1>1, LenProperties, ElementOfSeq DEF ListIn, LinkedAs
<1>3. q \in 1..N /\ q \in Nat /\ q # N /\ list[l].first = t[1] /\ list[l].count = N /\ IsNode(node[t[q]])
  <2>1. q \in 1..N /\ N # 0
      BY <1>2
  <2>2. list[l].first = t[1] /\ list[l].count = N /\ list[l].last = t[N]
      BY <1>1, <2>1 DEF ListHead
  <2>3. IsNode(node[t[q]])
      BY <1>1, <1>2 DEF ListIn
  <2> QED  BY <2>1, <2>2, <2>3
<1>4. FreeNodes # {} /\ node' = g /\ list' = list /\ held' = held /\ broken'
    BY DEF dslist_insert, SetNext
<1>5. n \in Nodes /\ n \notin DOMAIN node
    BY <1>4, LeastFree
<1> HIDE DEF n, t, N, new, x
<1>6. /\ DOMAIN g = DOMAIN node \cup {n} /\ g[n] = new /\ g[t[q]] = x
      /\ \A m \in DOMAIN node : m # t[q] => g[m] = node[m]
  <2> DEFINE g1 == Put(node, n, new)
  <2>1. DOMAIN g1 = DOMAIN node \cup {n} /\ g1[n] = new /\ \A m \in DOMAIN node : m # n => g1[m] = node[m]
      BY DEF Put
  <2>2. g = Put(g1, t[q], x)
      OBVIOUS
  <2> HIDE DEF g1, g
  <2>3. DOMAIN g = DOMAIN g1 \cup {t[q]} /\ g[t[q]] = x /\ \A m \in DOMAIN g1 : m # t[q] => g[m] = g1[m]
      BY <2>2 DEF Put
  <2>4. t[q] \in DOMAIN node
      BY <1>2, <1>3
  <2> QED  BY <1>5, <2>1, <2>3, <2>4
<1> HIDE DEF g
<1>7. /\ \A m \in DOMAIN node : m # t[q] => g[m].next = node[m].next
      /\ g[t[q]].next = n /\ g[n].next = t[q + 1]
  <2>1. x.next = n
      BY <1>3, NodeSet DEF x
  <2>2. new.next = NextIn(t, q)
      BY <1>2, <1>3 DEF new
  <2> QED  BY <1>3, <1>6, <2>1, <2>2 DEF NextIn, N
<1>8. /\ u \in Seq(Nodes) /\ Len(u) = N + 1
      /\ \A i \in 1..(N + 1) : u[i] = IF i <= q THEN t[i] ELSE IF i = q + 1 THEN n ELSE t[i - 1]
  <2>1. \A i \in 1..(N + 1) : (i <= q => i \in 1..N) /\ (~(i <= q) /\ i # q + 1 => i - 1 \in 1..N)
      BY <1>2, <1>3
  <2> DEFINE at(i) == IF i <= q THEN t[i] ELSE IF i = q + 1 THEN n ELSE t[i - 1]
  <2>2. \A i \in 1..(N + 1) : at(i) \in Nodes
      BY <1>2, <1>5, <2>1
  <2>3. u = [i \in 1..(N + 1) |-> at(i)]
      BY DEF With, N
  <2>4. N + 1 \in Nat
      BY <1>2
  <2> HIDE DEF u, at
  <2>5. u \in Seq(Nodes) /\ Len(u) = N + 1 /\ \A i \in 1..(N + 1) : u[i] = at(i)
      BY <2>2, <2>3, <2>4
  <2> QED  BY <2>5 DEF at
<1> HIDE DEF u
<1>9. \A i \in 1..(N + 1) : \/ i \in 1..N /\ i <= q /\ u[i] = t[i]
                            \/ i = q + 1 /\ ~(i <= q) /\ u[i] = n
                            \/ i - 1 \in 1..N /\ i - 1 > q /\ ~(i <= q) /\ i # q + 1 /\ u[i] = t[i - 1]
    BY <1>2, <1>3, <1>8
<1>10. \A i, j \in 1..(N + 1) : u[i] = u[j] => i = j
  <2> SUFFICES ASSUME NEW i \in 1..(N + 1), NEW j \in 1..(N + 1), u[i] = u[j] PROVE i = j
      OBVIOUS
  <2>1. CASE i <= q
    <3>1. i \in 1..N /\ u[i] = t[i] /\ t[i] # n
        BY <1>2, <1>5, <1>9, <2>1
    <3>2. CASE j <= q
      <4>1. j \in 1..N /\ u[j] = t[j]
          BY <1>9, <3>2
      <4> QED  BY <1>2, <3>1, <4>1
    <3>3. CASE j = q + 1
      <4>1. ~(j <= q)
          BY <1>3, <3>3
      <4>2. u[j] = n
          BY <1>9, <3>3, <4>1
      <4> QED  BY <3>1, <4>2
    <3>4. CASE ~(j <= q) /\ j # q + 1
      <4>1. j - 1 \in 1..N /\ u[j] = t[j - 1] /\ j - 1 > q
          BY <1>9, <3>4
      <4>2. i = j - 1
          BY <1>2, <3>1, <4>1
      <4> QED  BY <1>3, <2>1, <4>1, <4>2
    <3> QED  BY <3>2, <3>3, <3>4
  <2>2. CASE i = q + 1
    <3>1. u[i] = n
        BY <1>3, <1>9, <2>2
    <3>2. j = q + 1 \/ \E k \in 1..N : u[j] = t[k]
        BY <1>9
    <3> QED  BY <1>2, <1>5, <2>2, <3>1, <3>2
  <2>3. CASE ~(i <= q) /\ i # q + 1
    <3>1. i - 1 \in 1..N /\ u[i] = t[i - 1] /\ i - 1 > q /\ t[i - 1] # n
        BY <1>2, <1>5, <1>9, <2>3
    <3>2. CASE j <= q
      <4>1. j \in 1..N /\ u[j] = t[j]
          BY <1>9, <3>2
      <4>2. i - 1 = j
          BY <1>2, <3>1, <4>1
      <4> QED  BY <1>3, <3>1, <3>2, <4>2
    <3>3. CASE j = q + 1
      <4>1. ~(j <= q)
          BY <1>3, <3>3
      <4>2. u[j] = n
          BY <1>9, <3>3, <4>1
      <4> QED  BY <3>1, <4>2
    <3>4. CASE ~(j <= q) /\ j # q + 1
      <4>1. j - 1 \in 1..N /\ u[j] = t[j - 1]
          BY <1>9, <3>4
      <4>2. i - 1 = j - 1
          BY <1>2, <3>1, <4>1
      <4> QED  BY <1>2, <4>2
    <3> QED  BY <3>2, <3>3, <3>4
  <2> QED  BY <2>1, <2>2, <2>3
<1>11. Len(u) <= MaxNodes
    BY <1>8, <1>10, NodesAreBounded
<1>12. ASSUME NEW i \in 1..(N + 1)
       PROVE  u[i] \in DOMAIN g /\ g[u[i]]["next"] = IF i = N + 1 THEN NULL ELSE u[i + 1]
  <2>1. CASE i <= q
    <3>1. i \in 1..N /\ u[i] = t[i] /\ t[i] \in DOMAIN node /\ (t[i] = t[q] <=> i = q)
        BY <1>2, <1>3, <1>9, <2>1
    <3>2. i # N + 1 /\ i + 1 \in 1..(N + 1) /\ i # N
        BY <1>2, <1>3, <2>1, <3>1
    <3>3. CASE i = q
      <4>1. u[i + 1] = n
          BY <1>3, <1>9, <3>2, <3>3
      <4> QED  BY <1>6, <1>7, <3>1, <3>2, <3>3, <4>1
    <3>4. CASE i # q
      <4>1. i + 1 <= q
          BY <1>3, <2>1, <3>4
      <4>2. u[i + 1] = t[i + 1]
          BY <1>8, <3>2, <4>1
      <4>3. node[t[i]].next = t[i + 1]
          BY <1>2, <3>1, <3>2 DEF NextIn, N
      <4> QED  BY <1>6, <1>7, <3>1, <3>2, <3>4, <4>2, <4>3
    <3> QED  BY <3>3, <3>4
  <2>2. CASE i = q + 1
    <3>1. u[i] = n /\ i # N + 1 /\ i + 1 \in 1..(N + 1) /\ ~(i + 1 <= q) /\ i + 1 # q + 1 /\ i + 1 - 1 = q + 1
        BY <1>2, <1>3, <1>9, <2>2
    <3>2. u[i + 1] = t[q + 1]
        BY <1>8, <3>1
    <3> QED  BY <1>6, <1>7, <3>1, <3>2
  <2>3. CASE ~(i <= q) /\ i # q + 1
    <3>1. i - 1 \in 1..N /\ u[i] = t[i - 1] /\ i - 1 > q /\ t[i - 1] \in DOMAIN node
        BY <1>2, <1>9, <2>3
    <3>2. t[i - 1] # t[q]
      <4>1. i - 1 # q
          BY <1>3, <3>1
      <4> QED  BY <1>2, <1>3, <3>1, <4>1
    <3>3. (i = N + 1 <=> i - 1 = N) /\ i - 1 + 1 = i
        BY <1>2
    <3>4. i # N + 1 => u[i + 1] = t[i]
      <4>1. i # N + 1 => i + 1 \in 1..(N + 1) /\ ~(i + 1 <= q) /\ i + 1 # q + 1 /\ i + 1 - 1 = i
          BY <1>2, <1>3, <2>3
      <4> QED  BY <1>8, <4>1
    <3>5. node[t[i - 1]].next = NextIn(t, i - 1)
        BY <1>2, <3>1
    <3> QED  BY <1>6, <1>7, <3>1, <3>2, <3>3, <3>4, <3>5 DEF NextIn, N
  <2> QED  BY <2>1, <2>2, <2>3
<1>13. Follows(g, t[1], "next", u, NULL)
  <2>1. NULL \notin DOMAIN g /\ DOMAIN g \subseteq Nodes
      BY <1>2, <1>5, <1>6, ListAssumption DEF Nodes, NULL
  <2>2. u[1] = t[1] /\ N + 1 # 0
    <3>1. 1 \in 1..(N + 1) /\ 1 <= q
        BY <1>2, <1>3
    <3> QED  BY <1>2, <1>8, <3>1
  <2> QED  BY <1>8, <1>11, <1>12, <2>1, <2>2 DEF Follows
<1>14. ChainIn(g, t[1], "next") = u
    BY <1>13, ChainIs
<1>15. ASSUME Sound' PROVE FALSE
  <2>1. list'[l].count = Len(ChainIn(node', list'[l].first, "next"))
      BY <1>4, <1>15, SoundEnds
  <2>2. N = N + 1
      BY <1>3, <1>4, <1>8, <1>14, <2>1
  <2> QED  BY <1>2, <2>2
<1> QED  BY <1>4, <1>15

\* dslist_remove_next of the second node, or of the last: an end of the list is a node that is gone.
LEMMA RemoveNextBreaks ==
    ASSUME NEW w, Shape(node, list, held, w), NEW l \in held, NEW q \in 1..Len(w[l]),
           dslist_remove_next(l, w[l][q]), broken'
    PROVE  ~Sound'
<1> DEFINE t == w[l]
           N == Len(t)
           p == q + 1
           n == node[t[q]].next
           s == Without(t, p)
           g == Unlinked(t[p])
           e == << >>
<1>1. l \in Lists /\ ListIn(node, t) /\ ListHead(list[l], t)
  <2>1. l \in Lists
      BY DEF Shape
  <2> QED  BY <2>1, ListsAre
<1>2. /\ N \in Nat /\ N > 0 /\ N - 1 \in Nat /\ list[l].first = t[1] /\ list[l].last = t[N] /\ list[l].count = N
      /\ (\A i \in 1..N : t[i] \in Nodes) /\ \A i, j \in 1..N : t[i] = t[j] => i = j
  <2>1. N \in Nat /\ (\A i \in 1..N : t[i] \in Nodes) /\ \A i, j \in 1..N : t[i] = t[j] => i = j
      BY <1>1, LenProperties, ElementOfSeq DEF ListIn
  <2> QED  BY <1>1, <2>1 DEF ListHead
<1>3. /\ n # NULL /\ (list[l].first = t[q] \/ list[l].last = n) /\ held' = held /\ node' = Unlinked(n)
      /\ list' = [list EXCEPT ![l] = [first |-> IF list[l].first = t[q] THEN n ELSE list[l].first,
                                      last |-> list[l].last, count |-> list[l].count - 1]]
    BY DEF dslist_remove_next
<1>4. n = NextIn(t, q)
    BY <1>1 DEF ListIn, LinkedAs
<1>5. p \in 1..N /\ n = t[p] /\ n \in Nodes
    BY <1>2, <1>3, <1>4 DEF NextIn
<1>6. /\ list'[l].first = IF q = 1 THEN n ELSE t[1]
      /\ list'[l].last = t[N] /\ (q = 1 \/ p = N)
  <2>1. DOMAIN list = Lists
      BY DEF Shape
  <2>2. (t[1] = t[q] <=> q = 1) /\ (t[N] = t[p] <=> p = N)
      BY <1>2, <1>5
  <2>3. list'[l].first = (IF list[l].first = t[q] THEN n ELSE list[l].first) /\ list'[l].last = list[l].last
      BY <1>1, <1>3, <2>1
  <2> QED  BY <1>2, <1>3, <1>5, <2>2, <2>3
<1> HIDE DEF n
<1>7. Renewed(node, t, g, s) /\ DOMAIN g = DOMAIN node \ {n} /\ node' = g
  <2> HIDE DEF t, p
  <2> QED  BY <1>1, <1>3, <1>5, UnlinkedAt DEF N
<1> HIDE DEF g
<1>8. DOMAIN g \subseteq Nodes /\ ListIn(g, s)
    BY <1>7 DEF Renewed, ListIn
<1>9. \A field : ChainIn(g, n, field) = e
  <2> TAKE field
  <2>1. e \in Seq(Nodes) /\ Len(e) = 0 /\ 0 <= MaxNodes /\ \A i : i \notin 1..Len(e)
      BY ListAssumption
  <2> HIDE DEF e
  <2>2. Follows(g, n, field, e, n)
      BY <1>5, <1>7, <1>8, <2>1 DEF Follows
  <2> QED  BY <2>2, ChainIs
<1> SUFFICES ASSUME Sound' PROVE FALSE
    OBVIOUS
<1>10. /\ ChainIn(g, list'[l].last, "prev") = Reverse(ChainIn(g, list'[l].first, "next"))
       /\ ChainIn(g, list'[l].first, "next") = << >> => list'[l].first = NULL
  <2>1. l \in held'
      BY <1>3
  <2> QED  BY <1>7, <2>1, SoundEnds
<1>11. CASE q = 1
    BY <1>3, <1>6, <1>9, <1>10, <1>11
<1>12. CASE q # 1
  <2>1. Len(s) = N - 1 /\ s[1] = t[1] /\ N - 1 # 0
    <3>1. s = [i \in 1..(N - 1) |-> IF i < p THEN t[i] ELSE t[i + 1]]
        BY DEF Without
    <3>2. 1 \in 1..(N - 1) /\ 1 < p
        BY <1>2, <1>5, <1>12
    <3> HIDE DEF s, t, N
    <3> QED  BY <1>2, <3>1, <3>2
  <2> DEFINE r == [first |-> s[1], last |-> s[Len(s)], count |-> Len(s)]
  <2> HIDE DEF s
  <2>2. s \in Seq(Nodes) /\ LinkedAs(g, s) /\ Len(s) <= MaxNodes
      BY <1>8, NodesAreBounded DEF ListIn
  <2>3. ListHead(r, s)
      BY <2>1 DEF ListHead
  <2>4. ChainIn(g, r.first, "next") = s
    <3> HIDE DEF r
    <3> QED  BY <1>8, <2>2, <2>3, ChainsOf
  <2>5. ChainIn(g, t[1], "next") = s
      BY <2>1, <2>4
  <2>6. e = Reverse(s)
      BY <1>5, <1>6, <1>9, <1>10, <1>12, <2>5
  <2>7. Len(Reverse(s)) = Len(s) /\ Len(e) = 0
      BY <2>2, ReverseIs
  <2> QED  BY <2>1, <2>6, <2>7
<1> QED  BY <1>11, <1>12

-----------------------------------------------------------------------------
(* Every step keeps the invariant. *)

\* Sound, of a heap, heads and names.
SoundIn(h, hd, hl) ==
    /\ \A l \in hl :
        /\ ChainIn(h, hd[l].last, "prev") = Reverse(ChainIn(h, hd[l].first, "next"))
        /\ hd[l].count = Len(ChainIn(h, hd[l].first, "next"))
        /\ ChainIn(h, hd[l].first, "next") = << >> => hd[l].first = NULL /\ hd[l].last = NULL
        /\ \A n \in ToSet(ChainIn(h, hd[l].first, "next")) : {h[n].next, h[n].prev} \subseteq DOMAIN h \cup {NULL}
    /\ \A l, k \in hl : l # k => ToSet(ChainIn(h, hd[l].first, "next")) \cap ToSet(ChainIn(h, hd[k].first, "next")) = {}
    /\ DOMAIN h = UNION {ToSet(ChainIn(h, hd[l].first, "next")) : l \in hl}

\* A step that changes nothing leaves what is not sound so.
LEMMA SoundSame ==
    ASSUME UNCHANGED listVars
    PROVE  Sound' <=> Sound
<1>1. Sound <=> SoundIn(node, list, held)
  <2>1. \A n, field : Chain(n, field) = ChainIn(node, n, field)
      BY ChainsAre
  <2>2. \A l : Forward(l) = ChainIn(node, list[l].first, "next")
      BY <2>1, Zenon DEF Forward
  <2> QED  BY <2>1, <2>2, Zenon DEF Sound, SoundIn
<1>2. Sound' <=> SoundIn(node', list', held')
  <2>1. \A l : /\ Chain(list[l].last, "prev")' = ChainIn(node', list'[l].last, "prev")
               /\ Forward(l)' = ChainIn(node', list'[l].first, "next")
      BY ChainsThen
  <2> QED  BY <2>1, Zenon DEF Sound, SoundIn
<1>3. node' = node /\ list' = list /\ held' = held
    BY DEF listVars
<1>4. SoundIn(node', list', held') <=> SoundIn(node, list, held)
    BY <1>3, Zenon
<1> QED  BY <1>1, <1>2, <1>4

\* One call of a caller that has broken nothing.
LEMMA ListStep ==
    ASSUME NEW w, Shape(node, list, held, w), ~broken, ListNext
    PROVE  ListInv'
<1> SUFFICES (~broken' /\ \E v : Shape(node', list', held', v)) \/ (broken' /\ ~Sound')
    BY Zenon DEF ListInv
<1>1. held \subseteq Lists
    BY DEF Shape
<1>2. ASSUME UNCHANGED <<node, list, held>>, broken' = broken PROVE ~broken' /\ \E v : Shape(node', list', held', v)
  <2>1. node' = node /\ list' = list /\ held' = held
      BY <1>2
  <2>2. Shape(node', list', held', w)
      BY <2>1, Zenon
  <2> QED  BY <1>2, <2>2
<1>3. CASE \E l \in Lists : \E d \in Data : dslist_append(l, d) \/ dslist_prepend(l, d)
  <2>1. PICK l \in Lists, d \in Data : dslist_append(l, d) \/ dslist_prepend(l, d)
      BY <1>3
  <2>2. CASE dslist_append(l, d)
      BY <2>2, AppendShape
  <2>3. CASE dslist_prepend(l, d)
      BY <2>3, PrependShape
  <2> QED  BY <2>1, <2>2, <2>3
<1>4. ASSUME NEW l \in held, NEW d \in Data, NEW all \in BOOLEAN, dslist_remove_few(l, d, all)
      PROVE  ~broken' /\ \E v : Shape(node', list', held', v)
  <2>1. list[l].count > 0 /\ held' = held /\ broken' = broken
      BY <1>4 DEF dslist_remove_few
  <2>2. UNCHANGED <<node, list>> \/ TakeFirst(l)
      BY <1>4 DEF dslist_remove_few
  <2>3. CASE UNCHANGED <<node, list>>
      BY <1>2, <2>1, <2>3
  <2>4. CASE TakeFirst(l)
      BY <2>1, <2>4, TakeFirstShape
  <2> QED  BY <2>2, <2>3, <2>4
<1>5. ASSUME NEW l \in held, NEW m \in ToSet(Chain(list[l].first, "next")) PROVE \E q \in 1..Len(w[l]) : m = w[l][q]
  <2>1. l \in Lists
      BY <1>1
  <2>2. Chain(list[l].first, "next") = w[l] /\ w[l] \in Seq(Nodes)
      BY <2>1, ShapeChains, ChainsAre, ListsAreBounded
  <2>3. DOMAIN w[l] = 1..Len(w[l])
      BY <2>2, LenProperties
  <2> HIDE DEF Shape
  <2> QED  BY <1>5, <2>2, <2>3 DEF ToSet
<1>6. ASSUME NEW l \in held, NEW q \in 1..Len(w[l]), NEW d \in Data, dslist_insert(l, w[l][q], d)
      PROVE  (~broken' /\ \E v : Shape(node', list', held', v)) \/ (broken' /\ ~Sound')
  <2>1. CASE list[l].last = w[l][q]
    <3>1. dslist_append(l, d) /\ l \in Lists
        BY <1>1, <1>6, <2>1 DEF dslist_insert
    <3> QED  BY <3>1, AppendShape
  <2>2. CASE list[l].last # w[l][q]
      BY <1>6, <2>2, InsertBreaks
  <2> QED  BY <2>1, <2>2
<1>7. ASSUME NEW l \in held, NEW q \in 1..Len(w[l]), dslist_remove_next(l, w[l][q])
      PROVE  (~broken' /\ \E v : Shape(node', list', held', v)) \/ (broken' /\ ~Sound')
  <2>1. CASE broken'
      BY <1>7, <2>1, RemoveNextBreaks
  <2>2. CASE ~broken'
      BY <1>7, <2>2, RemoveNextShape
  <2> QED  BY <2>1, <2>2
<1>8. ASSUME NEW l \in held, dslist_free(l) \/ dslist_reverse(l)
      PROVE  ~broken' /\ \E v : Shape(node', list', held', v)
  <2>1. CASE dslist_free(l)
      BY <1>2, <2>1, FreeShape
  <2>2. CASE dslist_reverse(l)
      BY <2>2, ReverseShape
  <2> QED  BY <1>8, <2>1, <2>2
<1>9. ASSUME NEW l \in held, NEW k \in Lists \ {l}, dslist_copy(l, k) \/ (k \in held /\ dslist_concat(l, k))
      PROVE  ~broken' /\ \E v : Shape(node', list', held', v)
  <2>1. CASE dslist_copy(l, k)
      BY <2>1, CopyShape
  <2>2. CASE k \in held /\ dslist_concat(l, k)
      BY <1>2, <2>2, ConcatShape
  <2> QED  BY <1>9, <2>1, <2>2
<1>10. CASE \E l \in held :
            \/ \E d \in Data : \E all \in BOOLEAN : dslist_remove_few(l, d, all)
            \/ \E s \in ToSet(Chain(list[l].first, "next")) :
                 \/ \E d \in Data : dslist_insert(l, s, d)
                 \/ dslist_remove_next(l, s)
            \/ dslist_free(l) \/ dslist_reverse(l)
  <2>1. PICK l \in held :
        \/ \E d \in Data : \E all \in BOOLEAN : dslist_remove_few(l, d, all)
        \/ \E s \in ToSet(Chain(list[l].first, "next")) :
             \/ \E d \in Data : dslist_insert(l, s, d)
             \/ dslist_remove_next(l, s)
        \/ dslist_free(l) \/ dslist_reverse(l)
      BY <1>10
  <2>2. CASE \E s \in ToSet(Chain(list[l].first, "next")) :
                (\E d \in Data : dslist_insert(l, s, d)) \/ dslist_remove_next(l, s)
    <3>1. PICK m \in ToSet(Chain(list[l].first, "next")) : (\E d \in Data : dslist_insert(l, m, d)) \/ dslist_remove_next(l, m)
        BY <2>2
    <3>2. PICK q \in 1..Len(w[l]) : m = w[l][q]
        BY <1>5
    <3> QED  BY <1>6, <1>7, <3>1, <3>2
  <2> QED  BY <1>4, <1>8, <2>1, <2>2
<1>11. CASE \E l \in held : \E k \in Lists \ {l} : dslist_copy(l, k) \/ (k \in held /\ dslist_concat(l, k))
    BY <1>9, <1>11
<1> QED  BY <1>3, <1>10, <1>11, Zenon DEF ListNext

\* The invariant holds from the start on.
LEMMA ListInvHolds ==
    ASSUME ListInit
    PROVE  ListInv
<1> DEFINE w == [l \in Lists |-> << >>]
<1>1. node = << >> /\ list = [l \in Lists |-> empty_list] /\ held = {} /\ broken = FALSE
    BY DEF ListInit
<1>2. \A l \in Lists : w[l] = << >> /\ Len(w[l]) = 0 /\ \A i : i \notin 1..Len(w[l])
    OBVIOUS
<1>3. w \in [Lists -> Seq(Nodes)] /\ DOMAIN node = {} /\ DOMAIN list = Lists
    BY <1>1
<1>4. \A l \in Lists : ListHead(list[l], w[l])
    BY <1>1, <1>2 DEF ListHead, empty_list
<1> HIDE DEF w
<1>5. Shape(node, list, held, w)
    BY <1>1, <1>2, <1>3, <1>4 DEF Shape, Apart, LinksOK, LinkedAs
<1> QED  BY <1>1, <1>5, Zenon DEF ListInv

\* And every step keeps it.
LEMMA ListInvKept ==
    ASSUME ListInv, ListNext \/ UNCHANGED listVars
    PROVE  ListInv'
<1>1. CASE UNCHANGED listVars
  <2>1. node' = node /\ list' = list /\ held' = held /\ broken' = broken
      BY <1>1 DEF listVars
  <2>2. broken' => ~Sound'
      BY <1>1, <2>1, SoundSame DEF ListInv
  <2>3. ~broken' => \E w : Shape(node', list', held', w)
      BY <2>1, Zenon DEF ListInv
  <2> QED  BY <2>2, <2>3, Zenon DEF ListInv
<1>2. CASE ListNext
  <2>1. ~broken
      BY <1>2 DEF ListNext
  <2>2. PICK w : Shape(node, list, held, w)
      BY <2>1, Zenon DEF ListInv
  <2> QED  BY <1>2, <2>1, <2>2, ListStep
<1> QED  BY <1>1, <1>2

-----------------------------------------------------------------------------
(* What the lists tell. *)

\* FirstPlace is the first place.
LEMMA FirstPlaceIs ==
    ASSUME NEW way, Len(way) \in Nat, NEW them
    PROVE  LET i == FirstPlace(way, them) IN
           \/ i = 0 /\ \A j \in 1..Len(way) : way[j] \notin them
           \/ i \in 1..Len(way) /\ way[i] \in them /\ \A j \in 1..Len(way) : way[j] \in them => i <= j
<1> DEFINE places == {i \in 1..Len(way) : way[i] \in them}
<1>1. CASE places = {}
    BY <1>1 DEF FirstPlace
<1>2. CASE places # {}
  <2>1. places \subseteq Nat
      OBVIOUS
  <2>2. FirstPlace(way, them) = Min(places)
      BY <1>2 DEF FirstPlace
  <2> HIDE DEF places
  <2>3. Min(places) \in places /\ \A j \in places : Min(places) <= j
      BY <1>2, <2>1, LeastChosen, Zenon DEF Min
  <2> QED  BY <2>2, <2>3 DEF places
<1> QED  BY <1>1, <1>2

\* dslist_nth counts from either end.
LEMMA NthIs ==
    ASSUME NEW w, Shape(node, list, held, w), NEW l \in Lists, NEW i \in Nat, i > 0
    PROVE  /\ dslist_nth(l, i, FALSE) = IF i \in DOMAIN w[l] THEN w[l][i] ELSE NULL
           /\ dslist_nth(l, i, TRUE) = IF i \in DOMAIN w[l] THEN w[l][Len(w[l]) + 1 - i] ELSE NULL
<1> DEFINE s == w[l]
           N == Len(s)
           b == Reverse(s)
<1>1. /\ s \in Seq(Nodes) /\ N \in Nat /\ DOMAIN s = 1..N /\ ListHead(list[l], s)
      /\ \A j, k \in 1..N : s[j] = s[k] => j = k
  <2>1. s \in Seq(Nodes) /\ N \in Nat /\ ListHead(list[l], s) /\ \A j, k \in 1..N : s[j] = s[k] => j = k
      BY ListsAre, ListsAreBounded
  <2> QED  BY <2>1, LenProperties
<1>2. Chain(list[l].first, "next") = s /\ Chain(list[l].last, "prev") = b
    BY ShapeChains, ChainsAre
<1>3. /\ b \in Seq(Nodes) /\ DOMAIN b = 1..N
      /\ \A j \in 1..N : b[j] = s[N - j + 1] /\ N - j + 1 \in 1..N
  <2>1. b \in Seq(Nodes) /\ Len(b) = N /\ \A j \in 1..N : b[j] = s[N - j + 1] /\ N - j + 1 \in 1..N
      BY <1>1, ReverseIs
  <2> HIDE DEF b
  <2> QED  BY <2>1, LenProperties
<1> HIDE DEF s, b
<1>4. \A j \in 1..N : N + 1 - j = N - j + 1
    BY <1>1 DEF N
<1>5. /\ list[l].first = IF N = 0 THEN NULL ELSE s[1]
      /\ list[l].last = IF N = 0 THEN NULL ELSE s[N]
    BY <1>1 DEF ListHead
<1> HIDE DEF N
<1>6. CASE list[l].first = list[l].last
  <2>1. N = 0 \/ N = 1
      BY <1>1, <1>5, <1>6
  <2>2. dslist_nth(l, i, FALSE) = (IF i = 1 THEN list[l].first ELSE NULL) /\ dslist_nth(l, i, TRUE) = (IF i = 1 THEN list[l].first ELSE NULL)
      BY <1>6 DEF dslist_nth
  <2>3. i \in DOMAIN s <=> N = 1 /\ i = 1
      BY <1>1, <2>1
  <2>4. N = 1 /\ i = 1 => N + 1 - i = 1
      OBVIOUS
  <2>5. /\ dslist_nth(l, i, FALSE) = IF i \in DOMAIN s THEN s[i] ELSE NULL
        /\ dslist_nth(l, i, TRUE) = IF i \in DOMAIN s THEN s[N + 1 - i] ELSE NULL
    <3>1. CASE N = 1 /\ i = 1
      <4>1. N + 1 - i = i /\ N # 0 /\ s[1] = s[i]
          BY <3>1
      <4>2. list[l].first = s[i]
          BY <1>5, <4>1
      <4>3. dslist_nth(l, i, FALSE) = s[i] /\ dslist_nth(l, i, TRUE) = s[i]
          BY <2>2, <3>1, <4>2
      <4> QED  BY <2>3, <3>1, <4>1, <4>3
    <3>2. CASE ~(N = 1 /\ i = 1)
        BY <1>5, <2>1, <2>2, <2>3, <3>2
    <3> QED  BY <3>1, <3>2
  <2> QED  BY <2>5 DEF s, N
<1>7. CASE list[l].first # list[l].last
  <2>1. dslist_nth(l, i, FALSE) = (IF i \in DOMAIN s THEN s[i] ELSE NULL) /\ dslist_nth(l, i, TRUE) = (IF i \in DOMAIN b THEN b[i] ELSE NULL)
      BY <1>2, <1>7 DEF dslist_nth
  <2>2. i \in 1..N => b[i] = s[N + 1 - i]
      BY <1>3, <1>4
  <2> QED  BY <1>1, <1>3, <2>1, <2>2 DEF s, N
<1> QED  BY <1>6, <1>7

\* All lookups agree with the nodes of the list.
LEMMA ShapeLookups ==
    ASSUME NEW w, Shape(node, list, held, w), NEW l \in held
    PROVE  LET s == Forward(l) IN
           /\ dslist_length(l) = Len(s)
           /\ dslist_first(l) = dslist_nth(l, 1, FALSE) /\ dslist_last(l) = dslist_nth(l, 1, TRUE)
           /\ \A i \in 1..MaxNodes :
               /\ dslist_nth(l, i, FALSE) = IF i \in DOMAIN s THEN s[i] ELSE NULL
               /\ dslist_nth(l, i, TRUE) = IF i \in DOMAIN s THEN s[Len(s) + 1 - i] ELSE NULL
           /\ \A i \in DOMAIN s : dslist_position(l, s[i]) = i - 1
           /\ \A d \in Data :
               LET located == dslist_find(l, d) IN
               /\ dslist_find_custom(l, {d}) = located
               /\ IF located = NULL THEN \A i \in DOMAIN s : node[s[i]].data # d
                  ELSE \A i \in 0..(dslist_position(l, located) - 1) : node[s[i + 1]].data # d
<1> DEFINE s == Forward(l)
           N == Len(s)
<1>1. l \in Lists
    BY DEF Shape
<1>2. s = w[l] /\ Chain(list[l].first, "next") = s
    BY <1>1, ShapeChains, ChainsAre DEF Forward
<1> HIDE DEF s
<1>3. /\ s \in Seq(Nodes) /\ N \in Nat /\ DOMAIN s = 1..N /\ ListHead(list[l], s) /\ LinkedAs(node, s)
      /\ \A j, k \in 1..N : s[j] = s[k] => j = k
  <2>1. s \in Seq(Nodes) /\ N \in Nat /\ ListIn(node, s) /\ ListHead(list[l], s) /\ \A j, k \in 1..N : s[j] = s[k] => j = k
      BY <1>1, <1>2, ListsAre, ListsAreBounded
  <2> QED  BY <2>1, LenProperties DEF ListIn
<1>4. /\ list[l].count = N /\ list[l].first = (IF N = 0 THEN NULL ELSE s[1])
      /\ list[l].last = IF N = 0 THEN NULL ELSE s[N]
    BY <1>3 DEF ListHead
<1>5. \A i \in Nat : i > 0 =>
          /\ dslist_nth(l, i, FALSE) = IF i \in DOMAIN s THEN s[i] ELSE NULL
          /\ dslist_nth(l, i, TRUE) = IF i \in DOMAIN s THEN s[N + 1 - i] ELSE NULL
    BY <1>1, <1>2, NthIs
<1>6. dslist_length(l) = N /\ dslist_first(l) = list[l].first /\ dslist_last(l) = list[l].last
    BY <1>4 DEF dslist_length, dslist_first, dslist_last
<1> HIDE DEF N
<1>7. dslist_first(l) = dslist_nth(l, 1, FALSE) /\ dslist_last(l) = dslist_nth(l, 1, TRUE)
  <2>1. /\ dslist_nth(l, 1, FALSE) = IF 1 \in DOMAIN s THEN s[1] ELSE NULL
        /\ dslist_nth(l, 1, TRUE) = IF 1 \in DOMAIN s THEN s[N + 1 - 1] ELSE NULL
    <3>1. 1 \in Nat /\ 1 > 0
        OBVIOUS
    <3> QED  BY <1>5, <3>1, Zenon
  <2>2. (1 \in DOMAIN s <=> N # 0) /\ N + 1 - 1 = N
      BY <1>3
  <2> QED  BY <1>4, <1>6, <2>1, <2>2
<1>8. \A i \in 1..MaxNodes :
          /\ dslist_nth(l, i, FALSE) = IF i \in DOMAIN s THEN s[i] ELSE NULL
          /\ dslist_nth(l, i, TRUE) = IF i \in DOMAIN s THEN s[N + 1 - i] ELSE NULL
  <2>1. \A i \in 1..MaxNodes : i \in Nat /\ i > 0
      BY ListAssumption
  <2> QED  BY <1>5, <2>1
<1>9. \A i \in 1..N : FirstPlace(s, {s[i]}) = i
  <2> TAKE i \in 1..N
  <2> DEFINE k == FirstPlace(s, {s[i]})
  <2>1. \/ k = 0 /\ \A j \in 1..N : s[j] \notin {s[i]}
        \/ k \in 1..N /\ s[k] \in {s[i]} /\ \A j \in 1..N : s[j] \in {s[i]} => k <= j
    <3>1. Len(s) \in Nat
        BY <1>3 DEF N
    <3> QED  BY <3>1, FirstPlaceIs DEF N
  <2> HIDE DEF k
  <2>2. k = i
      BY <1>3, <2>1
  <2> QED  BY <2>2 DEF k
<1>10. \A i \in 1..N : dslist_position(l, s[i]) = i - 1
  <2> TAKE i \in 1..N
  <2>1. FirstPlace(Chain(list[l].first, "next"), {s[i]}) = i /\ i # 0
    <3>1. i # 0
        BY <1>3
    <3>2. FirstPlace(s, {s[i]}) = i
        BY <1>9
    <3> QED  BY <1>2, <3>1, <3>2, Zenon
  <2> QED  BY <2>1 DEF dslist_position
<1>11. ASSUME NEW d \in Data
       PROVE  LET located == dslist_find(l, d) IN
              /\ dslist_find_custom(l, {d}) = located
              /\ IF located = NULL THEN \A i \in 1..N : node[s[i]].data # d
                 ELSE \A i \in 0..(dslist_position(l, located) - 1) : node[s[i + 1]].data # d
  <2> DEFINE them == {m \in DOMAIN node : node[m].data \in {d}}
             k == FirstPlace(s, them)
             located == dslist_find(l, d)
  <2>1. \/ k = 0 /\ \A j \in 1..N : s[j] \notin them
        \/ k \in 1..N /\ s[k] \in them /\ \A j \in 1..N : s[j] \in them => k <= j
    <3>1. Len(s) \in Nat
        BY <1>3 DEF N
    <3> HIDE DEF them
    <3> QED  BY <3>1, FirstPlaceIs DEF N
  <2>2. located = IF k = 0 THEN NULL ELSE s[k]
      BY <1>2 DEF dslist_find, FindFrom
  <2>3. dslist_find_custom(l, {d}) = located
      BY <1>6 DEF dslist_find, dslist_find_custom
  <2>4. \A j \in 1..N : s[j] \in them <=> node[s[j]].data = d
      BY <1>3 DEF LinkedAs, N
  <2> HIDE DEF them, k, located
  <2>5. CASE k = 0
    <3>1. located = NULL /\ \A j \in 1..N : node[s[j]].data # d
        BY <1>3, <2>1, <2>2, <2>4, <2>5
    <3> QED  BY <2>3, <3>1 DEF located
  <2>6. CASE k # 0
    <3>1. k \in 1..N /\ located = s[k]
        BY <2>1, <2>2, <2>6
    <3>2. located # NULL
        BY <1>3, <3>1, ElementOfSeq, ListAssumption DEF Nodes, NULL, N
    <3>3. dslist_position(l, located) = k - 1
        BY <1>10, <3>1
    <3>4. ASSUME NEW i \in 0..(k - 1 - 1) PROVE node[s[i + 1]].data # d
      <4>1. i + 1 \in 1..N /\ ~(k <= i + 1)
          BY <1>3, <3>1
      <4> QED  BY <2>1, <2>4, <2>6, <4>1
    <3>5. \A i \in 0..(dslist_position(l, located) - 1) : node[s[i + 1]].data # d
        BY <3>3, <3>4
    <3> QED  BY <2>3, <3>2, <3>5 DEF located
  <2> QED  BY <2>5, <2>6
<1> QED  BY <1>3, <1>6, <1>7, <1>8, <1>10, <1>11 DEF s, N

\* The invariant is what ListAgrees and LookupsAgree say, and more.
LEMMA ListInvTells ==
    ASSUME ListInv
    PROVE  ListAgrees /\ LookupsAgree
<1>1. CASE broken
    BY <1>1, Zenon DEF ListInv, ListAgrees, LookupsAgree
<1>2. CASE ~broken
  <2>1. PICK w : Shape(node, list, held, w)
      BY <1>2, Zenon DEF ListInv
  <2>2. Sound
      BY <2>1, ShapeIsSound
  <2>3. LookupsAgree
      BY <2>1, ShapeLookups, Zenon DEF LookupsAgree
  <2> QED  BY <1>2, <2>2, <2>3, Zenon DEF ListAgrees
<1> QED  BY <1>1, <1>2

\* Both directions of every list, its ends, its counter and all lookups agree after any
\* sequence of calls, unless the last call was one of those that break a list.
THEOREM ListsAgree == ListSpec => [](ListAgrees /\ LookupsAgree)
<1>1. ListInit => ListInv
    BY ListInvHolds
<1>2. ListInv /\ [ListNext]_listVars => ListInv'
    BY ListInvKept
<1>3. ListInv => ListAgrees /\ LookupsAgree
    BY ListInvTells
<1> QED  BY <1>1, <1>2, <1>3, PTL DEF ListSpec

-----------------------------------------------------------------------------
(* dslist_reverse: what becomes of the data. *)

\* Half of a number.
LEMMA HalfIs ==
    ASSUME NEW n \in Nat
    PROVE  /\ n \div 2 \in Nat /\ n % 2 \in {0, 1} /\ n = 2 * (n \div 2) + (n % 2)
OBVIOUS

\* How many places at each end are crossed over after i steps.
CrossedOver(n, i) == IF i <= n \div 2 THEN i ELSE IF n % 2 = 1 THEN n \div 2 ELSE n - i
Crossed(s, i) ==
    LET r == CrossedOver(Len(s), i) IN
    [j \in 1..Len(s) |-> s[IF j <= r \/ j >= Len(s) + 1 - r THEN Len(s) + 1 - j ELSE j]]

SwapStep(s, was, i) ==
    LET n == Len(s) IN
    IF n % 2 = 1 /\ i > n \div 2 THEN was
    ELSE [j \in 1..n |-> was[IF j = i \/ j = n + 1 - i THEN n + 1 - j ELSE j]]

\* One step crosses over two places, or brings them back.
LEMMA OneSwap ==
    ASSUME NEW S, NEW s \in Seq(S), NEW i \in 1..Len(s)
    PROVE  Crossed(s, i) = SwapStep(s, Crossed(s, i - 1), i)
<1> DEFINE n == Len(s)
           h == n \div 2
           odd == n % 2
           r == CrossedOver(n, i)
           p == CrossedOver(n, i - 1)
<1>1. n \in Nat /\ h \in Nat /\ odd \in {0, 1} /\ n = 2 * h + odd /\ i \in 1..n
  <2>1. n \in Nat
      BY LenProperties
  <2> QED  BY <2>1, HalfIs
<1>2. /\ r = IF i <= h THEN i ELSE IF odd = 1 THEN h ELSE n - i
      /\ p = IF i - 1 <= h THEN i - 1 ELSE IF odd = 1 THEN h ELSE n - (i - 1)
    BY DEF CrossedOver
<1> HIDE DEF n, h, odd, r, p
<1> DEFINE at(k, j) == IF j <= k \/ j >= n + 1 - k THEN n + 1 - j ELSE j
           to(j) == IF j = i \/ j = n + 1 - i THEN n + 1 - j ELSE j
<1>3. Crossed(s, i) = [j \in 1..n |-> s[at(r, j)]] /\ Crossed(s, i - 1) = [j \in 1..n |-> s[at(p, j)]]
    BY DEF Crossed, n, r, p
<1>4. SwapStep(s, Crossed(s, i - 1), i) = IF odd = 1 /\ i > h THEN Crossed(s, i - 1)
                                          ELSE [j \in 1..n |-> Crossed(s, i - 1)[to(j)]]
    BY DEF SwapStep, n, h, odd
<1>5. CASE odd = 1 /\ i > h
  <2>1. r = h /\ p = h
      BY <1>1, <1>2, <1>5
  <2> HIDE DEF at
  <2> QED  BY <1>3, <1>4, <1>5, <2>1
<1>6. CASE ~(odd = 1 /\ i > h)
  <2>1. ASSUME NEW j \in 1..n PROVE to(j) \in 1..n /\ at(p, to(j)) = at(r, j)
    <3>1. CASE i <= h
      <4>1. r = i /\ p = i - 1
          BY <1>1, <1>2, <3>1
      <4> QED  BY <1>1, <3>1, <4>1
    <3>2. CASE i > h
      <4>1. odd = 0 /\ r = n - i /\ p = n - (i - 1) /\ n = 2 * h
          BY <1>1, <1>2, <1>6, <3>2
      <4> QED  BY <1>1, <3>2, <4>1
    <3> QED  BY <1>1, <3>1, <3>2
  <2> HIDE DEF at, to
  <2>2. \A j \in 1..n : Crossed(s, i - 1)[to(j)] = s[at(r, j)]
      BY <1>3, <2>1
  <2> QED  BY <1>3, <1>4, <1>6, <2>2
<1> QED  BY <1>5, <1>6

\* Swapped turns the data of an odd number of nodes round, and leaves those of an even number.
LEMMA SwappedIs ==
    ASSUME NEW S, NEW s \in Seq(S)
    PROVE  Swapped(s) = IF Len(s) % 2 = 1 THEN Reverse(s) ELSE s
<1> DEFINE n == Len(s)
           Swaps(swap) == swap = [i \in 0..n |-> IF i = 0 THEN s ELSE SwapStep(s, swap[i - 1], i)]
           G == [i \in 0..n |-> Crossed(s, i)]
           swap == CHOOSE swap : Swaps(swap)
           h == n \div 2
           odd == n % 2
<1>1. n \in Nat /\ h \in Nat /\ odd \in {0, 1} /\ n = 2 * h + odd
  <2>1. n \in Nat
      BY LenProperties
  <2> QED  BY <2>1, HalfIs
<1>2. Swapped(s) = swap[n]
    BY Zenon DEF Swapped, SwapStep
<1>3. Crossed(s, 0) = s
  <2>1. CrossedOver(n, 0) = 0
      BY <1>1 DEF CrossedOver
  <2>2. \A j \in 1..n : ~(j <= 0 \/ j >= n + 1 - 0)
      BY <1>1
  <2>3. Crossed(s, 0) = [j \in 1..n |-> s[IF j <= 0 \/ j >= n + 1 - 0 THEN n + 1 - j ELSE j]]
      BY <2>1 DEF Crossed
  <2>4. Crossed(s, 0) = [j \in 1..n |-> s[j]]
      BY <2>2, <2>3
  <2> QED  BY <2>4, LenProperties
<1>4. \A i \in 0..n : i # 0 => i - 1 \in 0..n /\ i \in 1..n
    BY <1>1
<1>5. Swaps(G)
  <2>1. \A i \in 0..n : G[i] = IF i = 0 THEN s ELSE SwapStep(s, G[i - 1], i)
    <3> TAKE i \in 0..n
    <3>1. CASE i = 0
        BY <1>3, <3>1
    <3>2. CASE i # 0
      <4>1. Crossed(s, i) = SwapStep(s, Crossed(s, i - 1), i)
          BY <1>4, <3>2, OneSwap
      <4> QED  BY <1>4, <3>2, <4>1
    <3> QED  BY <3>1, <3>2
  <2>2. G = [i \in 0..n |-> G[i]]
      OBVIOUS
  <2> HIDE DEF G
  <2>3. G = [i \in 0..n |-> IF i = 0 THEN s ELSE SwapStep(s, G[i - 1], i)]
      BY <2>1, <2>2, Zenon
  <2> QED  BY <2>3
<1> HIDE DEF G
<1>6. Swaps(swap)
  <2> HIDE DEF Swaps
  <2> QED  BY <1>5, Zenon
<1> HIDE DEF swap, n
<1>7. /\ \A i \in 0..n : swap[i] = IF i = 0 THEN s ELSE SwapStep(s, swap[i - 1], i)
      /\ \A i \in 0..n : G[i] = IF i = 0 THEN s ELSE SwapStep(s, G[i - 1], i)
  <2>1. swap = [i \in 0..n |-> IF i = 0 THEN s ELSE SwapStep(s, swap[i - 1], i)]
      BY <1>6
  <2>2. G = [i \in 0..n |-> IF i = 0 THEN s ELSE SwapStep(s, G[i - 1], i)]
      BY <1>5
  <2> HIDE DEF Swaps
  <2> QED  BY <2>1, <2>2
<1>8. \A i \in 0..n : swap[i] = G[i]
  <2> DEFINE T == {i \in 0..n : swap[i] # G[i]}
  <2> SUFFICES ASSUME T # {} PROVE FALSE
      OBVIOUS
  <2>1. T \subseteq Nat
      OBVIOUS
  <2>2. PICK k \in T : \A j \in T : k <= j
    <3> HIDE DEF T
    <3> QED  BY <2>1, LeastNatural
  <2>3. k # 0
    <3>1. k \in 0..n /\ swap[k] # G[k]
        BY <2>2
    <3> HIDE DEF Swaps
    <3> QED  BY <1>7, <3>1
  <2>4. k \in 0..n /\ k - 1 \in 0..n /\ ~(k <= k - 1)
      BY <1>1, <2>3
  <2>5. swap[k - 1] = G[k - 1]
      BY <2>2, <2>4
  <2> HIDE DEF Swaps
  <2> QED  BY <1>7, <2>2, <2>3, <2>4, <2>5
<1>9. Swapped(s) = Crossed(s, n)
    BY <1>1, <1>2, <1>8 DEF G
<1> DEFINE r == CrossedOver(n, n)
           at(k, j) == IF j <= k \/ j >= n + 1 - k THEN n + 1 - j ELSE j
<1>10. Crossed(s, n) = [j \in 1..n |-> s[at(r, j)]]
    BY DEF Crossed, n
<1>11. CASE odd = 1
  <2>1. r = h
      BY <1>1, <1>11 DEF CrossedOver
  <2>2. \A j \in 1..n : at(h, j) = n - j + 1
      BY <1>1, <1>11
  <2>3. Reverse(s) = [j \in 1..n |-> s[n - j + 1]]
      BY DEF Reverse, n
  <2> HIDE DEF at, r
  <2> QED  BY <1>9, <1>10, <1>11, <2>1, <2>2, <2>3 DEF n
<1>12. CASE odd = 0
  <2>1. r = 0
      BY <1>1, <1>12 DEF CrossedOver
  <2>2. \A j \in 1..n : at(0, j) = j
      BY <1>1
  <2>3. s = [j \in 1..n |-> s[j]]
      BY LenProperties DEF n
  <2> HIDE DEF at, r
  <2> QED  BY <1>9, <1>10, <1>12, <2>1, <2>2, <2>3 DEF n
<1> QED  BY <1>1, <1>11, <1>12

-----------------------------------------------------------------------------
(* The lists implement texts: what dslist_foreach visits. *)

DataOf(h, s) == [i \in 1..Len(s) |-> h[s[i]].data]

\* The data in two heaps.
DataIn(h, g) == {h[m].data : m \in Nodes} \cup {g[m].data : m \in Nodes}
HasData(h, S) == \A m \in Nodes : h[m].data \in S

\* A sequence of the data of nodes s, of which there are N.
IsText(a, h, s, S, N) == a \in Seq(S) /\ Len(a) = N /\ N \in Nat /\ \A i \in 1..N : a[i] = h[s[i]].data

\* The data of nodes are a sequence as long.
LEMMA DataIsText ==
    ASSUME NEW S, NEW h, NEW s \in Seq(Nodes), HasData(h, S)
    PROVE  IsText(DataOf(h, s), h, s, S, Len(s))
<1> DEFINE N == Len(s)
           a == DataOf(h, s)
<1>1. N \in Nat /\ \A i \in 1..N : s[i] \in Nodes
    BY LenProperties, ElementOfSeq
<1>2. a = [i \in 1..N |-> h[s[i]].data]
    BY DEF DataOf
<1> HIDE DEF N, a
<1>3. a \in [1..N -> S]
    BY <1>1, <1>2 DEF HasData
<1>4. a \in Seq(S) /\ Len(a) = N
    BY <1>1, <1>3
<1>5. IsText(a, h, s, S, N)
    BY <1>1, <1>2, <1>4 DEF IsText
<1> QED  BY <1>5 DEF N, a

\* And a sequence with those data is theirs.
LEMMA TextIsData ==
    ASSUME NEW S, NEW b \in Seq(S), NEW h, NEW s, Len(b) = Len(s), \A i \in 1..Len(s) : b[i] = h[s[i]].data
    PROVE  DataOf(h, s) = b
<1>1. b = [i \in 1..Len(b) |-> b[i]]
    OBVIOUS
<1> QED  BY <1>1 DEF DataOf

\* A node behind the others.
LEMMA TextAppended ==
    ASSUME NEW h, NEW g, NEW t \in Seq(Nodes), NEW n \in Nodes, \A i \in 1..Len(t) : g[t[i]].data = h[t[i]].data
    PROVE  DataOf(g, Behind(t, n)) = Append(DataOf(h, t), g[n].data)
<1> DEFINE S == DataIn(h, g)
           N == Len(t)
           s == Behind(t, n)
           a == DataOf(h, t)
           d == g[n].data
           b == Append(a, d)
<1>1. HasData(h, S) /\ HasData(g, S) /\ d \in S
    BY DEF DataIn, HasData
<1>2. s = [i \in 1..(N + 1) |-> IF i <= N THEN t[i] ELSE n]
    BY DEF Behind
<1>3. a = DataOf(h, t) /\ N = Len(t)
    OBVIOUS
<1> HIDE DEF S, s, a, N, d
<1>4.a \in Seq(S) /\ Len(a) = N /\ N \in Nat /\ \A i \in 1..N : a[i] = h[t[i]].data
  <2>1. IsText(a, h, t, S, N)
      BY <1>1, <1>3, DataIsText, Zenon
  <2> QED  BY <2>1 DEF IsText
<1>5. Len(s) = N + 1
    BY <1>2, <1>4
<1>6. b \in Seq(S) /\ Len(b) = N + 1 /\ b[N + 1] = d /\ \A i \in 1..N : b[i] = a[i]
    BY <1>1, <1>4, AppendProperties
<1> HIDE DEF b
<1>7. ASSUME NEW i \in 1..(N + 1) PROVE b[i] = g[s[i]].data
  <2>1. CASE i <= N
    <3>1. i \in 1..N /\ s[i] = t[i]
        BY <1>2, <1>4, <2>1
    <3> QED  BY <1>3, <1>4, <1>6, <3>1
  <2>2. CASE ~(i <= N)
    <3>1. i = N + 1 /\ s[i] = n
        BY <1>2, <1>4, <2>2
    <3> QED  BY <1>6, <3>1 DEF d
  <2> QED  BY <2>1, <2>2
<1>8. DataOf(g, s) = b
    BY <1>5, <1>6, <1>7, TextIsData
<1> QED  BY <1>8 DEF s, a, b, d

\* A node before the others.
LEMMA TextPrepended ==
    ASSUME NEW h, NEW g, NEW t \in Seq(Nodes), NEW n \in Nodes, \A i \in 1..Len(t) : g[t[i]].data = h[t[i]].data
    PROVE  DataOf(g, InFront(t, n)) = <<g[n].data>> \o DataOf(h, t)
<1> DEFINE S == DataIn(h, g)
           N == Len(t)
           s == InFront(t, n)
           a == DataOf(h, t)
           c == <<g[n].data>>
           b == c \o a
<1>1. HasData(h, S) /\ HasData(g, S) /\ c \in Seq(S) /\ Len(c) = 1 /\ c[1] = g[n].data
    BY DEF DataIn, HasData
<1>2. s = [i \in 1..(N + 1) |-> IF i = 1 THEN n ELSE t[i - 1]]
    BY DEF InFront
<1>3. a = DataOf(h, t) /\ N = Len(t)
    OBVIOUS
<1> HIDE DEF S, s, a, N, c
<1>4.a \in Seq(S) /\ Len(a) = N /\ N \in Nat /\ \A i \in 1..N : a[i] = h[t[i]].data
  <2>1. IsText(a, h, t, S, N)
      BY <1>1, <1>3, DataIsText, Zenon
  <2> QED  BY <2>1 DEF IsText
<1>5. Len(s) = N + 1
    BY <1>2, <1>4
<1>6. b \in Seq(S) /\ Len(b) = N + 1 /\ \A i \in 1..(N + 1) : b[i] = IF i <= 1 THEN c[i] ELSE a[i - 1]
  <2>1. /\ b \in Seq(S) /\ Len(b) = Len(c) + Len(a)
        /\ \A i \in 1..(Len(c) + Len(a)) : b[i] = IF i <= Len(c) THEN c[i] ELSE a[i - Len(c)]
      BY <1>1, <1>4, ConcatProperties
  <2>2. Len(c) = 1 /\ Len(c) + Len(a) = N + 1
      BY <1>1, <1>4
  <2> HIDE DEF b
  <2> QED  BY <2>1, <2>2
<1> HIDE DEF b
<1>7. ASSUME NEW i \in 1..(N + 1) PROVE b[i] = g[s[i]].data
  <2>1. CASE i = 1
      BY <1>1, <1>2, <1>6, <2>1
  <2>2. CASE i # 1
    <3>1. i - 1 \in 1..N /\ ~(i <= 1) /\ s[i] = t[i - 1]
        BY <1>2, <1>4, <2>2
    <3> QED  BY <1>3, <1>4, <1>6, <3>1
  <2> QED  BY <2>1, <2>2
<1>8. DataOf(g, s) = b
    BY <1>5, <1>6, <1>7, TextIsData
<1> QED  BY <1>8 DEF s, a, b, c

\* Two lists in one.
LEMMA TextJoined ==
    ASSUME NEW h, NEW g, NEW t \in Seq(Nodes), NEW u \in Seq(Nodes),
           \A i \in 1..Len(t) : g[t[i]].data = h[t[i]].data, \A i \in 1..Len(u) : g[u[i]].data = h[u[i]].data
    PROVE  DataOf(g, ListJoined(t, u)) = DataOf(h, t) \o DataOf(h, u)
<1> DEFINE S == DataIn(h, g)
           N == Len(t)
           M == Len(u)
           s == ListJoined(t, u)
           a == DataOf(h, t)
           c == DataOf(h, u)
           b == a \o c
<1>1. HasData(h, S) /\ HasData(g, S)
    BY DEF DataIn, HasData
<1>2. s = [i \in 1..(N + M) |-> IF i <= N THEN t[i] ELSE u[i - N]]
    BY DEF ListJoined
<1>3. a = DataOf(h, t) /\ N = Len(t) /\ c = DataOf(h, u) /\ M = Len(u)
    OBVIOUS
<1> HIDE DEF S, s, a, N, c, M
<1>4.a \in Seq(S) /\ Len(a) = N /\ N \in Nat /\ \A i \in 1..N : a[i] = h[t[i]].data
  <2>1. IsText(a, h, t, S, N)
      BY <1>1, <1>3, DataIsText, Zenon
  <2> QED  BY <2>1 DEF IsText
<1>5.c \in Seq(S) /\ Len(c) = M /\ M \in Nat /\ \A i \in 1..M : c[i] = h[u[i]].data
  <2>1. IsText(c, h, u, S, M)
      BY <1>1, <1>3, DataIsText, Zenon
  <2> QED  BY <2>1 DEF IsText
<1>6. Len(s) = N + M
    BY <1>2, <1>4, <1>5
<1>7. b \in Seq(S) /\ Len(b) = N + M /\ \A i \in 1..(N + M) : b[i] = IF i <= N THEN a[i] ELSE c[i - N]
    BY <1>4, <1>5, ConcatProperties
<1> HIDE DEF b
<1>8. ASSUME NEW i \in 1..(N + M) PROVE b[i] = g[s[i]].data
  <2>1. CASE i <= N
    <3>1. i \in 1..N /\ s[i] = t[i]
        BY <1>2, <1>4, <1>5, <2>1
    <3> QED  BY <1>3, <1>4, <1>7, <2>1, <3>1
  <2>2. CASE ~(i <= N)
    <3>1. i - N \in 1..M /\ s[i] = u[i - N]
        BY <1>2, <1>4, <1>5, <2>2
    <3> QED  BY <1>3, <1>5, <1>7, <2>2, <3>1
  <2> QED  BY <2>1, <2>2
<1>9. DataOf(g, s) = b
    BY <1>6, <1>7, <1>8, TextIsData
<1> QED  BY <1>9 DEF s, a, b, c

\* A copy of the first nodes.
LEMMA TextCopied ==
    ASSUME NEW h, NEW g, NEW t \in Seq(Nodes), NEW u \in Seq(Nodes), Len(u) <= Len(t),
           \A i \in 1..Len(u) : g[u[i]].data = h[t[i]].data
    PROVE  DataOf(g, u) = SubSeq(DataOf(h, t), 1, Len(u))
<1> DEFINE S == DataIn(h, g)
           N == Len(t)
           M == Len(u)
           a == DataOf(h, t)
           b == DataOf(g, u)
<1>1. HasData(h, S) /\ HasData(g, S)
    BY DEF DataIn, HasData
<1>2. a = DataOf(h, t) /\ N = Len(t) /\ b = DataOf(g, u) /\ M = Len(u)
    OBVIOUS
<1> HIDE DEF S, a, N, b, M
<1>3.a \in Seq(S) /\ Len(a) = N /\ N \in Nat /\ \A i \in 1..N : a[i] = h[t[i]].data
  <2>1. IsText(a, h, t, S, N)
      BY <1>1, <1>2, DataIsText, Zenon
  <2> QED  BY <2>1 DEF IsText
<1>4.b \in Seq(S) /\ Len(b) = M /\ M \in Nat /\ \A i \in 1..M : b[i] = g[u[i]].data
  <2>1. IsText(b, g, u, S, M)
      BY <1>1, <1>2, DataIsText, Zenon
  <2> QED  BY <2>1 DEF IsText
<1>5. M <= N
    BY <1>2
<1>6. \A i \in 1..M : i \in 1..N /\ a[i] = b[i]
  <2>1. \A i \in 1..M : i \in 1..N
      BY <1>3, <1>4, <1>5
  <2> QED  BY <1>2, <1>3, <1>4, <2>1
<1>7. SubSeq(a, 1, M) = [i \in 1..M |-> a[i]] /\ b = [i \in 1..M |-> b[i]]
    BY <1>3, <1>4, <1>5
<1>8. b = SubSeq(a, 1, M)
    BY <1>6, <1>7
<1> QED  BY <1>8 DEF a, b, M

\* A list without one of its nodes.
LEMMA TextWithout ==
    ASSUME NEW h, NEW g, NEW t \in Seq(Nodes), NEW p \in 1..Len(t),
           \A i \in 1..Len(t) : i # p => g[t[i]].data = h[t[i]].data
    PROVE  DataOf(g, Without(t, p)) = Texts!RemoveAt(DataOf(h, t), p)
<1> DEFINE S == DataIn(h, g)
           N == Len(t)
           s == Without(t, p)
           a == DataOf(h, t)
           front == SubSeq(a, 1, p - 1)
           back == SubSeq(a, p + 1, N)
           b == front \o back
<1>1. HasData(h, S) /\ HasData(g, S)
    BY DEF DataIn, HasData
<1>2. s = [i \in 1..(N - 1) |-> IF i < p THEN t[i] ELSE t[i + 1]]
    BY DEF Without
<1>3. a = DataOf(h, t) /\ N = Len(t) /\ p \in 1..N
    OBVIOUS
<1> HIDE DEF S, s, a, N
<1>4. a \in Seq(S) /\ Len(a) = N /\ N \in Nat /\ \A i \in 1..N : a[i] = h[t[i]].data
  <2>1. IsText(a, h, t, S, N)
      BY <1>1, <1>3, DataIsText, Zenon
  <2> QED  BY <2>1 DEF IsText
<1>5. N - 1 \in Nat /\ Len(s) = N - 1 /\ p - 1 \in Nat /\ N - p \in Nat /\ p - 1 + (N - p) = N - 1
    BY <1>2, <1>3, <1>4
<1>6. front \in Seq(S) /\ Len(front) = p - 1 /\ \A i \in 1..(p - 1) : front[i] = a[i]
  <2>1. \A i \in 1..(p - 1) : i \in 1..N /\ a[i] \in S
      BY <1>3, <1>4, ElementOfSeq
  <2>2. front = [i \in 1..(p - 1) |-> a[i]]
      BY <1>3, <1>4
  <2> HIDE DEF front
  <2> QED  BY <1>5, <2>1, <2>2
<1>7. back \in Seq(S) /\ Len(back) = N - p /\ \A i \in 1..(N - p) : back[i] = a[i + p]
  <2>1. \A i \in 1..(N - p) : i + p \in 1..N /\ a[i + p] \in S
      BY <1>3, <1>4, ElementOfSeq
  <2>2. back = [i \in 1..(N - p) |-> a[i + p]]
      BY <1>3, <1>4
  <2> DEFINE K == N - p
  <2>3. K \in Nat /\ back = [i \in 1..K |-> a[i + p]] /\ \A i \in 1..K : a[i + p] \in S
      BY <1>5, <2>1, <2>2
  <2> HIDE DEF back, K
  <2>4. back \in Seq(S) /\ Len(back) = K /\ \A i \in 1..K : back[i] = a[i + p]
      BY <2>3
  <2> QED  BY <2>4 DEF K
<1> HIDE DEF front, back
<1>8. /\ b \in Seq(S) /\ Len(b) = N - 1
      /\ \A i \in 1..(N - 1) : b[i] = IF i <= p - 1 THEN front[i] ELSE back[i - (p - 1)]
  <2>1. /\ b \in Seq(S) /\ Len(b) = Len(front) + Len(back)
        /\ \A i \in 1..(Len(front) + Len(back)) : b[i] = IF i <= Len(front) THEN front[i] ELSE back[i - Len(front)]
      BY <1>6, <1>7, ConcatProperties
  <2>2. Len(front) = p - 1 /\ Len(front) + Len(back) = N - 1
      BY <1>5, <1>6, <1>7
  <2> HIDE DEF b
  <2> QED  BY <2>1, <2>2
<1>9. b = Texts!RemoveAt(a, p)
    BY <1>4 DEF Texts!RemoveAt, front, back
<1> HIDE DEF b
<1>10. ASSUME NEW i \in 1..(N - 1) PROVE b[i] = g[s[i]].data
  <2>1. CASE i < p
    <3>1. i <= p - 1 /\ i \in 1..(p - 1) /\ i \in 1..N /\ i # p /\ s[i] = t[i]
        BY <1>2, <1>3, <1>4, <2>1
    <3>2. b[i] = a[i]
        BY <1>6, <1>8, <3>1
    <3> QED  BY <1>3, <1>4, <3>1, <3>2
  <2>2. CASE ~(i < p)
    <3>1. /\ ~(i <= p - 1) /\ i - (p - 1) \in 1..(N - p) /\ i - (p - 1) + p = i + 1
          /\ i + 1 \in 1..N /\ i + 1 # p /\ s[i] = t[i + 1]
        BY <1>2, <1>3, <1>4, <2>2
    <3>2. b[i] = back[i - (p - 1)]
        BY <1>8, <3>1
    <3>3. back[i - (p - 1)] = a[i + 1]
        BY <1>7, <3>1
    <3>4. g[t[i + 1]].data = h[t[i + 1]].data
        BY <1>3, <3>1
    <3> QED  BY <1>4, <3>1, <3>2, <3>3, <3>4
  <2> QED  BY <2>1, <2>2
<1>11. DataOf(g, s) = b
    BY <1>5, <1>8, <1>10, TextIsData
<1> QED  BY <1>9, <1>11 DEF s, a

\* A list whose data were swapped: turned round if their number is odd, the same if it is even.
LEMMA TextReversed ==
    ASSUME NEW h, NEW g, NEW t \in Seq(Nodes), NEW r, r = Swapped(DataOf(h, t)),
           \A i \in 1..Len(t) : g[t[i]].data = r[i]
    PROVE  DataOf(g, t) = IF Len(DataOf(h, t)) % 2 = 1 THEN Texts!Reverse(DataOf(h, t)) ELSE DataOf(h, t)
<1> DEFINE S == DataIn(h, g)
           N == Len(t)
           a == DataOf(h, t)
<1>1. HasData(h, S) /\ HasData(g, S)
    BY DEF DataIn, HasData
<1>2. a = DataOf(h, t) /\ N = Len(t)
    OBVIOUS
<1> HIDE DEF S, a, N
<1>3. a \in Seq(S) /\ Len(a) = N /\ N \in Nat /\ \A i \in 1..N : a[i] = h[t[i]].data
  <2>1. IsText(a, h, t, S, N)
      BY <1>1, <1>2, DataIsText, Zenon
  <2> QED  BY <2>1 DEF IsText
<1>4. r = IF Len(a) % 2 = 1 THEN Reverse(a) ELSE a
    BY <1>2, <1>3, SwappedIs
<1>5. Reverse(a) = [i \in 1..N |-> a[(N - i) + 1]] /\ Texts!Reverse(a) = Reverse(a)
    BY <1>3 DEF Reverse, Texts!Reverse
<1>6. Reverse(a) \in Seq(S) /\ Len(Reverse(a)) = N
  <2>1. \A i \in 1..N : (N - i) + 1 \in 1..N
      BY <1>3
  <2>2. \A i \in 1..N : a[(N - i) + 1] \in S
      BY <1>3, <2>1, ElementOfSeq
  <2> QED  BY <1>3, <1>5, <2>2
<1>7. r \in Seq(S) /\ Len(r) = N
    BY <1>3, <1>4, <1>6
<1>8. DataOf(g, t) = r
    BY <1>2, <1>7, TextIsData
<1> QED  BY <1>4, <1>5, <1>8 DEF a

-----------------------------------------------------------------------------
(* The texts of all lists, and what a call does to them. *)

TextsOf(h, w) == [l \in Lists |-> DataOf(h, w[l])]
ListTexts == [l \in Lists |-> IF broken THEN << >> ELSE Foreach(l)]

\* Foreach visits the nodes of a list.
LEMMA ItemsAre ==
    ASSUME NEW w, Shape(node, list, held, w), ~broken
    PROVE  ListTexts = TextsOf(node, w)
<1> SUFFICES ASSUME NEW l \in Lists PROVE Foreach(l) = DataOf(node, w[l])
    BY DEF ListTexts, TextsOf
<1>1. Chain(list[l].first, "next") = w[l] /\ w[l] \in Seq(Nodes)
    BY ShapeChains, ChainsAre, ListsAreBounded
<1>2. DOMAIN w[l] = 1..Len(w[l])
    BY <1>1
<1> QED  BY <1>1, <1>2 DEF Foreach, DataOf

\* So it does after a step.
LEMMA ItemsThen ==
    ASSUME NEW w, Shape(node', list', held', w), ~broken'
    PROVE  ListTexts' = TextsOf(node', w)
<1> SUFFICES ASSUME NEW l \in Lists PROVE Foreach(l)' = DataOf(node', w[l])
    BY DEF ListTexts, TextsOf
<1>1. Chain(list[l].first, "next")' = w[l] /\ w[l] \in Seq(Nodes)
  <2>1. ChainIn(node', list'[l].first, "next") = w[l] /\ w[l] \in Seq(Nodes)
      BY ShapeChains, ListsAreBounded
  <2>2. Forward(l)' = ChainIn(node', list'[l].first, "next")
      BY ChainsThen
  <2> QED  BY <2>1, <2>2 DEF Forward
<1>2. DOMAIN w[l] = 1..Len(w[l])
    BY <1>1
<1> QED  BY <1>1, <1>2 DEF Foreach, DataOf

\* A step that changes nothing.
LEMMA NothingTold ==
    ASSUME NEW w, Shape(node, list, held, w), ~broken, UNCHANGED <<node, list, held>>, broken' = broken
    PROVE  UNCHANGED Texts!vars
<1>1. node' = node /\ list' = list /\ held' = held
    OBVIOUS
<1>2. Shape(node', list', held', w)
    BY <1>1, Zenon
<1>3. ListTexts' = ListTexts
    BY <1>1, <1>2, ItemsAre, ItemsThen
<1> QED  BY <1>1, <1>3 DEF Texts!vars, ListTexts

\* The other lists keep their nodes, and all data that stay keep their place.
Keeps(h, g) == \A m \in DOMAIN h : m \in DOMAIN g => g[m].data = h[m].data

\* Of old, only the value of l is another one: x.
OtherAt(old, new, l, x) == new = [old EXCEPT ![l] = x]

\* One list has other nodes.
LEMMA OneText ==
    ASSUME NEW h, NEW hd, NEW hl, NEW w, Shape(h, hd, hl, w), NEW g, NEW hd2, NEW hl2, NEW l \in Lists, NEW s,
           NEW v, OtherAt(w, v, l, s), Shape(g, hd2, hl2, v), Keeps(h, g)
    PROVE  OtherAt(TextsOf(h, w), TextsOf(g, v), l, DataOf(g, s))
<1>1. v[l] = s /\ \A k \in Lists : k # l => v[k] = w[k]
    BY DEF Shape, OtherAt
<1>2. ASSUME NEW k \in Lists, k # l PROVE DataOf(g, v[k]) = DataOf(h, w[k])
  <2>1. \A i \in 1..Len(w[k]) : w[k][i] \in DOMAIN h
      BY DEF Shape, LinksOK, LinkedAs
  <2>2. \A i \in 1..Len(v[k]) : v[k][i] \in DOMAIN g
      BY DEF Shape, LinksOK, LinkedAs
  <2>3. v[k] = w[k]
      BY <1>1, <1>2
  <2>4. \A i \in 1..Len(w[k]) : g[w[k][i]].data = h[w[k][i]].data
      BY <2>1, <2>2, <2>3 DEF Keeps
  <2> QED  BY <2>3, <2>4 DEF DataOf
<1>3. TextsOf(g, v) = [k \in Lists |-> IF k = l THEN DataOf(g, s) ELSE DataOf(h, w[k])]
    BY <1>1, <1>2 DEF TextsOf
<1>4. [TextsOf(h, w) EXCEPT ![l] = DataOf(g, s)] = [k \in Lists |-> IF k = l THEN DataOf(g, s) ELSE DataOf(h, w[k])]
    BY DEF TextsOf
<1> QED  BY <1>3, <1>4 DEF OtherAt

\* The sequence of one list becomes another one.
LEMMA BecomesTold ==
    ASSUME NEW w, Shape(node, list, held, w), ~broken, NEW v, Shape(node', list', held', v), ~broken',
           NEW l \in Lists, NEW x, OtherAt(TextsOf(node, w), TextsOf(node', v), l, x)
    PROVE  Texts!Becomes(l, x)
<1>1. ListTexts = TextsOf(node, w) /\ ListTexts' = TextsOf(node', v)
    BY ItemsAre, ItemsThen
<1>2. OtherAt(ListTexts, ListTexts', l, x)
    BY <1>1
<1> QED  BY <1>2 DEF OtherAt, Texts!Becomes, ListTexts

\* The sequence of a list is that of its nodes.
ItemsOf(l) == [k \in Lists |-> IF broken THEN << >> ELSE Foreach(k)][l]

LEMMA ItemsOfIs ==
    ASSUME NEW w, Shape(node, list, held, w), ~broken, NEW l \in Lists
    PROVE  ItemsOf(l) = DataOf(node, w[l])
<1>1. ListTexts = TextsOf(node, w)
    BY ItemsAre
<1>2. ItemsOf(l) = ListTexts[l]
    BY DEF ItemsOf, ListTexts
<1> QED  BY <1>1, <1>2 DEF TextsOf

\* A new node leaves the data of the others.
LEMMA NewDataTold ==
    ASSUME NEW w, Shape(node, list, held, w), NEW l \in Lists, NEW n, NEW d, NewData(n, d)
    PROVE  /\ Keeps(node, node') /\ node'[n].data = d
           /\ \A i \in 1..Len(w[l]) : node'[w[l][i]].data = node[w[l][i]].data
<1>1. \A i \in 1..Len(w[l]) : w[l][i] \in DOMAIN node
    BY DEF Shape, LinksOK, LinkedAs
<1> QED  BY <1>1 DEF NewData, Keeps

\* dslist_append puts the datum last.
LEMMA AppendTold ==
    ASSUME NEW w, Shape(node, list, held, w), ~broken, NEW l \in Lists, NEW d, dslist_append(l, d)
    PROVE  Texts!AppendTo(l, d)
<1> DEFINE n == Min(FreeNodes)
           t == w[l]
           s == Behind(t, n)
           v == [w EXCEPT ![l] = s]
<1>1. n \in Nodes /\ t \in Seq(Nodes)
    BY LeastFree, ListsAreBounded DEF dslist_append
<1>2. /\ NewData(n, d) /\ held' = held \cup {l} /\ broken' = broken
      /\ Shape(node', list', held', v)
    BY AppendShape
<1> HIDE DEF n
<1>3. /\ Keeps(node, node') /\ node'[n].data = d
      /\ \A i \in 1..Len(t) : node'[t[i]].data = node[t[i]].data
    BY <1>2, NewDataTold
<1>4. ItemsOf(l) = DataOf(node, t)
    BY ItemsOfIs
<1> HIDE DEF t
<1>5. DataOf(node', s) = Append(ItemsOf(l), d)
  <2>1. DataOf(node', s) = Append(DataOf(node, t), node'[n].data)
    <3>1. \A i \in 1..Len(t) : node'[t[i]].data = node[t[i]].data
        BY <1>3
    <3> QED  BY <1>1, <3>1, TextAppended
  <2> QED  BY <1>3, <1>4, <2>1
<1>6. OtherAt(w, v, l, s)
    BY DEF OtherAt
<1> HIDE DEF s, v
<1>7. OtherAt(TextsOf(node, w), TextsOf(node', v), l, DataOf(node', s))
    BY <1>2, <1>3, <1>6, OneText, Zenon
<1>8. Texts!Becomes(l, Append(ItemsOf(l), d))
    BY <1>2, <1>5, <1>7, BecomesTold
<1> QED  BY <1>2, <1>8 DEF Texts!AppendTo, ItemsOf

\* dslist_prepend puts it first.
LEMMA PrependTold ==
    ASSUME NEW w, Shape(node, list, held, w), ~broken, NEW l \in Lists, NEW d, dslist_prepend(l, d)
    PROVE  Texts!PrependTo(l, d)
<1> DEFINE n == Min(FreeNodes)
           t == w[l]
           s == InFront(t, n)
           v == [w EXCEPT ![l] = s]
<1>1. n \in Nodes /\ t \in Seq(Nodes)
    BY LeastFree, ListsAreBounded DEF dslist_prepend
<1>2. /\ NewData(n, d) /\ held' = held \cup {l} /\ broken' = broken
      /\ Shape(node', list', held', v)
    BY PrependShape
<1> HIDE DEF n
<1>3. /\ Keeps(node, node') /\ node'[n].data = d
      /\ \A i \in 1..Len(t) : node'[t[i]].data = node[t[i]].data
    BY <1>2, NewDataTold
<1>4. ItemsOf(l) = DataOf(node, t)
    BY ItemsOfIs
<1> HIDE DEF t
<1>5. DataOf(node', s) = <<d>> \o ItemsOf(l)
    BY <1>1, <1>3, <1>4, TextPrepended
<1>6. OtherAt(w, v, l, s)
    BY DEF OtherAt
<1> HIDE DEF s, v
<1>7. OtherAt(TextsOf(node, w), TextsOf(node', v), l, DataOf(node', s))
    BY <1>2, <1>3, <1>6, OneText, Zenon
<1>8. Texts!Becomes(l, <<d>> \o ItemsOf(l))
    BY <1>2, <1>5, <1>7, BecomesTold
<1> QED  BY <1>2, <1>8 DEF Texts!PrependTo, ItemsOf

\* A list that has lost one node has lost one of its data.
LEMMA ShorterTold ==
    ASSUME NEW w, Shape(node, list, held, w), NEW l \in Lists, NEW p \in 1..Len(w[l]),
           Shape(node', list', held', [w EXCEPT ![l] = Without(w[l], p)]),
           \A m \in DOMAIN node' : node'[m].data = node[m].data
    PROVE  /\ OtherAt(TextsOf(node, w), TextsOf(node', [w EXCEPT ![l] = Without(w[l], p)]), l,
                       Texts!RemoveAt(DataOf(node, w[l]), p))
           /\ p \in DOMAIN DataOf(node, w[l])
<1> DEFINE t == w[l]
           s == Without(t, p)
           v == [w EXCEPT ![l] = s]
<1>1. t \in Seq(Nodes) /\ p \in 1..Len(t) /\ Len(t) \in Nat
    BY ListsAreBounded
<1>2. TextsOf(node, w)[l] = DataOf(node, t)
    BY DEF TextsOf
<1>3. Keeps(node, node')
    BY DEF Keeps
<1>4. v[l] = s /\ s = [i \in 1..(Len(t) - 1) |-> IF i < p THEN t[i] ELSE t[i + 1]]
    BY DEF Shape, Without
<1>5. \A i \in 1..Len(s) : s[i] \in DOMAIN node'
  <2>1. LinkedAs(node', v[l])
      BY DEF Shape, LinksOK
  <2> HIDE DEF v, s
  <2> QED  BY <1>4, <2>1 DEF LinkedAs
<1> HIDE DEF t
<1>6. \A i \in 1..Len(t) : i # p => node'[t[i]].data = node[t[i]].data
  <2> SUFFICES ASSUME NEW i \in 1..Len(t), i # p PROVE t[i] \in DOMAIN node'
      OBVIOUS
  <2>1. Len(s) = Len(t) - 1
      BY <1>1, <1>4
  <2> HIDE DEF s
  <2>2. CASE i < p
    <3>1. i \in 1..(Len(t) - 1) /\ s[i] = t[i]
        BY <1>1, <1>4, <2>2
    <3> QED  BY <1>5, <2>1, <3>1
  <2>3. CASE ~(i < p)
    <3>1. i - 1 \in 1..(Len(t) - 1) /\ ~(i - 1 < p) /\ i - 1 + 1 = i
        BY <1>1, <2>3
    <3>2. s[i - 1] = t[i]
        BY <1>4, <3>1
    <3> QED  BY <1>5, <2>1, <3>1, <3>2
  <2> QED  BY <2>2, <2>3
<1>7. DataOf(node', s) = Texts!RemoveAt(DataOf(node, t), p)
    BY <1>1, <1>6, TextWithout
<1>8. OtherAt(w, v, l, s) /\ Shape(node', list', held', v)
    BY DEF OtherAt, t
<1>9. p \in DOMAIN DataOf(node, t)
    BY <1>1 DEF DataOf
<1> HIDE DEF v, s
<1>10. OtherAt(TextsOf(node, w), TextsOf(node', v), l, DataOf(node', s))
    BY <1>3, <1>8, OneText, Zenon
<1>11. OtherAt(TextsOf(node, w), TextsOf(node', v), l, Texts!RemoveAt(DataOf(node, t), p))
    BY <1>7, <1>10
<1> QED  BY <1>9, <1>11 DEF v, s, t

\* dslist_remove and dslist_remove_all take the first of the data that is d, or never return.
LEMMA RemoveFewTold ==
    ASSUME NEW w, Shape(node, list, held, w), ~broken, NEW l \in held, NEW d, NEW all \in BOOLEAN,
           dslist_remove_few(l, d, all)
    PROVE  Texts!RemoveFrom(l, d) \/ (ended' = "hangs" /\ UNCHANGED Texts!vars)
<1>1. /\ list[l].count > 0 /\ held' = held /\ broken' = broken /\ l \in Lists
      /\ \/ ended' = "hangs" /\ UNCHANGED <<node, list>>
         \/ node[list[l].first].data = d /\ TakeFirst(l)
    BY DEF dslist_remove_few, Shape
<1>2. CASE ended' = "hangs" /\ UNCHANGED <<node, list>>
    BY <1>1, <1>2, NothingTold
<1>3. CASE node[list[l].first].data = d /\ TakeFirst(l)
  <2> DEFINE t == w[l]
             v == [w EXCEPT ![l] = Without(w[l], 1)]
  <2>1. Len(t) > 0 /\ Shape(node', list', held', v) /\ \A m \in DOMAIN node' : node'[m].data = node[m].data
      BY <1>1, <1>3, TakeFirstShape
  <2>2. 1 \in 1..Len(t) /\ Len(t) \in Nat
      BY <1>1, <2>1, ListsAreBounded
  <2>3. /\ OtherAt(TextsOf(node, w), TextsOf(node', v), l, Texts!RemoveAt(DataOf(node, t), 1))
        /\ 1 \in DOMAIN DataOf(node, t)
      BY <1>1, <2>1, <2>2, ShorterTold
  <2>4. ItemsOf(l) = DataOf(node, t)
      BY <1>1, ItemsOfIs
  <2>5. list[l].first = t[1]
    <3>1. ListHead(list[l], t)
        BY <1>1, ListsAre
    <3> HIDE DEF t
    <3> QED  BY <2>1, <2>2, <3>1 DEF ListHead
  <2> HIDE DEF v
  <2>6. Texts!Becomes(l, Texts!RemoveAt(ItemsOf(l), 1))
      BY <1>1, <2>1, <2>3, <2>4, BecomesTold
  <2>7. ItemsOf(l)[1] = d /\ 1 \in DOMAIN ItemsOf(l)
      BY <1>3, <2>2, <2>3, <2>4, <2>5 DEF DataOf
  <2>8. \A j \in 1..(1 - 1) : ItemsOf(l)[j] # d
      OBVIOUS
  <2>9. \E i \in DOMAIN ItemsOf(l) :
          /\ ItemsOf(l)[i] = d /\ \A j \in 1..(i - 1) : ItemsOf(l)[j] # d
          /\ Texts!Becomes(l, Texts!RemoveAt(ItemsOf(l), i))
      BY <2>6, <2>7, <2>8
  <2>10. Texts!RemoveFrom(l, d)
      BY <1>1, <2>9 DEF Texts!RemoveFrom, ItemsOf
  <2> QED  BY <2>10
<1> QED  BY <1>1, <1>2, <1>3

\* dslist_remove_next takes the datum behind.
LEMMA RemoveNextTold ==
    ASSUME NEW w, Shape(node, list, held, w), ~broken, ~broken', NEW l \in held, NEW q \in 1..Len(w[l]),
           dslist_remove_next(l, w[l][q])
    PROVE  Texts!RemoveBehind(l, q)
<1> DEFINE t == w[l]
           v == [w EXCEPT ![l] = Without(w[l], q + 1)]
<1>1. /\ q + 1 \in 1..Len(t) /\ Shape(node', list', held', v) /\ held' = held
      /\ \A m \in DOMAIN node' : node'[m].data = node[m].data
    BY RemoveNextShape
<1>2. l \in Lists
    BY DEF Shape
<1>3. /\ OtherAt(TextsOf(node, w), TextsOf(node', v), l, Texts!RemoveAt(DataOf(node, t), q + 1))
      /\ q + 1 \in DOMAIN DataOf(node, t)
    BY <1>1, <1>2, ShorterTold
<1>4. ItemsOf(l) = DataOf(node, t)
    BY <1>2, ItemsOfIs
<1> HIDE DEF v, t
<1>5. Texts!Becomes(l, Texts!RemoveAt(ItemsOf(l), q + 1))
    BY <1>1, <1>2, <1>3, <1>4, BecomesTold
<1>6. q + 1 \in DOMAIN ItemsOf(l)
    BY <1>3, <1>4
<1> QED  BY <1>1, <1>5, <1>6 DEF Texts!RemoveBehind, ItemsOf

\* dslist_reverse turns a list of odd length round.
LEMMA ReverseTold ==
    ASSUME NEW w, Shape(node, list, held, w), NEW l \in held, dslist_reverse(l)
    PROVE  OtherAt(TextsOf(node, w), TextsOf(node', w), l,
                   IF Len(DataOf(node, w[l])) % 2 = 1 THEN Texts!Reverse(DataOf(node, w[l])) ELSE DataOf(node, w[l]))
<1> DEFINE t == w[l]
           data == Swapped(Foreach(l))
           v == [w EXCEPT ![l] = t]
<1>1. l \in Lists
    BY DEF Shape
<1>2. /\ Chain(list[l].first, "next") = t /\ t \in Seq(Nodes) /\ Len(t) \in Nat
      /\ (\A i, j \in 1..Len(t) : t[i] = t[j] => i = j) /\ DOMAIN t = 1..Len(t)
  <2>1. Chain(list[l].first, "next") = t
      BY <1>1, ShapeChains, ChainsAre
  <2>2. t \in Seq(Nodes) /\ Len(t) \in Nat /\ \A i, j \in 1..Len(t) : t[i] = t[j] => i = j
      BY <1>1, ListsAreBounded
  <2> QED  BY <2>1, <2>2, LenProperties
<1>3. Foreach(l) = DataOf(node, t)
  <2> HIDE DEF t
  <2> QED  BY <1>2 DEF Foreach, DataOf
<1>4. \A i \in 1..Len(t) : t[i] \in DOMAIN node
    BY <1>1 DEF Shape, LinksOK, LinkedAs
<1>5. \A m \in DOMAIN node : IsNode(node[m])
    BY DEF Shape
<1>6. Shape(node', list', held', w) /\ w = v
    BY <1>1, ReverseShape DEF Shape
<1> HIDE DEF t, data
<1>7. \A i \in 1..Len(t) : FirstPlace(t, {t[i]}) = i
  <2> TAKE i \in 1..Len(t)
  <2> DEFINE k == FirstPlace(t, {t[i]})
  <2>1. \/ k = 0 /\ \A j \in 1..Len(t) : t[j] \notin {t[i]}
        \/ k \in 1..Len(t) /\ t[k] \in {t[i]} /\ \A j \in 1..Len(t) : t[j] \in {t[i]} => k <= j
      BY <1>2, FirstPlaceIs
  <2> HIDE DEF k
  <2>2. k = i
      BY <1>2, <2>1
  <2> QED  BY <2>2 DEF k
<1>8. node' = [m \in DOMAIN node |->
                 IF m \notin ToSet(t) THEN node[m] ELSE SetData(node[m], data[FirstPlace(t, {m})])]
    BY <1>2 DEF dslist_reverse, Reversed, SetData, data
<1>9. ToSet(t) = {t[i] : i \in 1..Len(t)}
    BY <1>2 DEF ToSet
<1>10. \A i \in 1..Len(t) : node'[t[i]].data = data[i]
  <2> TAKE i \in 1..Len(t)
  <2>1. t[i] \in DOMAIN node /\ t[i] \in ToSet(t) /\ IsNode(node[t[i]])
      BY <1>4, <1>5, <1>9
  <2>2. node'[t[i]] = SetData(node[t[i]], data[i])
      BY <1>7, <1>8, <2>1
  <2> QED  BY <2>1, <2>2, DataSet
<1> DEFINE a == DataOf(node, t)
<1>11. DataOf(node', t) = IF Len(a) % 2 = 1 THEN Texts!Reverse(a) ELSE a
  <2>1. data = Swapped(a)
      BY <1>3 DEF data
  <2> QED  BY <1>2, <1>10, <2>1, TextReversed
<1>12. ASSUME NEW k \in Lists, k # l PROVE DataOf(node', w[k]) = DataOf(node, w[k])
  <2>1. \A i \in 1..Len(w[k]) : w[k][i] \in DOMAIN node
      BY DEF Shape, LinksOK, LinkedAs
  <2>2. \A i \in 1..Len(w[k]) : w[k][i] \notin ToSet(t)
    <3>1. \A i \in 1..Len(w[k]), j \in 1..Len(w[l]) : w[k][i] # w[l][j]
        BY <1>1, <1>12 DEF Shape, Apart
    <3> QED  BY <1>9, <3>1 DEF t
  <2>3. \A i \in 1..Len(w[k]) : node'[w[k][i]] = node[w[k][i]]
      BY <1>8, <2>1, <2>2
  <2> QED  BY <2>3 DEF DataOf
<1>13. TextsOf(node', w) = [k \in Lists |-> IF k = l THEN DataOf(node', t) ELSE DataOf(node, w[k])]
    BY <1>12 DEF TextsOf, t
<1>14. TextsOf(node', w) = [TextsOf(node, w) EXCEPT ![l] = DataOf(node', t)]
    BY <1>13 DEF TextsOf
<1> QED  BY <1>11, <1>14 DEF OtherAt, a, t

\* dslist_free leaves no data.
LEMMA FreeTold ==
    ASSUME NEW w, Shape(node, list, held, w), NEW l \in Lists,
           Shape(node', list', held', [w EXCEPT ![l] = << >>]), \A m \in DOMAIN node' : node'[m].data = node[m].data
    PROVE  TextsOf(node', [w EXCEPT ![l] = << >>]) = [TextsOf(node, w) EXCEPT ![l] = << >>]
<1> DEFINE e == << >>
<1>1. Keeps(node, node')
    BY DEF Keeps
<1> DEFINE v == [w EXCEPT ![l] = e]
<1>2. Shape(node', list', held', v) /\ OtherAt(w, v, l, e)
    BY DEF OtherAt
<1>3. DataOf(node', e) = e
    BY DEF DataOf
<1> HIDE DEF e, v
<1>4. OtherAt(TextsOf(node, w), TextsOf(node', v), l, DataOf(node', e))
    BY <1>1, <1>2, OneText, Zenon
<1>5. TextsOf(node', v) = [TextsOf(node, w) EXCEPT ![l] = e]
    BY <1>3, <1>4 DEF OtherAt
<1> QED  BY <1>5 DEF e, v

\* dslist_copy makes a list of the first data, as many as there is memory for.
LEMMA CopyTold ==
    ASSUME NEW w, Shape(node, list, held, w), ~broken, NEW l \in held, NEW k \in Lists \ {l}, dslist_copy(l, k)
    PROVE  /\ Texts!CopyOf(l, k, Min({Len(Foreach(l)), Cardinality(FreeNodes)}))
           /\ k \notin held /\ Min({Len(Foreach(l)), Cardinality(FreeNodes)}) \in 0..Len(ItemsOf(l))
<1> DEFINE t == w[l]
           n == Min({Len(Foreach(l)), Cardinality(FreeNodes)})
<1>1. k \notin held /\ held' = held \cup {k} /\ broken' = broken /\ l \in Lists /\ k \in Lists
    BY CopyShape DEF Shape
<1>2. PICK s \in Seq(Nodes) :
        /\ Shape(node', list', held', [w EXCEPT ![k] = s]) /\ Len(s) <= Len(t) /\ Len(s) = n
        /\ \A i \in 1..Len(s) : node'[s[i]].data = node[t[i]].data
        /\ \A m \in DOMAIN node : m \in DOMAIN node' /\ node'[m] = node[m]
    BY CopyShape
<1> DEFINE v == [w EXCEPT ![k] = s]
<1>3. t \in Seq(Nodes) /\ Len(t) \in Nat /\ ItemsOf(l) = DataOf(node, t)
    BY <1>1, ListsAreBounded, ItemsOfIs
<1> HIDE DEF t, n
<1>4. DataOf(node', s) = SubSeq(ItemsOf(l), 1, n)
  <2>1. DataOf(node', s) = SubSeq(DataOf(node, t), 1, Len(s))
    <3>1. /\ t \in Seq(Nodes) /\ s \in Seq(Nodes) /\ Len(s) <= Len(t)
          /\ \A i \in 1..Len(s) : node'[s[i]].data = node[t[i]].data
        BY <1>2, <1>3
    <3> QED  BY <3>1, TextCopied, Zenon
  <2> QED  BY <1>2, <1>3, <2>1
<1>5. Keeps(node, node')
    BY <1>2 DEF Keeps
<1>6. Shape(node', list', held', v) /\ OtherAt(w, v, k, s)
    BY <1>2 DEF OtherAt
<1> HIDE DEF v
<1>7. OtherAt(TextsOf(node, w), TextsOf(node', v), k, DataOf(node', s))
    BY <1>1, <1>5, <1>6, OneText, Zenon
<1>8. Texts!Becomes(k, SubSeq(ItemsOf(l), 1, n))
    BY <1>1, <1>4, <1>6, <1>7, BecomesTold
<1>9. Texts!CopyOf(l, k, n)
    BY <1>1, <1>8 DEF Texts!CopyOf, ItemsOf
<1>10. n \in 0..Len(ItemsOf(l))
  <2>1. Len(DataOf(node, t)) = Len(t)
      BY <1>3 DEF DataOf
  <2>2. Len(s) \in Nat
      BY LenProperties
  <2> QED  BY <1>2, <1>3, <2>1, <2>2
<1> QED  BY <1>1, <1>9, <1>10 DEF n

\* List k, or its text, is put behind l.
ListsJoinAt(w, v, l, k) == v = [w EXCEPT ![l] = ListJoined(w[l], w[k]), ![k] = << >>]
TextsJoinAt(old, new, l, k) == new = [old EXCEPT ![l] = @ \o old[k], ![k] = << >>]

\* dslist_concat puts one text behind the other.
LEMMA ConcatTold ==
    ASSUME NEW w, Shape(node, list, held, w), NEW l \in Lists, NEW k \in Lists, l # k,
           NEW v, ListsJoinAt(w, v, l, k), Shape(node', list', held', v),
           \A m \in DOMAIN node : node'[m].data = node[m].data
    PROVE  TextsJoinAt(TextsOf(node, w), TextsOf(node', v), l, k)
<1> DEFINE a == w[l]
           b == w[k]
           e == << >>
           J == ListJoined(a, b)
           old == TextsOf(node, w)
<1>1. v[k] = e /\ v[l] = J /\ \A x \in Lists : x \notin {l, k} => v[x] = w[x]
  <2>1. v = [w EXCEPT ![l] = J, ![k] = e]
      BY DEF ListsJoinAt
  <2> HIDE DEF J, e
  <2> QED  BY <2>1 DEF Shape
<1>2. a \in Seq(Nodes) /\ b \in Seq(Nodes)
    BY ListsAreBounded
<1>3. ASSUME NEW x \in Lists PROVE \A i \in 1..Len(w[x]) : node'[w[x][i]].data = node[w[x][i]].data
  <2>1. \A i \in 1..Len(w[x]) : w[x][i] \in DOMAIN node
      BY DEF Shape, LinksOK, LinkedAs
  <2> QED  BY <2>1
<1>4. DataOf(node', J) = DataOf(node, a) \o DataOf(node, b)
  <2>1. /\ \A i \in 1..Len(a) : node'[a[i]].data = node[a[i]].data
        /\ \A i \in 1..Len(b) : node'[b[i]].data = node[b[i]].data
      BY <1>3
  <2> HIDE DEF a, b
  <2> QED  BY <1>2, <2>1, TextJoined
<1>5. \A x \in Lists : DataOf(node', w[x]) = DataOf(node, w[x])
    BY <1>3 DEF DataOf
<1>6. DataOf(node', e) = e
    BY DEF DataOf
<1>7. old[l] = DataOf(node, a) /\ old[k] = DataOf(node, b) /\ \A x \in Lists : old[x] = DataOf(node, w[x])
    BY DEF TextsOf
<1>8. old = [x \in Lists |-> old[x]]
    BY DEF TextsOf
<1> HIDE DEF J, e, old
<1>9. TextsOf(node', v) = [x \in Lists |-> IF x = k THEN e ELSE IF x = l THEN old[l] \o old[k] ELSE old[x]]
  <2>1. TextsOf(node', v) = [x \in Lists |-> DataOf(node', v[x])]
      BY DEF TextsOf
  <2>2. ASSUME NEW x \in Lists
        PROVE  DataOf(node', v[x]) = IF x = k THEN e ELSE IF x = l THEN old[l] \o old[k] ELSE old[x]
      BY <1>1, <1>4, <1>5, <1>6, <1>7
  <2> QED  BY <2>1, <2>2
<1>10. [old EXCEPT ![l] = old[l] \o old[k], ![k] = e] = [x \in Lists |-> IF x = k THEN e ELSE IF x = l THEN old[l] \o old[k] ELSE old[x]]
    BY <1>8
<1>11. TextsOf(node', v) = [old EXCEPT ![l] = old[l] \o old[k], ![k] = e]
    BY <1>9, <1>10
<1> QED  BY <1>11 DEF TextsJoinAt, e, old

-----------------------------------------------------------------------------
(* Every call is to the texts what its name says. *)

\* All calls on lists that are not broken.
LEMMA CallsTold ==
    ASSUME NEW w, Shape(node, list, held, w), ~broken, ~broken'
    PROVE  AsNamed
<1>1. held \subseteq Lists
    BY DEF Shape
<1>2. ASSUME NEW l \in held, NEW i \in DOMAIN Forward(l)
      PROVE  i \in 1..Len(w[l]) /\ Forward(l)[i] = w[l][i]
  <2>1. l \in Lists
      BY <1>1
  <2>2. Forward(l) = w[l] /\ w[l] \in Seq(Nodes)
      BY <2>1, ShapeChains, ChainsAre, ListsAreBounded DEF Forward
  <2>3. DOMAIN w[l] = 1..Len(w[l])
      BY <2>2, LenProperties
  <2> HIDE DEF Shape
  <2> QED  BY <1>2, <2>2, <2>3
<1>3. ASSUME NEW l \in held, NEW i \in DOMAIN Forward(l), NEW d \in Data, dslist_insert(l, Forward(l)[i], d)
      PROVE  Texts!AppendTo(l, d)
  <2>1. dslist_append(l, d)
      BY <1>3 DEF dslist_insert
  <2> QED  BY <1>1, <2>1, AppendTold
<1>4. ASSUME NEW l \in held, NEW i \in DOMAIN Forward(l), dslist_remove_next(l, Forward(l)[i])
      PROVE  Texts!RemoveBehind(l, i)
  <2>1. i \in 1..Len(w[l]) /\ dslist_remove_next(l, w[l][i])
      BY <1>2, <1>4
  <2> QED  BY <2>1, RemoveNextTold
<1>5. ASSUME NEW l \in held, dslist_reverse(l) PROVE Texts!TurnRound(l)
  <2>1. Shape(node', list', held', w) /\ UNCHANGED <<list, held, broken>> /\ l \in Lists
      BY <1>1, <1>5, ReverseShape
  <2> DEFINE a == DataOf(node, w[l])
  <2>2. OtherAt(TextsOf(node, w), TextsOf(node', w), l, IF Len(a) % 2 = 1 THEN Texts!Reverse(a) ELSE a)
      BY <1>5, ReverseTold
  <2>3. ItemsOf(l) = a
      BY <2>1, ItemsOfIs
  <2> HIDE DEF a
  <2>4. Texts!Becomes(l, IF Len(ItemsOf(l)) % 2 = 1 THEN Texts!Reverse(ItemsOf(l)) ELSE ItemsOf(l))
      BY <2>1, <2>2, <2>3, BecomesTold
  <2> QED  BY <2>1, <2>4 DEF Texts!TurnRound, ItemsOf
<1>6. ASSUME NEW l \in held, dslist_free(l)
      PROVE  Texts!Free(l) \/ (ended' = "crashed" /\ UNCHANGED Texts!vars)
  <2> DEFINE e == << >>
             v == [w EXCEPT ![l] = e]
  <2>1. /\ broken' = broken /\ l \in Lists
        /\ \/ ended' = "crashed" /\ UNCHANGED <<node, list, held>>
           \/ /\ Shape(node', list', held', v) /\ held' = held \ {l}
              /\ \A m \in DOMAIN node' : node'[m].data = node[m].data
      BY <1>1, <1>6, FreeShape
  <2>2. CASE ended' = "crashed" /\ UNCHANGED <<node, list, held>>
      BY <2>1, <2>2, NothingTold
  <2>3. CASE /\ Shape(node', list', held', v) /\ held' = held \ {l}
             /\ \A m \in DOMAIN node' : node'[m].data = node[m].data
    <3>1. TextsOf(node', v) = [TextsOf(node, w) EXCEPT ![l] = e]
        BY <2>1, <2>3, FreeTold
    <3> HIDE DEF v, e
    <3>2. OtherAt(TextsOf(node, w), TextsOf(node', v), l, e)
        BY <3>1 DEF OtherAt
    <3>3. Texts!Becomes(l, e)
        BY <2>1, <2>3, <3>2, BecomesTold
    <3> QED  BY <2>1, <2>3, <3>3 DEF Texts!Free, e
  <2> QED  BY <2>1, <2>2, <2>3
<1>7. ASSUME NEW l \in held, NEW k \in Lists \ {l}, k \in held, dslist_concat(l, k)
      PROVE  Texts!Join(l, k) \/ (ended' = "crashed" /\ UNCHANGED Texts!vars)
  <2> DEFINE v == [w EXCEPT ![l] = ListJoined(w[l], w[k]), ![k] = << >>]
  <2>1. /\ broken' = broken
        /\ \/ ended' = "crashed" /\ UNCHANGED <<node, list, held>>
           \/ /\ Shape(node', list', held', v) /\ held' = held \ {k}
              /\ \A m \in DOMAIN node : node'[m].data = node[m].data
      BY <1>7, ConcatShape
  <2>2. CASE ended' = "crashed" /\ UNCHANGED <<node, list, held>>
      BY <2>1, <2>2, NothingTold
  <2>3. CASE /\ Shape(node', list', held', v) /\ held' = held \ {k}
             /\ \A m \in DOMAIN node : node'[m].data = node[m].data
    <3>1. ListsJoinAt(w, v, l, k)
        BY DEF ListsJoinAt
    <3>2. l \in Lists /\ k \in Lists /\ l # k
        BY <1>1, <1>7
    <3> HIDE DEF v
    <3>3. TextsJoinAt(TextsOf(node, w), TextsOf(node', v), l, k)
        BY <2>3, <3>1, <3>2, ConcatTold
    <3>4. ListTexts = TextsOf(node, w) /\ ListTexts' = TextsOf(node', v)
        BY <2>1, <2>3, ItemsAre, ItemsThen
    <3>5. TextsJoinAt(ListTexts, ListTexts', l, k)
        BY <3>3, <3>4
    <3> QED  BY <2>1, <2>3, <3>5 DEF TextsJoinAt, Texts!Join, ListTexts
  <2> QED  BY <2>1, <2>2, <2>3
<1>8. \A l \in Lists : \A d \in Data :
        (dslist_append(l, d) => Texts!AppendTo(l, d)) /\ (dslist_prepend(l, d) => Texts!PrependTo(l, d))
    BY AppendTold, PrependTold
<1>9. \A l \in held : \A d \in Data : \A all \in BOOLEAN :
        dslist_remove_few(l, d, all) => Texts!RemoveFrom(l, d) \/ (ended' = "hangs" /\ UNCHANGED Texts!vars)
    BY RemoveFewTold
<1>10. \A l \in held : \A k \in Lists \ {l} :
        dslist_copy(l, k) => Texts!CopyOf(l, k, Min({Len(Foreach(l)), Cardinality(FreeNodes)}))
    BY CopyTold
<1> QED  BY <1>3, <1>4, <1>5, <1>6, <1>7, <1>8, <1>9, <1>10, Zenon DEF AsNamed

\* So a step that breaks nothing is a call of TextLists, or nothing to it.
LEMMA ListStepTold ==
    ASSUME NEW w, Shape(node, list, held, w), ~broken, ~broken', ListNext
    PROVE  Texts!Call \/ UNCHANGED Texts!vars
<1> DEFINE now == IF broken THEN {} ELSE held
<1>1. AsNamed /\ now = held /\ held \subseteq Lists
    BY CallsTold DEF Shape
<1> HIDE DEF now
<1>2. ASSUME NEW l \in Lists, NEW d \in Data, Texts!AppendTo(l, d) \/ Texts!PrependTo(l, d) PROVE Texts!Call
    BY <1>2 DEF Texts!Call
<1>3. ASSUME NEW l \in held, \/ \E d \in Data : Texts!RemoveFrom(l, d)
                             \/ Texts!TurnRound(l) \/ Texts!Free(l)
      PROVE  Texts!Call
    BY <1>1, <1>3 DEF Texts!Call, now
<1>4. ASSUME NEW l \in held, NEW i \in DOMAIN Forward(l), Texts!RemoveBehind(l, i) PROVE Texts!Call
  <2>1. i \in DOMAIN ItemsOf(l)
    <3>1. l \in Lists
        BY <1>1
    <3>2. ItemsOf(l) = Foreach(l)
        BY <3>1 DEF ItemsOf
    <3> QED  BY <1>4, <3>2 DEF Foreach, Forward
  <2> QED  BY <1>1, <1>4, <2>1 DEF Texts!Call, now, ItemsOf
<1>5. ASSUME NEW l \in held, NEW k \in Lists \ {l}, dslist_copy(l, k) PROVE Texts!Call
  <2> DEFINE n == Min({Len(Foreach(l)), Cardinality(FreeNodes)})
  <2>1. Texts!CopyOf(l, k, n) /\ k \notin held /\ n \in 0..Len(ItemsOf(l))
      BY <1>5, CopyTold
  <2> HIDE DEF n
  <2> QED  BY <1>1, <2>1 DEF Texts!Call, now, ItemsOf
<1>6. ASSUME NEW l \in held, NEW k \in Lists \ {l}, k \in held, Texts!Join(l, k) PROVE Texts!Call
    BY <1>1, <1>6 DEF Texts!Call, now
<1>7. ASSUME NEW l \in held, NEW m \in ToSet(Chain(list[l].first, "next"))
      PROVE  \E i \in DOMAIN Forward(l) : m = Forward(l)[i]
    BY <1>7 DEF ToSet, Forward
<1>8. CASE \E l \in Lists : \E d \in Data : dslist_append(l, d) \/ dslist_prepend(l, d)
    BY <1>1, <1>2, <1>8 DEF AsNamed
<1>9. ASSUME NEW l \in held, \/ \E d \in Data : \E all \in BOOLEAN : dslist_remove_few(l, d, all)
                             \/ dslist_free(l) \/ dslist_reverse(l)
      PROVE  Texts!Call \/ UNCHANGED Texts!vars
    BY <1>1, <1>3, <1>9, Zenon DEF AsNamed
<1>10. ASSUME NEW l \in held, NEW m \in ToSet(Chain(list[l].first, "next")),
              (\E d \in Data : dslist_insert(l, m, d)) \/ dslist_remove_next(l, m)
       PROVE  Texts!Call
  <2>1. PICK i \in DOMAIN Forward(l) : m = Forward(l)[i]
      BY <1>7
  <2>2. CASE dslist_remove_next(l, m)
      BY <1>1, <1>4, <2>1, <2>2, Zenon DEF AsNamed
  <2>3. CASE \E d \in Data : dslist_insert(l, m, d)
    <3>1. PICK d \in Data : dslist_insert(l, m, d)
        BY <2>3
    <3>2. Texts!AppendTo(l, d) /\ l \in Lists
        BY <1>1, <2>1, <3>1, Zenon DEF AsNamed
    <3> QED  BY <1>2, <3>2
  <2> QED  BY <1>10, <2>2, <2>3
<1>11. ASSUME NEW l \in held, NEW k \in Lists \ {l}, dslist_copy(l, k) \/ (k \in held /\ dslist_concat(l, k))
       PROVE  Texts!Call \/ UNCHANGED Texts!vars
    BY <1>1, <1>5, <1>6, <1>11, Zenon DEF AsNamed
<1> QED  BY <1>8, <1>9, <1>10, <1>11, Zenon DEF ListNext

\* And the first state is that of TextLists.
LEMMA TextsBegin ==
    ASSUME ListInit
    PROVE  Texts!Init
<1>1. ListInv /\ ~broken /\ held = {}
    BY ListInvHolds DEF ListInit
<1>2. PICK w : Shape(node, list, held, w)
    BY <1>1, Zenon DEF ListInv
<1>3. ListTexts = TextsOf(node, w)
    BY <1>1, <1>2, ItemsAre
<1>4. \A l \in Lists : w[l] = << >>
    BY <1>1, <1>2, ListsAre
<1>5. TextsOf(node, w) = [l \in Lists |-> << >>]
    BY <1>4 DEF TextsOf, DataOf
<1> QED  BY <1>1, <1>3, <1>5 DEF Texts!Init, ListTexts

\* What dslist_foreach visits changes by each call as the name of the call says: appending and
\* prepending at that end, removing takes the first that is equal, or the one behind, a copy
\* holds as much of the list as there is memory for, whatever was called before.
THEOREM ListsImplementTexts == ListSpec => ImplementsLists
<1>1. ListInit => ListInv /\ Texts!Init
    BY ListInvHolds, TextsBegin
<1>2. ListInv /\ [ListNext]_listVars => ListInv'
    BY ListInvKept
<1>3. ListInv /\ [ListNext]_listVars => [~broken /\ Texts!Next]_(Texts!vars)
  <2> SUFFICES ASSUME ListInv, [ListNext]_listVars PROVE [~broken /\ Texts!Next]_(Texts!vars)
      OBVIOUS
  <2>1. CASE ListNext
    <3>1. ~broken
        BY <2>1 DEF ListNext
    <3>2. PICK w : Shape(node, list, held, w)
        BY <3>1, Zenon DEF ListInv
    <3>3. ~broken' => Texts!Call \/ UNCHANGED Texts!vars
        BY <2>1, <3>1, <3>2, ListStepTold
    <3> QED  BY <3>1, <3>3 DEF Texts!Next
  <2>2. CASE UNCHANGED listVars
    <3>1. UNCHANGED Texts!vars
      <4>1. UNCHANGED <<node, list, held>> /\ broken' = broken
          BY <2>2 DEF listVars
      <4>2. CASE broken
          BY <4>1, <4>2 DEF Texts!vars
      <4>3. CASE ~broken
          BY <4>1, <4>3, NothingTold, Zenon DEF ListInv
      <4> QED  BY <4>2, <4>3
    <3> QED  BY <3>1
  <2> QED  BY <2>1, <2>2
<1>4. ListInv /\ [ListNext]_listVars => [broken' \/ AsNamed]_listVars
  <2> SUFFICES ASSUME ListInv, ListNext, ~broken' PROVE AsNamed
      OBVIOUS
  <2>1. ~broken
      BY DEF ListNext
  <2>2. PICK w : Shape(node, list, held, w)
      BY <2>1, Zenon DEF ListInv
  <2> QED  BY <2>1, <2>2, CallsTold
<1> QED  BY <1>1, <1>2, <1>3, <1>4, PTL DEF ListSpec, ImplementsLists, Texts!Spec

-----------------------------------------------------------------------------
(* Both containers. *)

\* The containers side by side keep the invariants of each.
LEMMA ContainersInvariant == MCSpec => [](ChainInv /\ ListInv)
<1>1. MCInit => ChainInv /\ ListInv
    BY InitChainInv, ListInvHolds DEF MCInit
<1>2. ChainInv /\ ListInv /\ [MCNext]_<<tableVars, listVars>> => (ChainInv /\ ListInv)'
  <2> SUFFICES ASSUME ChainInv, ListInv, [MCNext]_<<tableVars, listVars>> PROVE ChainInv' /\ ListInv'
      OBVIOUS
  <2>1. [TableNext]_tableVars /\ (ListNext \/ UNCHANGED listVars)
      BY DEF MCNext
  <2> QED  BY <2>1, ChainInvStep, ListInvKept
<1> QED  BY <1>1, <1>2, PTL DEF MCSpec

\* Whatever is done to the table and the lists: every entry is where lookups search it, and
\* both directions of every list, its ends, its counter and all lookups agree, unless the
\* last call was one of those that break a list.
THEOREM ContainersSound == MCSpec => []ChainsAreSound
<1>1. ChainInv /\ ListInv => ChainsAreSound
    BY ChainsAreWellFormed, ListInvTells DEF ChainsAreSound
<1> QED  BY <1>1, ContainersInvariant, PTL
=============================================================================
