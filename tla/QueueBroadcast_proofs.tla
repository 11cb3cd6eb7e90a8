----------------------- MODULE QueueBroadcast_proofs ------------------------
(***************************************************************************)
(* Proofs about QueueBroadcast: every listener prints a gapless run of the *)
(* lines, also when the sender is killed and started again, and a sender   *)
(* that is not killed serves its listeners to the end: to them it is an    *)
(* atomic multicast.                                                       *)
(***************************************************************************)
EXTENDS QueueBroadcast, Integers, FiniteSetTheorems, SequenceTheorems, WellFoundedInduction,
        TLAPS

-----------------------------------------------------------------------------
(* What msgrcv takes from a queue and leaves of it, and what msgsnd appends. *)

\* A set of numbers has a least one, and Min chooses it.
LEMMA MinIsLeast ==
    ASSUME NEW I \in SUBSET Nat, I # {}
    PROVE  Min(I) \in I /\ \A y \in I : Min(I) <= y
<1>1. IsWellFoundedOn(OpToRel(<, Nat), Nat)
    BY NatLessThanWellFounded
<1> DEFINE Less == OpToRel(<, Nat)
<1>2. \A x, y \in Nat : <<y, x>> \in Less <=> y < x
    BY Zenon DEF OpToRel
<1>3. IsWellFoundedOn(Less, Nat)
    BY <1>1
<1> HIDE DEF Less
<1>4. \E x \in I : \A y \in I : ~(<<y, x>> \in Less)
    BY <1>3, WFMin, Zenon
<1>5. \E x \in I : \A y \in I : ~(y < x)
    BY <1>2, <1>4, Zenon
<1>6. \E x \in I : \A y \in I : x <= y
    BY <1>5
<1> QED  BY <1>6, Zenon DEF Min

\* msgrcv finds the first message of the type, or none.
LEMMA PositionIsFirst ==
    ASSUME NEW S, NEW msgs \in Seq(S), NEW t
    PROVE  /\ Position(msgs, t) \in 0..Len(msgs)
           /\ Position(msgs, t) > 0 => t \in {ANY_TYPE, msgs[Position(msgs, t)].mtype}
           /\ Position(msgs, t) > 0 =>
                \A i \in 1..(Position(msgs, t) - 1) : t \notin {ANY_TYPE, msgs[i].mtype}
           /\ Position(msgs, t) = 0 =>
                \A i \in 1..Len(msgs) : t \notin {ANY_TYPE, msgs[i].mtype}
<1> DEFINE I == {i \in 1..Len(msgs) : t \in {ANY_TYPE, msgs[i].mtype}}
<1>1. Len(msgs) \in Nat /\ I \in SUBSET Nat
    OBVIOUS
<1>2. Position(msgs, t) = IF I # {} THEN Min(I) ELSE 0
    BY Zenon DEF Position, SelectInSeq
<1>3. I # {} => Min(I) \in I /\ \A y \in I : Min(I) <= y
    BY <1>1, MinIsLeast
<1> DEFINE m == Min(I)
<1>4. CASE I = {}
    BY <1>1, <1>2, <1>4
<1>5. CASE I # {}
  <2>1. m \in I /\ \A y \in I : m <= y
    BY <1>3, <1>5
  <2>2. Position(msgs, t) = m
    BY <1>2, <1>5
  <2> HIDE DEF m
  <2>3. \A i \in 1..(m - 1) : i \notin I
    BY <1>1, <2>1
  <2> QED  BY <1>1, <2>1, <2>2, <2>3
<1> QED  BY <1>4, <1>5

\* What RemoveAt leaves: the messages behind the place move up by one.
LEMMA RemoveAtProperties ==
    ASSUME NEW S, NEW msgs \in Seq(S), NEW p \in 1..Len(msgs)
    PROVE  /\ RemoveAt(msgs, p) \in Seq(S)
           /\ Len(RemoveAt(msgs, p)) = Len(msgs) - 1
           /\ \A i \in 1..(Len(msgs) - 1) :
                RemoveAt(msgs, p)[i] = IF i < p THEN msgs[i] ELSE msgs[i + 1]
<1> DEFINE front == SubSeq(msgs, 1, p - 1)
           back == SubSeq(msgs, p + 1, Len(msgs))
<1>1. Len(msgs) \in Nat /\ \A i \in 1..Len(msgs) : msgs[i] \in S
    BY ElementOfSeq, LenProperties
<1>2. /\ front \in Seq(S) /\ Len(front) = p - 1
      /\ \A i \in 1..(p - 1) : front[i] = msgs[i]
    BY <1>1
<1>3. /\ back \in Seq(S) /\ Len(back) = Len(msgs) - p
      /\ \A i \in 1..(Len(msgs) - p) : back[i] = msgs[p + i]
    BY <1>1
<1>4. RemoveAt(msgs, p) = front \o back
    BY DEF RemoveAt
<1> HIDE DEF front, back
<1>4a. /\ front \o back \in Seq(S)
      /\ Len(front \o back) = Len(front) + Len(back)
      /\ \A i \in 1..(Len(front) + Len(back)) :
           (front \o back)[i] = IF i <= Len(front) THEN front[i] ELSE back[i - Len(front)]
    BY <1>2, <1>3, ConcatProperties
<1>5. /\ front \o back \in Seq(S)
      /\ Len(front \o back) = Len(msgs) - 1
    BY <1>1, <1>2, <1>3, <1>4a
<1>6. ASSUME NEW i \in 1..(Len(msgs) - 1)
      PROVE  (front \o back)[i] = IF i < p THEN msgs[i] ELSE msgs[i + 1]
  <2>1. i \in 1..(Len(front) + Len(back))
      BY <1>1, <1>2, <1>3
  <2>2. CASE i < p
      BY <2>1, <2>2, <1>1, <1>2, <1>3, <1>4a
  <2>3. CASE ~(i < p)
    <3>1. i - Len(front) \in 1..(Len(msgs) - p) /\ p + (i - Len(front)) = i + 1
        BY <2>3, <1>1, <1>2
    <3> QED  BY <3>1, <2>1, <2>3, <1>1, <1>2, <1>3, <1>4a
  <2> QED  BY <2>2, <2>3
<1> QED  BY <1>4, <1>5, <1>6

\* A receive by type takes a first message of that type and leaves the others
\* in their order.
LEMMA ReceiveTyped ==
    ASSUME NEW S, NEW msgs \in Seq(S), NEW t, Arrived(msgs, t)
    PROVE  \E p \in 1..Len(msgs) :
             /\ t \in {ANY_TYPE, msgs[p].mtype}
             /\ \A i \in 1..(p - 1) : t \notin {ANY_TYPE, msgs[i].mtype}
             /\ Message(msgs, t) = msgs[p] /\ msgs[p] \in S
             /\ Rest(msgs, t) \in Seq(S)
             /\ Len(Rest(msgs, t)) = Len(msgs) - 1
             /\ \A i \in 1..(Len(msgs) - 1) :
                  Rest(msgs, t)[i] = IF i < p THEN msgs[i] ELSE msgs[i + 1]
<1> DEFINE p == Position(msgs, t)
<1>1. p \in 0..Len(msgs) /\ p > 0 /\ Len(msgs) \in Nat
    BY PositionIsFirst, LenProperties DEF Arrived
<1>2. p \in 1..Len(msgs)
    BY <1>1
<1>3. /\ t \in {ANY_TYPE, msgs[p].mtype}
      /\ \A i \in 1..(p - 1) : t \notin {ANY_TYPE, msgs[i].mtype}
    BY <1>1, PositionIsFirst
<1>4. Message(msgs, t) = msgs[p] /\ msgs[p] \in S
    BY <1>2, ElementOfSeq DEF Message
<1>5. Rest(msgs, t) = RemoveAt(msgs, p)
    BY DEF Rest
<1> HIDE DEF p
<1>6. /\ Rest(msgs, t) \in Seq(S)
      /\ Len(Rest(msgs, t)) = Len(msgs) - 1
      /\ \A i \in 1..(Len(msgs) - 1) :
           Rest(msgs, t)[i] = IF i < p THEN msgs[i] ELSE msgs[i + 1]
    BY <1>2, <1>5, RemoveAtProperties
<1> QED  BY <1>2, <1>3, <1>4, <1>6

\* What msgsnd appends is behind all that was there.
LEMMA SentLast ==
    ASSUME NEW S, NEW msgs \in Seq(S), NEW m \in S
    PROVE  /\ Append(msgs, m) \in Seq(S)
           /\ Len(msgs) \in Nat
           /\ Len(Append(msgs, m)) = Len(msgs) + 1
           /\ \A i \in 1..Len(msgs) : Append(msgs, m)[i] = msgs[i]
           /\ Append(msgs, m)[Len(msgs) + 1] = m
BY AppendProperties, LenProperties

-----------------------------------------------------------------------------

MsgTypes == {"MSG_TYPE_REG", "MSG_TYPE_END", "MSG_TYPE_END_ANSWER"}
Messages ==
    [mtype : Receivers, mtext : Nat]
        \cup [mtype : {"MSG_TYPE_REG", "MSG_TYPE_END_ANSWER"}, pid : Receivers]

TypeOK ==
    /\ exists \in BOOLEAN /\ queue \in Seq(Messages)
    /\ sPc \in {"msgget", "fgets", "addListeners", "delListeners", "sendMessage", "waitAnswers",
                "closeQueue", "abort", "done", "failed"}
    /\ lines \in Nat /\ atEof \in BOOLEAN
    /\ pids \in Seq(Receivers) /\ k \in Nat \ {0}
    /\ rPc \in [Receivers -> {"msgget", "regInQueue", "getMessages", "leaveQueue",
                              "done", "failed", "killed"}]
    /\ printed \in [Receivers -> Seq(Nat)]
    /\ served \subseteq Receivers
    /\ senderKills \in Nat /\ receiverKills \in Nat

\* The messages of a receiver: its registration, its lines, its answer.
RegOf(r, m) == m.mtype = "MSG_TYPE_REG" /\ m.pid = r
LineTo(r, m) == m.mtype = r
AnswerOf(r, m) == m.mtype = "MSG_TYPE_END_ANSWER" /\ m.pid = r

Working == {"fgets", "addListeners", "delListeners", "sendMessage", "waitAnswers"}
PlaceInv ==
    /\ ~exists => queue = << >>
    /\ sPc \in Working \cup {"closeQueue", "abort"} => exists
    /\ atEof => sPc \notin {"msgget", "fgets"}
    /\ sPc \in {"waitAnswers", "closeQueue", "done"} => atEof
    /\ sPc = "msgget" => pids = << >>
    /\ sPc \in {"addListeners", "delListeners", "sendMessage"} /\ ~atEof => lines > 0
    /\ \A i, j \in 1..Len(pids) : pids[i] = pids[j] => i = j
    /\ Listeners \subseteq served

\* A receiver registers once, and is served only when that was read.
RegInv ==
    \A r \in Receivers :
        /\ rPc[r] \in {"msgget", "regInQueue"} =>
             /\ r \notin served
             /\ \A i \in 1..Len(queue) : ~RegOf(r, queue[i])
        /\ r \notin served =>
             /\ printed[r] = << >> /\ rPc[r] \notin {"leaveQueue", "done"}
             /\ \A i \in 1..Len(queue) : ~LineTo(r, queue[i])
        /\ \A i \in 1..Len(queue) : RegOf(r, queue[i]) => r \notin served
        /\ \A i, j \in 1..Len(queue) : RegOf(r, queue[i]) /\ RegOf(r, queue[j]) => i = j

\* Line n was sent to r: it is printed or in the queue.
Has(r, n) ==
    \/ \E i \in 1..Len(printed[r]) : printed[r][i] = n
    \/ \E i \in 1..Len(queue) : LineTo(r, queue[i]) /\ queue[i].mtext = n /\ n # EMPTY

\* The lines of a receiver are in their order, the empty message after them, and
\* there is no gap between them.
Lines(r) == {i \in 1..Len(queue) : LineTo(r, queue[i])}
LineOf(r) ==
    /\ \A i \in 1..Len(printed[r]) : printed[r][i] # EMPTY
    /\ \A i, j \in 1..Len(printed[r]) : i < j => printed[r][i] < printed[r][j]
    /\ \A i \in 1..Len(printed[r]), j \in Lines(r) :
         queue[j].mtext # EMPTY => printed[r][i] < queue[j].mtext
    /\ \A i, j \in Lines(r) : i < j =>
         queue[i].mtext # EMPTY /\ (queue[j].mtext # EMPTY => queue[i].mtext < queue[j].mtext)
    /\ \A n, m \in Nat : n < m /\ Has(r, n) /\ Has(r, m) => Has(r, n + 1)
LineInv == \A r \in Receivers : LineOf(r)

\* The text at hand is not yet sent to listener r.
Unsent(r) ==
    \/ sPc \in {"addListeners", "delListeners"}
    \/ sPc = "sendMessage" /\ \E j \in k..Len(pids) : pids[j] = r

\* A listener that was sent line n was sent the last line before the one at hand.
DueFor(r, n) ==
    IF Unsent(r) /\ ~atEof THEN n < lines /\ Has(r, lines - 1) ELSE n <= lines /\ Has(r, lines)
DueInv ==
    sPc \in Working => \A r \in Listeners : \A n \in Nat : Has(r, n) => DueFor(r, n)

\* After the empty message a listener gets nothing, and it answers once.
Answers(r) == {i \in 1..Len(queue) : AnswerOf(r, queue[i])}
EndOf(r) ==
    /\ \A i \in Lines(r) :
         /\ rPc[r] \notin {"leaveQueue", "done"}
         /\ queue[i].mtext = EMPTY /\ r \in Listeners => atEof /\ ~Unsent(r)
    /\ rPc[r] \in {"leaveQueue", "done"} /\ r \in Listeners => atEof /\ ~Unsent(r)
    /\ Answers(r) # {} => rPc[r] = "done"
    /\ \A i, j \in Answers(r) : i = j
EndInv == \A r \in Receivers : EndOf(r)

\* Before a restart the sender keeps its listeners until they have answered.
KeptInv ==
    senderKills = 0 =>
        /\ sPc # "abort"
        /\ \A r \in Receivers :
             Lines(r) # {} \/ Answers(r) # {} \/ rPc[r] = "leaveQueue" => r \in Listeners
        /\ \A r \in served \ Listeners :
             /\ rPc[r] = "done" /\ sPc \in {"waitAnswers", "closeQueue", "done"}
             /\ printed[r] # << >> => LastPrinted(r) = lines
        /\ sPc \in {"closeQueue", "done"} => pids = << >>

ListenersInv ==
    TypeOK /\ PlaceInv /\ RegInv /\ LineInv /\ DueInv /\ EndInv /\ KeptInv

-----------------------------------------------------------------------------
(* The operators. *)

\* The listeners are those the array has a place for.
LEMMA ListenerAt == pids \in Seq(Receivers) =>
    \A r : r \in Listeners <=> \E i \in 1..Len(pids) : pids[i] = r
BY LenProperties DEF Listeners, ToSet

\* removeItem takes out the first place that has the item.
LEMMA RemoveFirstAt ==
    ASSUME NEW S, NEW list \in Seq(S), NEW x, Contains(list, x)
    PROVE  \E p \in 1..Len(list) : list[p] = x /\ RemoveFirst(list, x) = RemoveAt(list, p)
<1> DEFINE I == {i \in 1..Len(list) : list[i] = x}
<1>1. Len(list) \in Nat /\ I \in SUBSET Nat /\ I # {}
    BY LenProperties DEF Contains
<1>2. RemoveFirst(list, x) = RemoveAt(list, Min(I))
  <2>1. SelectInSeq(list, LAMBDA v : v = x) = Min(I)
      BY <1>1, Zenon DEF SelectInSeq
  <2>2. \E i \in 1..Len(list) : list[i] = x
      BY <1>1
  <2> QED  BY <2>1, <2>2, Zenon DEF RemoveFirst
<1>3. \E p \in 1..Len(list) : list[p] = x /\ RemoveFirst(list, x) = RemoveAt(list, p)
  <2>1. Min(I) \in I
      BY <1>1, MinIsLeast
  <2> HIDE DEF I
  <2>2. \A p : p \in I => p \in 1..Len(list) /\ list[p] = x
      BY DEF I
  <2> QED  BY <1>2, <2>1, <2>2, Zenon
<1> QED  BY <1>3

\* removeItem leaves an array of listeners.
LEMMA RemoveFirstTyped ==
    ASSUME NEW S, NEW list \in Seq(S), NEW x, Contains(list, x)
    PROVE  RemoveFirst(list, x) \in Seq(S)
BY RemoveFirstAt, RemoveAtProperties

\* removeItem takes one listener out of an array that has each once.
LEMMA RemoveFirstProperties ==
    ASSUME NEW S, NEW list \in Seq(S), NEW x, Contains(list, x),
           \A i, j \in 1..Len(list) : list[i] = list[j] => i = j
    PROVE  LET rest == RemoveFirst(list, x)
           IN  /\ rest \in Seq(S)
               /\ \A i, j \in 1..Len(rest) : rest[i] = rest[j] => i = j
               /\ ToSet(rest) = ToSet(list) \ {x}
<1> DEFINE rest == RemoveFirst(list, x)
<1>1. Len(list) \in Nat
    BY LenProperties
<1>3. PICK p \in 1..Len(list) : list[p] = x /\ RemoveFirst(list, x) = RemoveAt(list, p)
    BY RemoveFirstAt
<1>4. /\ rest \in Seq(S) /\ Len(rest) = Len(list) - 1
      /\ \A i \in 1..(Len(list) - 1) : rest[i] = IF i < p THEN list[i] ELSE list[i + 1]
  <2>1. rest = RemoveAt(list, p)
      BY <1>3
  <2> HIDE DEF rest
  <2> QED  BY <2>1, RemoveAtProperties
<1> HIDE DEF rest
<1>5. \A i, j \in 1..Len(rest) : rest[i] = rest[j] => i = j
  <2> SUFFICES ASSUME NEW i \in 1..Len(rest), NEW j \in 1..Len(rest), rest[i] = rest[j] PROVE i = j
      OBVIOUS
  <2> DEFINE f == [n \in 1..Len(rest) |-> IF n < p THEN n ELSE n + 1]
  <2>1. /\ f[i] \in 1..Len(list) /\ f[j] \in 1..Len(list)
        /\ rest[i] = list[f[i]] /\ rest[j] = list[f[j]]
      BY <1>1, <1>4
  <2>2. f[i] = f[j]
      BY <2>1
  <2> QED  BY <1>1, <1>4, <2>2
<1>6. ToSet(rest) = ToSet(list) \ {x}
  <2>1. ASSUME NEW y PROVE (\E i \in 1..Len(rest) : rest[i] = y) <=> y # x /\ \E i \in 1..Len(list) : list[i] = y
    <3>1. ASSUME NEW i \in 1..Len(rest), rest[i] = y
          PROVE  y # x /\ \E n \in 1..Len(list) : list[n] = y
      <4>1. CASE i < p
        <5>1. i \in 1..Len(list) /\ list[i] = y /\ i # p
            BY <1>1, <1>4, <3>1, <4>1
        <5> QED  BY <5>1, <1>3
      <4>2. CASE ~(i < p)
        <5>1. i + 1 \in 1..Len(list) /\ list[i + 1] = y /\ i + 1 # p
            BY <1>1, <1>4, <3>1, <4>2
        <5> QED  BY <5>1, <1>3
      <4> QED  BY <4>1, <4>2
    <3>2. ASSUME NEW i \in 1..Len(list), list[i] = y, y # x
          PROVE  \E n \in 1..Len(rest) : rest[n] = y
      <4>1. CASE i < p
          BY <1>1, <1>4, <3>2, <4>1
      <4>2. CASE ~(i < p)
        <5>1. i - 1 \in 1..Len(rest) /\ rest[i - 1] = list[i]
            BY <1>1, <1>3, <1>4, <3>2, <4>2
        <5> QED  BY <3>2, <5>1
      <4> QED  BY <4>1, <4>2
    <3> QED  BY <3>1, <3>2
  <2>2. ASSUME NEW seq \in Seq(S), NEW y PROVE y \in ToSet(seq) <=> \E i \in 1..Len(seq) : seq[i] = y
    <3>1. DOMAIN seq = 1..Len(seq)
        BY LenProperties
    <3> QED  BY <3>1 DEF ToSet
  <2>3. ASSUME NEW y PROVE y \in ToSet(rest) <=> y \in ToSet(list) \ {x}
      BY <1>4, <2>1, <2>2
  <2> QED  BY <2>3
<1> QED  BY <1>4, <1>5, <1>6 DEF rest

\* An array that has each listener once has as many places as listeners.
LEMMA DistinctCounted ==
    ASSUME NEW S, NEW list \in Seq(S), \A i, j \in 1..Len(list) : list[i] = list[j] => i = j
    PROVE  Len(list) = Cardinality(ToSet(list))
<1>1. Len(list) \in Nat /\ DOMAIN list = 1..Len(list)
    BY LenProperties
<1>2. ToSet(list) = {list[i] : i \in 1..Len(list)}
    BY <1>1 DEF ToSet
<1>3. list \in Bijection(1..Len(list), ToSet(list))
  <2>1. list \in [1..Len(list) -> ToSet(list)]
      BY <1>1, <1>2
  <2> QED  BY <2>1, <1>2 DEF Bijection, Injection, IsInjective, Surjection
<1> QED  BY <1>1, <1>3, FS_CountingElements DEF ExistsBijection

\* What a receive by type leaves, as a map from its places to those before.
LEMMA TakenQueue ==
    ASSUME TypeOK, NEW t \in Receivers \cup MsgTypes, Arrived(queue, t), queue' = Rest(queue, t)
    PROVE  \E p \in 1..Len(queue) : \E f \in [1..Len(queue') -> 1..Len(queue)] :
             /\ queue[p].mtype = t /\ Message(queue, t) = queue[p]
             /\ \A i \in 1..(p - 1) : queue[i].mtype # t
             /\ Len(queue') = Len(queue) - 1
             /\ \A j \in 1..Len(queue') : queue'[j] = queue[f[j]] /\ f[j] # p
             /\ \A i, j \in 1..Len(queue') : i < j => f[i] < f[j]
             /\ \A i \in 1..Len(queue) : i # p => \E j \in 1..Len(queue') : f[j] = i
<1>1. PICK p \in 1..Len(queue) :
             /\ t \in {ANY_TYPE, queue[p].mtype}
             /\ \A i \in 1..(p - 1) : t \notin {ANY_TYPE, queue[i].mtype}
             /\ Message(queue, t) = queue[p]
             /\ Len(queue') = Len(queue) - 1
             /\ \A i \in 1..(Len(queue) - 1) :
                  queue'[i] = IF i < p THEN queue[i] ELSE queue[i + 1]
  <2>1. queue \in Seq(Messages)
      BY DEF TypeOK
  <2> QED  BY <2>1, ReceiveTyped
<1>2. t # ANY_TYPE
    BY TypesAssumption DEF MsgTypes
<1> DEFINE f == [j \in 1..Len(queue') |-> IF j < p THEN j ELSE j + 1]
<1>3. Len(queue) \in Nat
    BY LenProperties DEF TypeOK
<1>4. /\ f \in [1..Len(queue') -> 1..Len(queue)]
      /\ \A j \in 1..Len(queue') : queue'[j] = queue[f[j]] /\ f[j] # p
      /\ \A i, j \in 1..Len(queue') : i < j => f[i] < f[j]
    BY <1>1, <1>3
<1>5. ASSUME NEW i \in 1..Len(queue), i # p PROVE \E j \in 1..Len(queue') : f[j] = i
  <2>1. CASE i < p
      BY <1>1, <1>3, <2>1
  <2>2. CASE i > p
    <3>1. i - 1 \in 1..Len(queue') /\ f[i - 1] = i
        BY <1>1, <1>3, <2>2
    <3> QED  BY <3>1
  <2> QED  BY <1>3, <1>5, <2>1, <2>2
<1> HIDE DEF f
<1>6. queue[p].mtype = t /\ \A i \in 1..(p - 1) : queue[i].mtype # t
    BY <1>1, <1>2
<1> QED  BY <1>1, <1>4, <1>5, <1>6, ZenonT(30)

\* Nothing arrives from an empty queue.
LEMMA NothingArrived ==
    ASSUME queue \in Seq(Messages), NEW t, Len(queue) = 0
    PROVE  ~Arrived(queue, t)
<1>1. Position(queue, t) \in 0..Len(queue)
    BY PositionIsFirst
<1> QED  BY <1>1 DEF Arrived

-----------------------------------------------------------------------------
(* Initial states, types and places. *)

\* Nothing is sent, printed or served when the programs start.
LEMMA InitListeners == Init => ListenersInv
<1> SUFFICES ASSUME Init PROVE ListenersInv
    OBVIOUS
<1> USE DEF Init
<1>1. Len(queue) = 0 /\ Len(pids) = 0 /\ \A r \in Receivers : Len(printed[r]) = 0
    OBVIOUS
<1>2. TypeOK
  <2>1. /\ queue \in Seq(Messages) /\ pids \in Seq(Receivers)
        /\ printed \in [Receivers -> Seq(Nat)]
      BY EmptySeq
  <2>2. exists \in BOOLEAN /\ atEof \in BOOLEAN
      BY Zenon
  <2>3. /\ sPc = "msgget" /\ lines \in Nat /\ k \in Nat \ {0} /\ served \subseteq Receivers
        /\ senderKills \in Nat /\ receiverKills \in Nat
        /\ rPc \in [Receivers -> {"msgget", "regInQueue", "getMessages", "leaveQueue",
                                  "done", "failed", "killed"}]
      OBVIOUS
  <2> QED  BY <2>1, <2>2, <2>3 DEF TypeOK
<1>3. Listeners = {}
  <2>1. DOMAIN pids = {}
      OBVIOUS
  <2> QED  BY <2>1 DEF Listeners, ToSet
<1>4. PlaceInv /\ RegInv /\ EndInv
    BY <1>1, <1>3 DEF PlaceInv, RegInv, EndInv, EndOf, Lines, Answers, Working
<1>5. LineInv
    BY <1>1 DEF LineInv, LineOf, Lines, Has
<1>6. DueInv
    BY DEF DueInv, Working
<1>7. KeptInv
    BY <1>1, <1>3 DEF KeptInv, Lines, Answers
<1> QED  BY <1>2, <1>4, <1>5, <1>6, <1>7 DEF ListenersInv

\* Every step keeps the types.
LEMMA TypeStep == TypeOK /\ [Next]_vars => TypeOK'
<1> SUFFICES ASSUME TypeOK, [Next]_vars PROVE TypeOK'
    OBVIOUS
<1> USE DEF TypeOK
<1>1. CASE UNCHANGED vars
    BY <1>1 DEF vars, senderVars, receiverVars, killVars
<1>2. CASE CreateQueue
    BY <1>2 DEF CreateQueue, receiverVars, killVars
<1>3. CASE ReadLine
  <2>1. atEof' = TRUE \/ atEof' = atEof
      BY <1>3 DEF ReadLine
  <2>2. atEof' \in BOOLEAN
      BY <2>1, Zenon
  <2>3. lines' \in Nat /\ sPc' = "addListeners"
      BY <1>3 DEF ReadLine
  <2> QED  BY <1>3, <2>2, <2>3 DEF ReadLine, receiverVars, killVars
<1>4. CASE AddListener
  <2>1. PICK p \in 1..Len(queue) :
          queue[p].mtype = "MSG_TYPE_REG" /\ Message(queue, "MSG_TYPE_REG") = queue[p]
      BY <1>4, TakenQueue DEF AddListener, MsgTypes
  <2>2. queue[p] \in Messages /\ queue[p].pid \in Receivers
      BY <2>1, ElementOfSeq, TypesAssumption DEF Messages
  <2>3. Rest(queue, "MSG_TYPE_REG") \in Seq(Messages)
    <3>1. queue \in Seq(Messages) /\ Arrived(queue, "MSG_TYPE_REG")
        BY <1>4 DEF AddListener
    <3> HIDE DEF TypeOK
    <3> QED  BY <3>1, ReceiveTyped
  <2>4. pids' \in Seq(Receivers) /\ served' \subseteq Receivers
      BY <1>4, <2>1, <2>2, AppendProperties DEF AddListener
  <2> QED  BY <1>4, <2>3, <2>4 DEF AddListener, receiverVars, killVars
<1>5. CASE AddDone \/ DelDone \/ SendDone \/ AnswersDone
    BY <1>5 DEF AddDone, DelDone, SendDone, AnswersDone, receiverVars, killVars
<1>6. CASE SendToListener
  <2>1. pids[k] \in Receivers /\ Text \in Nat
      BY <1>6, ElementOfSeq DEF SendToListener, Text, EMPTY
  <2>2. [mtype |-> pids[k], mtext |-> Text] \in Messages
      BY <2>1 DEF Messages
  <2>3. queue' \in Seq(Messages)
      BY <1>6, <2>2, AppendProperties DEF SendToListener
  <2> QED  BY <1>6, <2>3 DEF SendToListener, receiverVars, killVars
<1>7. CASE TakeAnswer
  <2>1. Rest(queue, "MSG_TYPE_END_ANSWER") \in Seq(Messages)
    <3>1. queue \in Seq(Messages) /\ Arrived(queue, "MSG_TYPE_END_ANSWER")
        BY <1>7 DEF TakeAnswer
    <3> HIDE DEF TypeOK
    <3> QED  BY <3>1, ReceiveTyped
  <2>2. pids' \in Seq(Receivers)
    <3> DEFINE pid == Message(queue, "MSG_TYPE_END_ANSWER").pid
    <3>1. \/ UNCHANGED pids
          \/ pids' = RemoveFirst(pids, pid)
        BY <1>7 DEF TakeAnswer
    <3>2. RemoveFirst(pids, pid) \in Seq(Receivers)
      <4> HIDE DEF pid
      <4>1. CASE Contains(pids, pid)
          BY <4>1, RemoveFirstTyped
      <4>2. CASE ~Contains(pids, pid)
          BY <4>2, Zenon DEF RemoveFirst, Contains
      <4> QED  BY <4>1, <4>2
    <3> QED  BY <3>1, <3>2
  <2> QED  BY <1>7, <2>1, <2>2 DEF TakeAnswer, receiverVars, killVars
<1>8. CASE CloseQueue
    BY <1>8, EmptySeq DEF CloseQueue, receiverVars, killVars
<1>9. CASE KillSender
  <2>1. pids' \in Seq(Receivers) /\ senderKills' \in Nat /\ k' \in Nat \ {0} /\ sPc' = "msgget"
      BY <1>9, EmptySeq DEF KillSender
  <2>2. atEof' \in BOOLEAN
      BY <1>9, Zenon DEF KillSender
  <2> QED  BY <1>9, <2>1, <2>2 DEF KillSender, receiverVars
<1>10. ASSUME NEW r \in Receivers, GetQueue(r) \/ ReceiverFails(r) \/ KillReceiver(r)
       PROVE  TypeOK'
  <2>1. PICK to \in {"regInQueue", "failed", "killed"} : rPc' = [rPc EXCEPT ![r] = to]
      BY <1>10 DEF GetQueue, ReceiverFails, KillReceiver, Goto
  <2>2. receiverKills' \in Nat /\ senderKills' \in Nat
      BY <1>10 DEF GetQueue, ReceiverFails, KillReceiver, killVars
  <2> QED  BY <1>10, <2>1, <2>2 DEF GetQueue, ReceiverFails, KillReceiver, senderVars
<1>11. ASSUME NEW r \in Receivers, Register(r) \/ LeaveQueue(r) PROVE TypeOK'
  <2>1. PICK m \in Messages : queue' = Append(queue, m)
      BY <1>11 DEF Register, LeaveQueue, SendPid, Messages
  <2>2. queue' \in Seq(Messages)
      BY <2>1, AppendProperties
  <2>3. PICK to \in {"getMessages", "done"} : rPc' = [rPc EXCEPT ![r] = to]
      BY <1>11 DEF Register, LeaveQueue, Goto
  <2> QED  BY <1>11, <2>2, <2>3 DEF Register, LeaveQueue, SendPid, senderVars, killVars
<1>12. ASSUME NEW r \in Receivers, GetMessage(r) PROVE TypeOK'
  <2>1. PICK p \in 1..Len(queue) : queue[p].mtype = r /\ Message(queue, r) = queue[p]
      BY <1>12, TakenQueue DEF GetMessage
  <2>2. queue[p] \in Messages /\ queue[p].mtext \in Nat
      BY <2>1, ElementOfSeq, TypesAssumption DEF Messages
  <2>3. Rest(queue, r) \in Seq(Messages)
    <3>1. queue \in Seq(Messages) /\ Arrived(queue, r)
        BY <1>12 DEF GetMessage
    <3> HIDE DEF TypeOK
    <3> QED  BY <3>1, ReceiveTyped
  <2>4. printed' \in [Receivers -> Seq(Nat)]
    <3>1. Append(printed[r], queue[p].mtext) \in Seq(Nat)
      <4>1. printed[r] \in Seq(Nat)
          OBVIOUS
      <4> HIDE DEF TypeOK
      <4> QED  BY <2>2, <4>1, AppendProperties
    <3>2. \/ printed' = printed
          \/ printed' = [printed EXCEPT ![r] = Append(printed[r], queue[p].mtext)]
        BY <1>12, <2>1 DEF GetMessage
    <3> QED  BY <3>1, <3>2
  <2>5. rPc' = rPc \/ rPc' = [rPc EXCEPT ![r] = "leaveQueue"]
      BY <1>12 DEF GetMessage, Goto
  <2> QED  BY <1>12, <2>3, <2>4, <2>5 DEF GetMessage, senderVars, killVars
<1> QED
    BY <1>1, <1>2, <1>3, <1>4, <1>5, <1>6, <1>7, <1>8, <1>9, <1>10, <1>11, <1>12
       DEF Next, SenderStep, ReceiverStep

-----------------------------------------------------------------------------
(* Registrations. *)

\* The message a registration carries is of somebody who is not served yet.
LEMMA RegisteredIsNew ==
    ASSUME TypeOK, RegInv, Arrived(queue, "MSG_TYPE_REG"), queue' = Rest(queue, "MSG_TYPE_REG")
    PROVE  LET pid == Message(queue, "MSG_TYPE_REG").pid
           IN  /\ pid \in Receivers \ served
               /\ rPc[pid] \notin {"msgget", "regInQueue"}
               /\ \A j \in 1..Len(queue') : ~RegOf(pid, queue'[j])
<1> DEFINE pid == Message(queue, "MSG_TYPE_REG").pid
<1>1. PICK p \in 1..Len(queue), f \in [1..Len(queue') -> 1..Len(queue)] :
          /\ queue[p].mtype = "MSG_TYPE_REG" /\ Message(queue, "MSG_TYPE_REG") = queue[p]
          /\ \A j \in 1..Len(queue') : queue'[j] = queue[f[j]] /\ f[j] # p
    BY TakenQueue DEF MsgTypes
<1>2. queue[p] \in Messages /\ pid = queue[p].pid /\ pid \in Receivers
    BY <1>1, ElementOfSeq, TypesAssumption DEF Messages, TypeOK
<1> HIDE DEF pid
<1>3. RegOf(pid, queue[p])
    BY <1>1, <1>2 DEF RegOf
<1> QED  BY <1>1, <1>2, <1>3 DEF RegInv, pid

\* The messages of a queue: a registration, a line or an answer, of one receiver.
LEMMA KindsOfMessage ==
    ASSUME NEW m \in Messages, NEW r \in Receivers
    PROVE  /\ RegOf(r, m) => \A q \in Receivers : ~LineTo(q, m) /\ ~AnswerOf(q, m)
           /\ LineTo(r, m) => \A q \in Receivers : ~RegOf(q, m) /\ ~AnswerOf(q, m)
           /\ LineTo(r, m) => m.mtext \in Nat
           /\ LineTo(r, m) \/ RegOf(r, m) \/ AnswerOf(r, m) =>
                \A q \in Receivers \ {r} : ~LineTo(q, m) /\ ~RegOf(q, m) /\ ~AnswerOf(q, m)
BY TypesAssumption DEF Messages, RegOf, LineTo, AnswerOf

\* What a queue holds after msgsnd and after msgrcv.
LEMMA SentQueue ==
    ASSUME TypeOK, NEW m \in Messages, queue' = Append(queue, m)
    PROVE  /\ Len(queue) \in Nat /\ Len(queue') = Len(queue) + 1
           /\ queue'[Len(queue) + 1] = m
           /\ \A j \in 1..Len(queue) : queue'[j] = queue[j] /\ queue[j] \in Messages
           /\ \A j \in 1..Len(queue') : j \in 1..Len(queue) \/ j = Len(queue) + 1
<1>1. queue \in Seq(Messages)
    BY DEF TypeOK
<1>2. /\ Len(queue) \in Nat /\ Len(queue') = Len(queue) + 1
      /\ \A j \in 1..Len(queue) : queue'[j] = queue[j] /\ queue[j] \in Messages
      /\ queue'[Len(queue) + 1] = m
    BY <1>1, SentLast, ElementOfSeq
<1> QED  BY <1>2

\* What is left of a queue keeps what holds of its registrations and its lines.
LEMMA FewerMessages ==
    ASSUME RegInv, NEW f \in [1..Len(queue') -> 1..Len(queue)],
           \A j \in 1..Len(queue') : queue'[j] = queue[f[j]],
           \A i, j \in 1..Len(queue') : f[i] = f[j] => i = j
    PROVE  \A r \in Receivers :
             /\ \A i, j \in 1..Len(queue') : RegOf(r, queue'[i]) /\ RegOf(r, queue'[j]) => i = j
             /\ \A j \in 1..Len(queue') :
                  /\ RegOf(r, queue'[j]) => r \notin served /\ rPc[r] \notin {"msgget", "regInQueue"}
                  /\ LineTo(r, queue'[j]) => r \in served
<1> SUFFICES ASSUME NEW r \in Receivers
             PROVE  /\ \A i, j \in 1..Len(queue') : RegOf(r, queue'[i]) /\ RegOf(r, queue'[j]) => i = j
                    /\ \A j \in 1..Len(queue') :
                         /\ RegOf(r, queue'[j]) => r \notin served /\ rPc[r] \notin {"msgget", "regInQueue"}
                         /\ LineTo(r, queue'[j]) => r \in served
    OBVIOUS
<1>1. /\ \A i, j \in 1..Len(queue) : RegOf(r, queue[i]) /\ RegOf(r, queue[j]) => i = j
      /\ \A i \in 1..Len(queue) :
           /\ RegOf(r, queue[i]) => r \notin served /\ rPc[r] \notin {"msgget", "regInQueue"}
           /\ LineTo(r, queue[i]) => r \in served
    BY DEF RegInv
<1>2. \A j \in 1..Len(queue') : f[j] \in 1..Len(queue)
    OBVIOUS
<1>3. ASSUME NEW i \in 1..Len(queue'), NEW j \in 1..Len(queue'),
             RegOf(r, queue'[i]), RegOf(r, queue'[j])
      PROVE  i = j
  <2>1. RegOf(r, queue[f[i]]) /\ RegOf(r, queue[f[j]])
      BY <1>3, Zenon
  <2>2. f[i] = f[j]
      BY <1>1, <1>2, <2>1, Zenon
  <2> QED  BY <2>2
<1>4. ASSUME NEW j \in 1..Len(queue')
      PROVE  /\ RegOf(r, queue'[j]) => r \notin served /\ rPc[r] \notin {"msgget", "regInQueue"}
             /\ LineTo(r, queue'[j]) => r \in served
  <2>1. queue'[j] = queue[f[j]] /\ f[j] \in 1..Len(queue)
      BY <1>2
  <2> QED  BY <1>1, <2>1, Zenon
<1> QED  BY <1>3, <1>4

\* Every step keeps the registrations in order: one for each, before it is served.
LEMMA RegStep == TypeOK /\ PlaceInv /\ RegInv /\ EndInv /\ TypeOK' /\ [Next]_vars => RegInv'
<1> SUFFICES ASSUME TypeOK, PlaceInv, RegInv, EndInv, TypeOK', [Next]_vars PROVE RegInv'
    OBVIOUS
<1>0. /\ queue \in Seq(Messages) /\ Len(queue) \in Nat
      /\ \A j \in 1..Len(queue) : queue[j] \in Messages
    BY ElementOfSeq, LenProperties DEF TypeOK
<1>1. CASE UNCHANGED vars
    BY <1>1 DEF vars, senderVars, receiverVars, RegInv
<1>2. CASE CreateQueue \/ ReadLine \/ AddDone \/ DelDone \/ SendDone \/ AnswersDone \/ KillSender
  <2>1. UNCHANGED <<queue, rPc, printed, served>>
      BY <1>2 DEF CreateQueue, ReadLine, AddDone, DelDone, SendDone, AnswersDone, KillSender, receiverVars
  <2> QED  BY <2>1 DEF RegInv
<1>3. CASE AddListener
  <2> DEFINE pid == Message(queue, "MSG_TYPE_REG").pid
  <2>1. /\ Arrived(queue, "MSG_TYPE_REG") /\ queue' = Rest(queue, "MSG_TYPE_REG")
        /\ served' = served \cup {pid} /\ UNCHANGED <<rPc, printed>>
      BY <1>3 DEF AddListener, receiverVars
  <2>2. /\ pid \in Receivers \ served /\ rPc[pid] \notin {"msgget", "regInQueue"}
        /\ \A j \in 1..Len(queue') : ~RegOf(pid, queue'[j])
      BY <2>1, RegisteredIsNew
  <2> HIDE DEF pid
  <2>3. PICK f \in [1..Len(queue') -> 1..Len(queue)] :
          /\ \A j \in 1..Len(queue') : queue'[j] = queue[f[j]]
          /\ \A i, j \in 1..Len(queue') : i < j => f[i] < f[j]
      BY <2>1, TakenQueue DEF MsgTypes
  <2>4. \A i, j \in 1..Len(queue') : f[i] = f[j] => i = j
      BY <1>0, <2>3
  <2>5. \A r \in Receivers :
          /\ \A i, j \in 1..Len(queue') : RegOf(r, queue'[i]) /\ RegOf(r, queue'[j]) => i = j
          /\ \A j \in 1..Len(queue') :
               /\ RegOf(r, queue'[j]) => r \notin served /\ rPc[r] \notin {"msgget", "regInQueue"}
               /\ LineTo(r, queue'[j]) => r \in served
      BY <2>3, <2>4, FewerMessages
  <2>6. \A r \in Receivers : r \in served' <=> r \in served \/ r = pid
      BY <2>1
  <2> QED  BY <2>1, <2>2, <2>5, <2>6 DEF RegInv
<1>4. CASE SendToListener
  <2> DEFINE m == [mtype |-> pids[k], mtext |-> Text]
  <2>1. /\ pids[k] \in Receivers /\ pids[k] \in served /\ Text \in Nat
        /\ queue' = Append(queue, m) /\ UNCHANGED <<rPc, printed, served>>
    <3>1. k \in 1..Len(pids) /\ pids \in Seq(Receivers) /\ Text \in Nat
        BY <1>4 DEF SendToListener, TypeOK, Text, EMPTY
    <3>2. pids[k] \in Listeners
        BY <3>1, ListenerAt
    <3> QED  BY <1>4, <3>1, <3>2, ElementOfSeq DEF SendToListener, receiverVars, PlaceInv
  <2>2. m \in Messages /\ m.mtype = pids[k]
      BY <2>1 DEF Messages
  <2> HIDE DEF m
  <2>3. LineTo(pids[k], m) /\ \A q \in Receivers : ~RegOf(q, m) /\ (q # pids[k] => ~LineTo(q, m))
      BY <2>1, <2>2, KindsOfMessage DEF LineTo
  <2>4. /\ \A j \in 1..Len(queue) : queue'[j] = queue[j]
        /\ \A j \in 1..Len(queue') : j \in 1..Len(queue) \/ queue'[j] = m
      BY <2>1, <2>2, SentQueue
  <2> QED  BY <2>1, <2>3, <2>4 DEF RegInv
<1>5. CASE TakeAnswer
  <2>1. Arrived(queue, "MSG_TYPE_END_ANSWER") /\ queue' = Rest(queue, "MSG_TYPE_END_ANSWER")
        /\ UNCHANGED <<rPc, printed, served>>
      BY <1>5 DEF TakeAnswer, receiverVars
  <2>2. PICK f \in [1..Len(queue') -> 1..Len(queue)] :
          /\ \A j \in 1..Len(queue') : queue'[j] = queue[f[j]]
          /\ \A i, j \in 1..Len(queue') : i < j => f[i] < f[j]
      BY <2>1, TakenQueue DEF MsgTypes
  <2>3. \A i, j \in 1..Len(queue') : f[i] = f[j] => i = j
      BY <1>0, <2>2
  <2>4. \A r \in Receivers :
          /\ \A i, j \in 1..Len(queue') : RegOf(r, queue'[i]) /\ RegOf(r, queue'[j]) => i = j
          /\ \A j \in 1..Len(queue') :
               /\ RegOf(r, queue'[j]) => r \notin served /\ rPc[r] \notin {"msgget", "regInQueue"}
               /\ LineTo(r, queue'[j]) => r \in served
      BY <2>2, <2>3, FewerMessages
  <2> QED  BY <2>1, <2>4 DEF RegInv
<1>6. CASE CloseQueue
  <2>1. Len(queue') = 0 /\ UNCHANGED <<rPc, printed, served>>
      BY <1>6 DEF CloseQueue, receiverVars
  <2> QED  BY <2>1 DEF RegInv
<1>7. ASSUME NEW r \in Receivers, GetQueue(r) \/ ReceiverFails(r) \/ KillReceiver(r)
      PROVE  RegInv'
  <2>1. PICK to \in {"regInQueue", "failed", "killed"} :
          rPc' = [rPc EXCEPT ![r] = to] /\ (to = "regInQueue" => rPc[r] = "msgget")
      BY <1>7 DEF GetQueue, ReceiverFails, KillReceiver, Goto
  <2>2. UNCHANGED <<queue, printed, served>>
      BY <1>7 DEF GetQueue, ReceiverFails, KillReceiver, senderVars
  <2>3. \A q \in Receivers : rPc'[q] = IF q = r THEN to ELSE rPc[q]
      BY <2>1 DEF TypeOK
  <2> QED  BY <2>1, <2>2, <2>3 DEF RegInv
<1>8. ASSUME NEW r \in Receivers, Register(r) PROVE RegInv'
  <2> DEFINE m == [mtype |-> "MSG_TYPE_REG", pid |-> r]
  <2>1. /\ queue' = Append(queue, m) /\ UNCHANGED <<printed, served>>
        /\ rPc[r] = "regInQueue" /\ \A q \in Receivers : rPc'[q] = IF q = r THEN "getMessages" ELSE rPc[q]
      BY <1>8 DEF Register, SendPid, Goto, senderVars, TypeOK
  <2>2. m \in Messages /\ m.mtype = "MSG_TYPE_REG" /\ m.pid = r
      BY DEF Messages
  <2> HIDE DEF m
  <2>3. RegOf(r, m) /\ \A q \in Receivers : ~LineTo(q, m) /\ (q # r => ~RegOf(q, m))
      BY <2>2, KindsOfMessage DEF RegOf
  <2>4. /\ \A j \in 1..Len(queue) : queue'[j] = queue[j]
        /\ \A j \in 1..Len(queue') : j \in 1..Len(queue) \/ (queue'[j] = m /\ j = Len(queue) + 1)
      BY <2>1, <2>2, SentQueue
  <2>5. r \notin served /\ \A j \in 1..Len(queue) : ~RegOf(r, queue[j])
      BY <2>1 DEF RegInv
  <2> QED  BY <2>1, <2>3, <2>4, <2>5 DEF RegInv
<1>9. ASSUME NEW r \in Receivers, GetMessage(r) PROVE RegInv'
  <2>1. /\ Arrived(queue, r) /\ queue' = Rest(queue, r) /\ UNCHANGED served
        /\ rPc[r] = "getMessages"
        /\ \A q \in Receivers \ {r} : rPc'[q] = rPc[q] /\ printed'[q] = printed[q]
        /\ rPc'[r] \in {"getMessages", "leaveQueue"}
      BY <1>9 DEF GetMessage, Goto, senderVars, TypeOK
  <2>2. PICK p \in 1..Len(queue), f \in [1..Len(queue') -> 1..Len(queue)] :
          /\ queue[p].mtype = r
          /\ \A j \in 1..Len(queue') : queue'[j] = queue[f[j]]
          /\ \A i, j \in 1..Len(queue') : i < j => f[i] < f[j]
      BY <2>1, TakenQueue
  <2>3. \A i, j \in 1..Len(queue') : f[i] = f[j] => i = j
      BY <1>0, <2>2
  <2>4. r \in served
      BY <2>2 DEF RegInv, LineTo
  <2>5. \A q \in Receivers :
          /\ \A i, j \in 1..Len(queue') : RegOf(q, queue'[i]) /\ RegOf(q, queue'[j]) => i = j
          /\ \A j \in 1..Len(queue') :
               /\ RegOf(q, queue'[j]) => q \notin served /\ rPc[q] \notin {"msgget", "regInQueue"}
               /\ LineTo(q, queue'[j]) => q \in served
      BY <2>2, <2>3, FewerMessages
  <2> QED  BY <2>1, <2>4, <2>5 DEF RegInv
<1>10. ASSUME NEW r \in Receivers, LeaveQueue(r) PROVE RegInv'
  <2> DEFINE m == [mtype |-> "MSG_TYPE_END_ANSWER", pid |-> r]
  <2>1. /\ queue' = Append(queue, m) /\ UNCHANGED <<printed, served>>
        /\ rPc[r] = "leaveQueue" /\ \A q \in Receivers : rPc'[q] = IF q = r THEN "done" ELSE rPc[q]
      BY <1>10 DEF LeaveQueue, SendPid, Goto, senderVars, TypeOK
  <2>2. m \in Messages /\ m.mtype = "MSG_TYPE_END_ANSWER" /\ m.pid = r
      BY DEF Messages
  <2> HIDE DEF m
  <2>3. \A q \in Receivers : ~LineTo(q, m) /\ ~RegOf(q, m)
      BY <2>2, TypesAssumption DEF RegOf, LineTo
  <2>4. /\ \A j \in 1..Len(queue) : queue'[j] = queue[j]
        /\ \A j \in 1..Len(queue') : j \in 1..Len(queue) \/ queue'[j] = m
      BY <2>1, <2>2, SentQueue
  <2>5. r \in served
      BY <2>1 DEF RegInv
  <2> QED  BY <2>1, <2>3, <2>4, <2>5 DEF RegInv
<1> QED
    BY <1>1, <1>2, <1>3, <1>4, <1>5, <1>6, <1>7, <1>8, <1>9, <1>10
       DEF Next, SenderStep, ReceiverStep

\* Every step keeps the sender, its queue and its listeners together.
LEMMA PlaceStep == TypeOK /\ PlaceInv /\ RegInv /\ [Next]_vars => PlaceInv'
<1> SUFFICES ASSUME TypeOK, PlaceInv, RegInv, [Next]_vars PROVE PlaceInv'
    OBVIOUS
<1> USE DEF Working
<1>0. pids \in Seq(Receivers) /\ Len(pids) \in Nat
    BY LenProperties DEF TypeOK
<1>1. CASE UNCHANGED vars
    BY <1>1 DEF vars, senderVars, PlaceInv, Listeners
<1>2. CASE CreateQueue \/ ReadLine \/ AddDone \/ DelDone \/ SendDone \/ AnswersDone
  <2>1. CASE ReadLine
    <3>1. sPc = "fgets" /\ sPc' = "addListeners" /\ UNCHANGED <<exists, queue, pids, served>>
        BY <2>1 DEF ReadLine
    <3>2. lines \in Nat
        BY DEF TypeOK
    <3>3. atEof' \/ lines' > 0
        BY <2>1, <3>2 DEF ReadLine
    <3> QED  BY <3>1, <3>3 DEF PlaceInv, Listeners
  <2>2. CASE CreateQueue \/ AddDone \/ DelDone \/ SendDone \/ AnswersDone
      BY <2>2 DEF CreateQueue, AddDone, DelDone, SendDone, AnswersDone, PlaceInv, Listeners
  <2> QED  BY <1>2, <2>1, <2>2
<1>3. CASE AddListener
  <2> DEFINE pid == Message(queue, "MSG_TYPE_REG").pid
  <2>1. /\ pid \in Receivers \ served /\ pids' = Append(pids, pid) /\ served' = served \cup {pid}
        /\ UNCHANGED <<exists, sPc, atEof, lines>> /\ sPc = "addListeners"
      BY <1>3, RegisteredIsNew DEF AddListener
  <2> HIDE DEF pid
  <2>2. /\ pids' \in Seq(Receivers) /\ Len(pids') = Len(pids) + 1 /\ pids'[Len(pids) + 1] = pid
        /\ \A i \in 1..Len(pids) : pids'[i] = pids[i] /\ pids[i] \in served
    <3>1. \A i \in 1..Len(pids) : pids[i] \in served
        BY <1>0, ListenerAt DEF PlaceInv
    <3> QED  BY <1>0, <2>1, <3>1, AppendProperties
  <2>3. \A i, j \in 1..Len(pids') : pids'[i] = pids'[j] => i = j
    <3>1. \A i \in 1..Len(pids') : i \in 1..Len(pids) \/ i = Len(pids) + 1
        BY <1>0, <2>2
    <3> QED  BY <2>1, <2>2, <3>1 DEF PlaceInv
  <2>4. Listeners' \subseteq served'
    <3>1. DOMAIN pids' = 1..Len(pids')
        BY <2>2, LenProperties
    <3>2. \A i \in 1..Len(pids') : pids'[i] \in served'
        BY <1>0, <2>1, <2>2
    <3> QED  BY <3>1, <3>2 DEF Listeners, ToSet
  <2> QED  BY <2>1, <2>3, <2>4 DEF PlaceInv
<1>4. CASE SendToListener
    BY <1>4 DEF SendToListener, PlaceInv, Listeners
<1>5. CASE TakeAnswer
  <2> DEFINE pid == Message(queue, "MSG_TYPE_END_ANSWER").pid
  <2>1. /\ sPc = "waitAnswers" /\ sPc' \in {"waitAnswers", "abort"} /\ UNCHANGED <<exists, atEof, served>>
        /\ \/ pids' = pids
           \/ Contains(pids, pid) /\ pids' = RemoveFirst(pids, pid)
      BY <1>5 DEF TakeAnswer
  <2> HIDE DEF pid
  <2>2. CASE pids' = pids
      BY <2>1, <2>2 DEF PlaceInv, Listeners
  <2>3. CASE Contains(pids, pid) /\ pids' = RemoveFirst(pids, pid)
    <3>1. /\ \A i, j \in 1..Len(pids') : pids'[i] = pids'[j] => i = j
          /\ ToSet(pids') = ToSet(pids) \ {pid}
        BY <1>0, <2>3, RemoveFirstProperties DEF PlaceInv
    <3>2. Listeners' \subseteq served'
        BY <2>1, <3>1 DEF Listeners, PlaceInv
    <3> QED  BY <2>1, <3>1, <3>2 DEF PlaceInv
  <2> QED  BY <2>1, <2>2, <2>3
<1>6. CASE CloseQueue
    BY <1>6 DEF CloseQueue, PlaceInv, Listeners
<1>7. CASE KillSender
  <2>1. /\ pids' = << >> /\ Len(pids') = 0 /\ sPc' = "msgget" /\ atEof' = FALSE
        /\ UNCHANGED <<exists, queue, served>>
      BY <1>7 DEF KillSender
  <2>2. Listeners' = {}
      BY <2>1 DEF Listeners, ToSet
  <2> QED  BY <2>1, <2>2 DEF PlaceInv
<1>8. ASSUME NEW r \in Receivers, GetQueue(r) \/ ReceiverFails(r) \/ KillReceiver(r)
                                   \/ Register(r) \/ LeaveQueue(r) \/ GetMessage(r)
      PROVE  PlaceInv'
  <2>1. UNCHANGED <<exists, senderVars>>
      BY <1>8 DEF GetQueue, ReceiverFails, KillReceiver, Register, LeaveQueue, GetMessage
  <2>2. ~exists => queue' = << >>
    <3> SUFFICES ASSUME ~exists PROVE queue' = << >>
        OBVIOUS
    <3>1. queue = << >>
        BY DEF PlaceInv
    <3>2. ~GetMessage(r)
      <4>1. Len(queue) = 0
          BY <3>1
      <4> QED  BY <4>1, NothingArrived DEF GetMessage, TypeOK
    <3> QED  BY <1>8, <3>1, <3>2 DEF GetQueue, ReceiverFails, KillReceiver, Register, LeaveQueue, SendPid
  <2> QED  BY <2>1, <2>2 DEF PlaceInv, Listeners, senderVars
<1> QED
    BY <1>1, <1>2, <1>3, <1>4, <1>5, <1>6, <1>7, <1>8 DEF Next, SenderStep, ReceiverStep


-----------------------------------------------------------------------------
(* Lines. *)

\* The lines of r are left alone: others may come and go, their places may shift.
SameLines(r) ==
    /\ printed'[r] = printed[r]
    /\ \E f \in [Lines(r)' -> Lines(r)] :
         /\ \A j \in Lines(r)' : queue'[j].mtext = queue[f[j]].mtext
         /\ \A i, j \in Lines(r)' : i < j => f[i] < f[j]
         /\ \A i \in Lines(r) : \E j \in Lines(r)' : f[j] = i

\* What a receiver has, by its lines.
LEMMA HasByLines ==
    ASSUME NEW r, NEW n
    PROVE  Has(r, n) <=> \/ \E i \in 1..Len(printed[r]) : printed[r][i] = n
                         \/ n # EMPTY /\ \E i \in Lines(r) : queue[i].mtext = n
BY DEF Has, Lines

\* Texts of lines are numbers.
LEMMA TextsAreNumbers ==
    ASSUME TypeOK, NEW r \in Receivers
    PROVE  /\ Len(queue) \in Nat /\ Lines(r) \subseteq 1..Len(queue)
           /\ \A i \in Lines(r) : queue[i].mtext \in Nat
           /\ Len(printed[r]) \in Nat /\ \A i \in 1..Len(printed[r]) : printed[r][i] \in Nat
<1>1. queue \in Seq(Messages) /\ printed[r] \in Seq(Nat)
    BY DEF TypeOK
<1> HIDE DEF TypeOK
<1>2. \A i \in 1..Len(queue) : queue[i] \in Messages
    BY <1>1, ElementOfSeq
<1>3. \A i \in Lines(r) : queue[i].mtext \in Nat
    BY <1>2, KindsOfMessage DEF Lines
<1>4. Len(queue) \in Nat /\ Len(printed[r]) \in Nat
    BY <1>1, LenProperties
<1>5. \A i \in 1..Len(printed[r]) : printed[r][i] \in Nat
    BY <1>1, ElementOfSeq
<1> QED  BY <1>3, <1>4, <1>5 DEF Lines

\* Lines left alone stay in order, and the receiver has what it had.
LEMMA SameKept ==
    ASSUME TypeOK, TypeOK', NEW r \in Receivers, SameLines(r), LineOf(r)
    PROVE  /\ LineOf(r)'
           /\ \A n : Has(r, n)' <=> Has(r, n)
           /\ \A j \in Lines(r)' : \E i \in Lines(r) : queue'[j].mtext = queue[i].mtext
<1>1. PICK f \in [Lines(r)' -> Lines(r)] :
         /\ \A j \in Lines(r)' : queue'[j].mtext = queue[f[j]].mtext
         /\ \A i, j \in Lines(r)' : i < j => f[i] < f[j]
         /\ \A i \in Lines(r) : \E j \in Lines(r)' : f[j] = i
    BY DEF SameLines
<1>2. printed'[r] = printed[r]
    BY DEF SameLines
<1>3. \A n : Has(r, n) <=> \/ \E i \in 1..Len(printed[r]) : printed[r][i] = n
                           \/ n # EMPTY /\ \E i \in Lines(r) : queue[i].mtext = n
    BY HasByLines
<1>4. \A n : Has(r, n)' <=> \/ \E i \in 1..Len(printed'[r]) : printed'[r][i] = n
                            \/ n # EMPTY /\ \E i \in Lines(r)' : queue'[i].mtext = n
  <2>1. ASSUME NEW n
        PROVE  Has(r, n)' <=> \/ \E i \in 1..Len(printed'[r]) : printed'[r][i] = n
                              \/ n # EMPTY /\ \E i \in Lines(r)' : queue'[i].mtext = n
      BY DEF Has, Lines
  <2> QED  BY <2>1
<1>5. \A n : (\E i \in Lines(r)' : queue'[i].mtext = n) <=> (\E i \in Lines(r) : queue[i].mtext = n)
    BY <1>1
<1>6. \A n : Has(r, n)' <=> Has(r, n)
    BY <1>2, <1>3, <1>4, <1>5
<1>7. /\ \A i \in 1..Len(printed[r]), j \in Lines(r)' :
           queue'[j].mtext # EMPTY => printed[r][i] < queue'[j].mtext
      /\ \A i, j \in Lines(r)' : i < j =>
           queue'[i].mtext # EMPTY /\ (queue'[j].mtext # EMPTY => queue'[i].mtext < queue'[j].mtext)
  <2>1. \A j \in Lines(r)' : f[j] \in Lines(r) /\ queue'[j].mtext = queue[f[j]].mtext
      BY <1>1
  <2>2. ASSUME NEW i \in 1..Len(printed[r]), NEW j \in Lines(r)', queue'[j].mtext # EMPTY
        PROVE  printed[r][i] < queue'[j].mtext
      BY <2>1, <2>2, Zenon DEF LineOf
  <2>3. ASSUME NEW i \in Lines(r)', NEW j \in Lines(r)', i < j
        PROVE  queue'[i].mtext # EMPTY /\ (queue'[j].mtext # EMPTY => queue'[i].mtext < queue'[j].mtext)
    <3>1. f[i] < f[j]
        BY <1>1, <2>3
    <3> QED  BY <2>1, <3>1, Zenon DEF LineOf
  <2> QED  BY <2>2, <2>3
<1>8. /\ \A i \in 1..Len(printed[r]) : printed[r][i] # EMPTY
      /\ \A i, j \in 1..Len(printed[r]) : i < j => printed[r][i] < printed[r][j]
      /\ \A n, m \in Nat : n < m /\ Has(r, n) /\ Has(r, m) => Has(r, n + 1)
    BY DEF LineOf
<1>9. \A n, m \in Nat : n < m /\ Has(r, n)' /\ Has(r, m)' => Has(r, n + 1)'
    BY <1>6, <1>8
<1> QED  BY <1>1, <1>2, <1>6, <1>7, <1>8, <1>9 DEF LineOf

\* Lines are left alone when the queue is as it was, ...
LEMMA SameQueue ==
    ASSUME NEW r \in Receivers, UNCHANGED queue, printed'[r] = printed[r]
    PROVE  SameLines(r)
<1> DEFINE f == [j \in Lines(r)' |-> j]
<1>1. Lines(r)' = Lines(r)
    BY DEF Lines, LineTo
<1>2. f \in [Lines(r)' -> Lines(r)]
    BY <1>1
<1>3. \A j \in Lines(r)' : f[j] = j
    OBVIOUS
<1> HIDE DEF f
<1> QED  BY <1>1, <1>2, <1>3 DEF SameLines

\* ... when the message of another kind or for another receiver is appended, ...
LEMMA SameSent ==
    ASSUME TypeOK, NEW r \in Receivers, NEW m \in Messages, ~LineTo(r, m), queue' = Append(queue, m),
           printed'[r] = printed[r]
    PROVE  SameLines(r)
<1> DEFINE f == [j \in Lines(r)' |-> j]
<1>1. /\ Len(queue) \in Nat /\ Len(queue') = Len(queue) + 1
      /\ queue'[Len(queue) + 1] = m
      /\ \A j \in 1..Len(queue) : queue'[j] = queue[j]
    BY SentQueue
<1>2. \A j : j \in Lines(r)' <=> j \in Lines(r)
  <2>1. \A j : j \in Lines(r)' <=> j \in 1..Len(queue') /\ LineTo(r, queue'[j])
      BY DEF Lines, LineTo
  <2>2. \A j : j \in Lines(r) <=> j \in 1..Len(queue) /\ LineTo(r, queue[j])
      BY DEF Lines
  <2> QED  BY <1>1, <2>1, <2>2
<1>3. f \in [Lines(r)' -> Lines(r)] /\ \A j \in Lines(r)' : f[j] = j /\ queue'[j] = queue[j]
    BY <1>1, <1>2 DEF Lines
<1> HIDE DEF f
<1>4. /\ \A j \in Lines(r)' : queue'[j].mtext = queue[f[j]].mtext
      /\ \A i, j \in Lines(r)' : i < j => f[i] < f[j]
      /\ \A i \in Lines(r) : \E j \in Lines(r)' : f[j] = i
    BY <1>2, <1>3
<1> QED  BY <1>3, <1>4 DEF SameLines

\* ... and when a message of another kind or for another receiver is taken.
LEMMA SameTaken ==
    ASSUME TypeOK, NEW r \in Receivers, NEW t \in (Receivers \cup MsgTypes) \ {r}, Arrived(queue, t),
           queue' = Rest(queue, t), printed'[r] = printed[r]
    PROVE  SameLines(r)
<1>1. PICK p \in 1..Len(queue), f \in [1..Len(queue') -> 1..Len(queue)] :
             /\ queue[p].mtype = t
             /\ \A j \in 1..Len(queue') : queue'[j] = queue[f[j]] /\ f[j] # p
             /\ \A i, j \in 1..Len(queue') : i < j => f[i] < f[j]
             /\ \A i \in 1..Len(queue) : i # p => \E j \in 1..Len(queue') : f[j] = i
    BY TakenQueue, SMTT(30)
<1> DEFINE g == [j \in Lines(r)' |-> f[j]]
<1>2. \A j : j \in Lines(r)' <=> j \in 1..Len(queue') /\ LineTo(r, queue'[j])
    BY DEF Lines, LineTo
<1>3. \A j : j \in Lines(r) <=> j \in 1..Len(queue) /\ LineTo(r, queue[j])
    BY DEF Lines
<1>4. \A j \in Lines(r)' : j \in 1..Len(queue') /\ f[j] \in Lines(r) /\ queue'[j] = queue[f[j]]
    BY <1>1, <1>2, <1>3
<1>5. ASSUME NEW i \in Lines(r) PROVE \E j \in Lines(r)' : f[j] = i
  <2>1. i # p /\ i \in 1..Len(queue) /\ LineTo(r, queue[i])
      BY <1>1, <1>3 DEF LineTo
  <2>2. PICK j \in 1..Len(queue') : f[j] = i
      BY <1>1, <2>1
  <2>3. j \in Lines(r)'
      BY <1>1, <1>2, <2>1, <2>2
  <2> QED  BY <2>2, <2>3
<1>6. g \in [Lines(r)' -> Lines(r)] /\ \A j \in Lines(r)' : g[j] = f[j]
    BY <1>4
<1> HIDE DEF g
<1>7. \A i, j \in Lines(r)' : i < j => g[i] < g[j]
    BY <1>1, <1>4, <1>6
<1>8. \A i \in Lines(r) : \E j \in Lines(r)' : g[j] = i
    BY <1>5, <1>6
<1> QED  BY <1>4, <1>6, <1>7, <1>8 DEF SameLines

\* The steps that touch the lines of a receiver: a line sent, a line taken, the queue removed.
LEMMA WhoseLines ==
    ASSUME TypeOK, [Next]_vars, NEW r \in Receivers
    PROVE  \/ SameLines(r)
           \/ CloseQueue
           \/ SendToListener /\ r = pids[k]
           \/ GetMessage(r)
<1>1. CASE UNCHANGED vars
    BY <1>1, SameQueue DEF vars, receiverVars
<1>2. CASE CreateQueue \/ ReadLine \/ AddDone \/ DelDone \/ SendDone \/ AnswersDone \/ KillSender
    BY <1>2, SameQueue
       DEF CreateQueue, ReadLine, AddDone, DelDone, SendDone, AnswersDone, KillSender, receiverVars
<1>3. CASE AddListener \/ TakeAnswer
  <2>1. PICK t \in {"MSG_TYPE_REG", "MSG_TYPE_END_ANSWER"} :
          Arrived(queue, t) /\ queue' = Rest(queue, t) /\ UNCHANGED printed
      BY <1>3 DEF AddListener, TakeAnswer, receiverVars
  <2>2. t \in (Receivers \cup MsgTypes) \ {r}
      BY <2>1, TypesAssumption DEF MsgTypes
  <2> QED  BY <2>1, <2>2, SameTaken
<1>4. CASE SendToListener /\ r # pids[k]
  <2>1. k \in 1..Len(pids) /\ pids \in Seq(Receivers) /\ Text \in Nat
      BY <1>4 DEF SendToListener, TypeOK, Text, EMPTY
  <2>2. pids[k] \in Receivers
      BY <2>1, ElementOfSeq
  <2> DEFINE m == [mtype |-> pids[k], mtext |-> Text]
  <2>3. m \in Messages /\ m.mtype = pids[k]
      BY <2>1, <2>2 DEF Messages
  <2>4. queue' = Append(queue, m) /\ UNCHANGED printed
      BY <1>4 DEF SendToListener, receiverVars
  <2> HIDE DEF m
  <2> QED  BY <1>4, <2>3, <2>4, SameSent DEF LineTo
<1>5. ASSUME NEW q \in Receivers, GetQueue(q) \/ ReceiverFails(q) \/ KillReceiver(q)
      PROVE  SameLines(r)
    BY <1>5, SameQueue DEF GetQueue, ReceiverFails, KillReceiver
<1>6. ASSUME NEW q \in Receivers, Register(q) \/ LeaveQueue(q) PROVE SameLines(r)
  <2>1. PICK m \in Messages : m.mtype \in MsgTypes /\ queue' = Append(queue, m)
    <3>1. PICK mtype \in {"MSG_TYPE_REG", "MSG_TYPE_END_ANSWER"} :
            queue' = Append(queue, [mtype |-> mtype, pid |-> q])
        BY <1>6 DEF Register, LeaveQueue, SendPid
    <3>2. [mtype |-> mtype, pid |-> q] \in Messages /\ [mtype |-> mtype, pid |-> q].mtype \in MsgTypes
        BY <3>1 DEF Messages, MsgTypes
    <3> QED  BY <3>1, <3>2
  <2>2. ~LineTo(r, m) /\ UNCHANGED printed
      BY <1>6, <2>1, TypesAssumption DEF Register, LeaveQueue, MsgTypes, LineTo
  <2> QED  BY <2>1, <2>2, SameSent
<1>7. ASSUME NEW q \in Receivers \ {r}, GetMessage(q) PROVE SameLines(r)
  <2>1. Arrived(queue, q) /\ queue' = Rest(queue, q) /\ printed'[r] = printed[r]
      BY <1>7 DEF GetMessage, TypeOK
  <2> QED  BY <2>1, SameTaken
<1> QED
    BY <1>1, <1>2, <1>3, <1>4, <1>5, <1>6, <1>7 DEF Next, SenderStep, ReceiverStep

\* The line sent to a listener follows the ones it has.
LEMMA SentLine ==
    ASSUME TypeOK, TypeOK', PlaceInv, LineInv, DueInv, EndInv, SendToListener, NEW r, r = pids[k]
    PROVE  /\ r \in Receivers /\ r \in Listeners /\ Unsent(r)
           /\ Text = EMPTY <=> atEof
           /\ LineOf(r)'
           /\ \A n : Has(r, n)' <=> Has(r, n) \/ (n = Text /\ n # EMPTY)
           /\ \A j \in Lines(r)' : \/ j \in Lines(r) /\ queue'[j] = queue[j]
                                   \/ queue'[j].mtext = Text
           /\ \A i \in Lines(r) : queue[i].mtext # EMPTY
<1>1. /\ k \in 1..Len(pids) /\ pids \in Seq(Receivers) /\ Text \in Nat /\ lines \in Nat
      /\ sPc = "sendMessage"
    BY DEF SendToListener, TypeOK, Text, EMPTY
<1>2. r \in Receivers /\ r \in Listeners /\ Unsent(r)
  <2>1. r \in Listeners /\ r \in Receivers
      BY <1>1, ListenerAt, ElementOfSeq
  <2>2. k \in k..Len(pids)
      BY <1>1
  <2> QED  BY <1>1, <2>1, <2>2 DEF Unsent
<1>3. (Text = EMPTY <=> atEof) /\ (~atEof => Text = lines)
    BY <1>1 DEF PlaceInv, Text, EMPTY
<1> DEFINE m == [mtype |-> r, mtext |-> Text]
<1>4. m \in Messages /\ m.mtype = r /\ m.mtext = Text
    BY <1>1, <1>2 DEF Messages
<1>5. queue' = Append(queue, m) /\ printed'[r] = printed[r]
    BY DEF SendToListener, receiverVars
<1> HIDE DEF m
<1>6. /\ Len(queue) \in Nat /\ Len(queue') = Len(queue) + 1 /\ queue'[Len(queue) + 1] = m
      /\ \A j \in 1..Len(queue) : queue'[j] = queue[j]
    BY <1>4, <1>5, SentQueue
<1>7. \A j : j \in Lines(r)' <=> j \in 1..Len(queue') /\ LineTo(r, queue'[j])
    BY DEF Lines, LineTo
<1>8. \A j : j \in Lines(r) <=> j \in 1..Len(queue) /\ LineTo(r, queue[j])
    BY DEF Lines
<1>9. /\ Len(queue) + 1 \in Lines(r)' /\ queue'[Len(queue) + 1].mtext = Text
      /\ \A j \in Lines(r) : j \in Lines(r)' /\ queue'[j] = queue[j] /\ j < Len(queue) + 1
      /\ \A j \in Lines(r)' : (j \in Lines(r) /\ queue'[j] = queue[j]) \/ j = Len(queue) + 1
    BY <1>4, <1>6, <1>7, <1>8 DEF LineTo
<1>10. \A n : Has(r, n)' <=> Has(r, n) \/ (n = Text /\ n # EMPTY)
  <2> SUFFICES ASSUME NEW n PROVE Has(r, n)' <=> Has(r, n) \/ (n = Text /\ n # EMPTY)
      OBVIOUS
  <2>1. Has(r, n)' <=> \/ \E i \in 1..Len(printed'[r]) : printed'[r][i] = n
                       \/ n # EMPTY /\ \E i \in Lines(r)' : queue'[i].mtext = n
      BY DEF Has, Lines
  <2>2. Has(r, n) <=> \/ \E i \in 1..Len(printed[r]) : printed[r][i] = n
                      \/ n # EMPTY /\ \E i \in Lines(r) : queue[i].mtext = n
      BY HasByLines
  <2>3. (\E i \in Lines(r)' : queue'[i].mtext = n) <=> n = Text \/ \E i \in Lines(r) : queue[i].mtext = n
      BY <1>9
  <2>4. (\E i \in 1..Len(printed'[r]) : printed'[r][i] = n) <=> \E i \in 1..Len(printed[r]) : printed[r][i] = n
      BY <1>5
  <2> QED  BY <2>1, <2>2, <2>3, <2>4, Zenon
<1>11. \A i \in Lines(r) : queue[i].mtext # EMPTY
    BY <1>2 DEF EndInv, EndOf
<1>12. \A n \in Nat : Has(r, n) /\ ~atEof => n < lines /\ Has(r, lines - 1)
    BY <1>1, <1>2 DEF DueInv, DueFor, Working
<1>13. /\ \A i \in 1..Len(printed[r]) : printed[r][i] # EMPTY /\ printed[r][i] \in Nat /\ Has(r, printed[r][i])
       /\ \A i \in Lines(r) : queue[i].mtext \in Nat /\ Has(r, queue[i].mtext)
    BY <1>2, <1>11, HasByLines, TextsAreNumbers DEF LineInv, LineOf
<1>14. ASSUME NEW i \in 1..Len(printed[r]), NEW j \in Lines(r)', queue'[j].mtext # EMPTY
       PROVE  printed[r][i] < queue'[j].mtext
  <2>1. CASE j \in Lines(r) /\ queue'[j] = queue[j]
      BY <1>2, <1>14, <2>1 DEF LineInv, LineOf
  <2>2. CASE j = Len(queue) + 1
      BY <1>3, <1>9, <1>12, <1>13, <1>14, <2>2
  <2> QED  BY <1>9, <2>1, <2>2
<1>15. ASSUME NEW i \in Lines(r)', NEW j \in Lines(r)', i < j
       PROVE  queue'[i].mtext # EMPTY /\ (queue'[j].mtext # EMPTY => queue'[i].mtext < queue'[j].mtext)
  <2>1. i \in Lines(r) /\ queue'[i] = queue[i]
      BY <1>6, <1>7, <1>9, <1>15
  <2>2. CASE j \in Lines(r) /\ queue'[j] = queue[j]
      BY <1>2, <1>15, <2>1, <2>2 DEF LineInv, LineOf
  <2>3. CASE j = Len(queue) + 1
      BY <1>3, <1>9, <1>11, <1>12, <1>13, <2>1, <2>3
  <2> QED  BY <1>9, <2>2, <2>3
<1>16. ASSUME NEW n \in Nat, NEW l \in Nat, n < l, Has(r, n)', Has(r, l)' PROVE Has(r, n + 1)'
  <2>1. \A a, b \in Nat : a < b /\ Has(r, a) /\ Has(r, b) => Has(r, a + 1)
      BY <1>2 DEF LineInv, LineOf
  <2>2. CASE Has(r, n) /\ Has(r, l)
      BY <1>10, <1>16, <2>1, <2>2
  <2>3. CASE Has(r, n) /\ l = Text /\ l # EMPTY
    <3>1. ~atEof /\ l = lines /\ n < lines /\ Has(r, lines - 1) /\ lines - 1 \in Nat
        BY <1>1, <1>3, <1>12, <2>3
    <3>2. CASE n + 1 = lines
        BY <1>10, <2>3, <3>1, <3>2
    <3>3. CASE n < lines - 1
        BY <1>10, <2>1, <2>3, <3>1, <3>3
    <3> QED  BY <1>1, <3>1, <3>2, <3>3
  <2>4. CASE n = Text /\ n # EMPTY
    <3>1. ~atEof /\ n = lines
        BY <1>3, <2>4
    <3>2. l # Text /\ Has(r, l)
        BY <1>10, <1>16, <2>4
    <3> QED  BY <1>1, <1>12, <1>16, <3>1, <3>2
  <2> QED  BY <1>10, <1>16, <2>2, <2>3, <2>4
<1>17. LineOf(r)'
  <2>1. /\ \A i \in 1..Len(printed[r]) : printed[r][i] # EMPTY
        /\ \A i, j \in 1..Len(printed[r]) : i < j => printed[r][i] < printed[r][j]
      BY <1>2 DEF LineInv, LineOf
  <2> QED  BY <1>5, <1>14, <1>15, <1>16, <2>1 DEF LineOf
<1> QED  BY <1>2, <1>3, <1>9, <1>10, <1>11, <1>17

\* The line a receiver takes is its next one; after the empty message there is none.
LEMMA TakenLine ==
    ASSUME TypeOK, TypeOK', LineInv, NEW r \in Receivers, GetMessage(r)
    PROVE  /\ LineOf(r)'
           /\ \A n : Has(r, n)' <=> Has(r, n)
           /\ \A j \in Lines(r)' : \E i \in Lines(r) : queue'[j].mtext = queue[i].mtext
           /\ Lines(r) # {}
           /\ \/ UNCHANGED rPc
              \/ /\ rPc' = [rPc EXCEPT ![r] = "leaveQueue"] /\ Lines(r)' = {}
                 /\ \E i \in Lines(r) : queue[i].mtext = EMPTY
<1>1. Arrived(queue, r) /\ queue' = Rest(queue, r)
    BY DEF GetMessage
<1>2. PICK p \in 1..Len(queue) : \E f \in [1..Len(queue') -> 1..Len(queue)] :
             /\ queue[p].mtype = r /\ Message(queue, r) = queue[p]
             /\ \A i \in 1..(p - 1) : queue[i].mtype # r
             /\ Len(queue') = Len(queue) - 1
             /\ \A j \in 1..Len(queue') : queue'[j] = queue[f[j]] /\ f[j] # p
             /\ \A i, j \in 1..Len(queue') : i < j => f[i] < f[j]
             /\ \A i \in 1..Len(queue) : i # p => \E j \in 1..Len(queue') : f[j] = i
  <2>1. r \in Receivers \cup MsgTypes
      OBVIOUS
  <2> HIDE DEF TypeOK, LineInv
  <2> QED  BY <1>1, <2>1, TakenQueue, Zenon
<1>2a. PICK f \in [1..Len(queue') -> 1..Len(queue)] :
             /\ \A j \in 1..Len(queue') : queue'[j] = queue[f[j]] /\ f[j] # p
             /\ \A i, j \in 1..Len(queue') : i < j => f[i] < f[j]
             /\ \A i \in 1..Len(queue) : i # p => \E j \in 1..Len(queue') : f[j] = i
    BY <1>2
<1>3. \A j : j \in Lines(r)' <=> j \in 1..Len(queue') /\ LineTo(r, queue'[j])
    BY DEF Lines, LineTo
<1>4. \A j : j \in Lines(r) <=> j \in 1..Len(queue) /\ LineTo(r, queue[j])
    BY DEF Lines
<1>5. p \in Lines(r) /\ Len(queue) \in Nat /\ queue[p].mtext \in Nat
    BY <1>2, <1>4, TextsAreNumbers DEF LineTo
<1>6. \A j \in Lines(r)' : /\ f[j] \in Lines(r) /\ queue'[j] = queue[f[j]]
                           /\ p < f[j] /\ j \in 1..Len(queue')
  <2> SUFFICES ASSUME NEW j \in Lines(r)'
               PROVE  f[j] \in Lines(r) /\ queue'[j] = queue[f[j]] /\ p < f[j] /\ j \in 1..Len(queue')
      OBVIOUS
  <2>1. j \in 1..Len(queue') /\ queue'[j] = queue[f[j]] /\ f[j] # p /\ f[j] \in 1..Len(queue)
      BY <1>2a, <1>3
  <2>2. LineTo(r, queue[f[j]])
      BY <1>3, <2>1
  <2>3. f[j] \notin 1..(p - 1)
      BY <1>2, <2>2 DEF LineTo
  <2> QED  BY <1>4, <1>5, <2>1, <2>2, <2>3
<1>7. \A i \in Lines(r) : i # p => \E j \in Lines(r)' : queue'[j] = queue[i]
  <2> SUFFICES ASSUME NEW i \in Lines(r), i # p PROVE \E j \in Lines(r)' : queue'[j] = queue[i]
      OBVIOUS
  <2>1. PICK j \in 1..Len(queue') : f[j] = i
      BY <1>2a, <1>4
  <2> QED  BY <1>2a, <1>3, <1>4, <2>1
<1>8. LineOf(r)
    BY DEF LineInv
<1>9. \A i, j \in Lines(r) : i < j =>
        queue[i].mtext # EMPTY /\ (queue[j].mtext # EMPTY => queue[i].mtext < queue[j].mtext)
    BY <1>8 DEF LineOf
<1>10. \A i, j \in Lines(r)' : i < j =>
         queue'[i].mtext # EMPTY /\ (queue'[j].mtext # EMPTY => queue'[i].mtext < queue'[j].mtext)
  <2> SUFFICES ASSUME NEW i \in Lines(r)', NEW j \in Lines(r)', i < j
               PROVE  queue'[i].mtext # EMPTY
                        /\ (queue'[j].mtext # EMPTY => queue'[i].mtext < queue'[j].mtext)
      OBVIOUS
  <2>1. f[i] < f[j]
      BY <1>2a, <1>6
  <2>2. f[i] \in Lines(r) /\ f[j] \in Lines(r) /\ queue'[i] = queue[f[i]] /\ queue'[j] = queue[f[j]]
      BY <1>6
  <2>3. queue[f[i]].mtext # EMPTY
          /\ (queue[f[j]].mtext # EMPTY => queue[f[i]].mtext < queue[f[j]].mtext)
      BY <1>9, <2>1, <2>2
  <2> QED  BY <2>2, <2>3
<1>11. /\ Len(printed[r]) \in Nat /\ \A i \in 1..Len(printed[r]) : printed[r][i] \in Nat
       /\ printed[r] \in Seq(Nat)
    BY TextsAreNumbers DEF TypeOK
<1>12. \A n : Has(r, n) <=> \/ \E i \in 1..Len(printed[r]) : printed[r][i] = n
                            \/ n # EMPTY /\ \E i \in Lines(r) : queue[i].mtext = n
    BY HasByLines
<1>13. \A n : Has(r, n)' <=> \/ \E i \in 1..Len(printed'[r]) : printed'[r][i] = n
                             \/ n # EMPTY /\ \E i \in Lines(r)' : queue'[i].mtext = n
  <2>1. ASSUME NEW n
        PROVE  Has(r, n)' <=> \/ \E i \in 1..Len(printed'[r]) : printed'[r][i] = n
                              \/ n # EMPTY /\ \E i \in Lines(r)' : queue'[i].mtext = n
      BY DEF Has, Lines
  <2> QED  BY <2>1
<1>14. CASE queue[p].mtext = EMPTY
  <2>1. printed' = printed /\ rPc' = [rPc EXCEPT ![r] = "leaveQueue"]
      BY <1>2, <1>14 DEF GetMessage, Goto
  <2>2. Lines(r)' = {}
    <3>1. \A j \in Lines(r)' : FALSE
        BY <1>5, <1>6, <1>9, <1>14
    <3> QED  BY <3>1
  <2>3. \A i \in Lines(r) : queue[i].mtext = EMPTY
      BY <1>7, <1>14, <2>2
  <2>4. \A n : Has(r, n)' <=> Has(r, n)
      BY <1>12, <1>13, <2>1, <2>2, <2>3
  <2>5. LineOf(r)'
    <3>1. /\ \A i \in 1..Len(printed[r]) : printed[r][i] # EMPTY
          /\ \A i, j \in 1..Len(printed[r]) : i < j => printed[r][i] < printed[r][j]
          /\ \A n, m \in Nat : n < m /\ Has(r, n) /\ Has(r, m) => Has(r, n + 1)
        BY <1>8 DEF LineOf
    <3>2. \A n, m \in Nat : n < m /\ Has(r, n)' /\ Has(r, m)' => Has(r, n + 1)'
        BY <2>4, <3>1
    <3> QED  BY <2>1, <2>2, <3>1, <3>2 DEF LineOf
  <2> QED  BY <1>5, <1>14, <2>1, <2>2, <2>4, <2>5
<1>15. CASE queue[p].mtext # EMPTY
  <2> DEFINE t == queue[p].mtext
  <2>1. printed'[r] = Append(printed[r], t) /\ rPc' = rPc
      BY <1>2, <1>15 DEF GetMessage, TypeOK
  <2>2. /\ Len(printed'[r]) = Len(printed[r]) + 1 /\ printed'[r][Len(printed[r]) + 1] = t
        /\ \A i \in 1..Len(printed[r]) : printed'[r][i] = printed[r][i]
      BY <1>5, <1>11, <2>1, AppendProperties
  <2>3. \A i \in 1..Len(printed'[r]) : i \in 1..Len(printed[r]) \/ i = Len(printed[r]) + 1
      BY <1>11, <2>2
  <2>4. \A i \in 1..Len(printed[r]) : i \in 1..Len(printed'[r])
      BY <1>11, <2>2
  <2>5. Len(printed[r]) + 1 \in 1..Len(printed'[r])
      BY <1>11, <2>2
  <2>6. \A n : (\E i \in 1..Len(printed'[r]) : printed'[r][i] = n)
                 <=> n = t \/ \E i \in 1..Len(printed[r]) : printed[r][i] = n
      BY <2>2, <2>3, <2>4, <2>5
  <2>7. \A n : (\E i \in Lines(r) : queue[i].mtext = n)
                 <=> n = t \/ \E j \in Lines(r)' : queue'[j].mtext = n
      BY <1>5, <1>6, <1>7, SMTT(30)
  <2>8. \A n : Has(r, n)' <=> Has(r, n)
      BY <1>12, <1>13, <1>15, <2>6, <2>7
  <2>9. LineOf(r)'
    <3>1. /\ \A i \in 1..Len(printed[r]) : printed[r][i] # EMPTY /\ printed[r][i] < t
          /\ \A i, j \in 1..Len(printed[r]) : i < j => printed[r][i] < printed[r][j]
          /\ \A i \in 1..Len(printed[r]), j \in Lines(r) :
               queue[j].mtext # EMPTY => printed[r][i] < queue[j].mtext
          /\ \A n, m \in Nat : n < m /\ Has(r, n) /\ Has(r, m) => Has(r, n + 1)
        BY <1>5, <1>8, <1>15 DEF LineOf
    <3>2. \A n, m \in Nat : n < m /\ Has(r, n)' /\ Has(r, m)' => Has(r, n + 1)'
        BY <2>8, <3>1
    <3>3. \A i \in 1..Len(printed'[r]) : printed'[r][i] # EMPTY
        BY <1>15, <2>2, <2>3, <3>1
    <3>4. ASSUME NEW i \in 1..Len(printed'[r]), NEW j \in 1..Len(printed'[r]), i < j
          PROVE  printed'[r][i] < printed'[r][j]
      <4>1. i \in 1..Len(printed[r])
          BY <1>11, <2>2, <3>4
      <4>2. CASE j \in 1..Len(printed[r])
          BY <2>2, <3>1, <3>4, <4>1, <4>2
      <4>3. CASE j = Len(printed[r]) + 1
          BY <2>2, <3>1, <4>1, <4>3
      <4> QED  BY <2>3, <4>2, <4>3
    <3>5. ASSUME NEW i \in 1..Len(printed'[r]), NEW j \in Lines(r)', queue'[j].mtext # EMPTY
          PROVE  printed'[r][i] < queue'[j].mtext
      <4>1. CASE i \in 1..Len(printed[r])
          BY <1>6, <2>2, <3>1, <3>5, <4>1
      <4>2. CASE i = Len(printed[r]) + 1
          BY <1>5, <1>6, <1>9, <2>2, <3>5, <4>2
      <4> QED  BY <2>3, <4>1, <4>2
    <3> QED  BY <1>10, <3>2, <3>3, <3>4, <3>5 DEF LineOf
  <2>10. \A j \in Lines(r)' : \E i \in Lines(r) : queue'[j].mtext = queue[i].mtext
      BY <1>6
  <2> QED  BY <1>5, <2>1, <2>8, <2>9, <2>10
<1> QED  BY <1>14, <1>15

\* A removed queue leaves the printed lines, which have no gap between them.
LEMMA ClosedLines ==
    ASSUME TypeOK, TypeOK', CloseQueue, NEW r \in Receivers, LineOf(r)
    PROVE  LineOf(r)' /\ Lines(r)' = {}
<1>1. Len(queue') = 0 /\ printed' = printed
    BY DEF CloseQueue, receiverVars
<1>2. Lines(r)' = {}
    BY <1>1 DEF Lines
<1>3. \A n : Has(r, n)' <=> \E i \in 1..Len(printed[r]) : printed[r][i] = n
  <2>1. ASSUME NEW n PROVE Has(r, n)' <=> \E i \in 1..Len(printed[r]) : printed[r][i] = n
      BY <1>1 DEF Has
  <2> QED  BY <2>1
<1>4. \A n : Has(r, n) <=> \/ \E i \in 1..Len(printed[r]) : printed[r][i] = n
                           \/ n # EMPTY /\ \E i \in Lines(r) : queue[i].mtext = n
    BY HasByLines
<1>5. /\ \A i \in 1..Len(printed[r]) : printed[r][i] # EMPTY
      /\ \A i, j \in 1..Len(printed[r]) : i < j => printed[r][i] < printed[r][j]
      /\ \A i \in 1..Len(printed[r]), j \in Lines(r) :
           queue[j].mtext # EMPTY => printed[r][i] < queue[j].mtext
      /\ \A n, m \in Nat : n < m /\ Has(r, n) /\ Has(r, m) => Has(r, n + 1)
    BY DEF LineOf
<1>6. ASSUME NEW n \in Nat, NEW m \in Nat, n < m, Has(r, n)', Has(r, m)' PROVE Has(r, n + 1)'
  <2>1. Has(r, n + 1)
      BY <1>3, <1>4, <1>5, <1>6
  <2>2. CASE n + 1 # EMPTY /\ \E i \in Lines(r) : queue[i].mtext = n + 1
    <3>1. m < n + 1
        BY <1>3, <1>5, <1>6, <2>2
    <3> QED  BY <1>6, <3>1
  <2> QED  BY <1>3, <1>4, <2>1, <2>2
<1> QED  BY <1>1, <1>2, <1>5, <1>6 DEF LineOf

\* Every step keeps the lines of every receiver in order and without gaps.
LEMMA LineStep ==
    TypeOK /\ PlaceInv /\ LineInv /\ DueInv /\ EndInv /\ TypeOK' /\ [Next]_vars => LineInv'
<1> SUFFICES ASSUME TypeOK, PlaceInv, LineInv, DueInv, EndInv, TypeOK', [Next]_vars,
                    NEW r \in Receivers
             PROVE  LineOf(r)'
    BY DEF LineInv
<1>1. LineOf(r)
    BY DEF LineInv
<1>2. CASE SameLines(r)
    BY <1>1, <1>2, SameKept
<1>3. CASE CloseQueue
    BY <1>1, <1>3, ClosedLines
<1>4. CASE SendToListener /\ r = pids[k]
    BY <1>4, SentLine
<1>5. CASE GetMessage(r)
    BY <1>5, TakenLine
<1> QED  BY <1>2, <1>3, <1>4, <1>5, WhoseLines

\* What a receiver has changes when a line is sent to it, or the queue removed.
LEMMA HasStep ==
    ASSUME TypeOK, PlaceInv, LineInv, DueInv, EndInv, TypeOK', [Next]_vars, ~CloseQueue,
           NEW r \in Receivers, ~(SendToListener /\ r = pids[k])
    PROVE  /\ \A n : Has(r, n)' <=> Has(r, n)
           /\ \A j \in Lines(r)' : \E i \in Lines(r) : queue'[j].mtext = queue[i].mtext
<1>1. LineOf(r)
    BY DEF LineInv
<1>2. CASE SameLines(r)
    BY <1>1, <1>2, SameKept
<1>3. CASE GetMessage(r)
    BY <1>3, TakenLine
<1> QED  BY <1>2, <1>3, WhoseLines

-----------------------------------------------------------------------------
(* What is due to the listeners. *)

\* What a step of a receiver leaves to the sender.
LEMMA ReceiverLeaves ==
    ASSUME NEW q \in Receivers,
           GetQueue(q) \/ Register(q) \/ GetMessage(q) \/ LeaveQueue(q) \/ ReceiverFails(q)
             \/ KillReceiver(q)
    PROVE  /\ UNCHANGED <<senderVars, senderKills>>
           /\ Listeners' = Listeners
           /\ \A r : Unsent(r)' <=> Unsent(r)
<1>1. UNCHANGED <<senderVars, senderKills>>
    BY DEF GetQueue, Register, GetMessage, LeaveQueue, ReceiverFails, KillReceiver, killVars
<1>2. Listeners' = Listeners
    BY <1>1 DEF senderVars, Listeners
<1>3. \A r : Unsent(r)' <=> Unsent(r)
  <2>1. ASSUME NEW r PROVE Unsent(r)' <=> Unsent(r)
      BY <1>1 DEF senderVars, Unsent
  <2> QED  BY <2>1
<1> QED  BY <1>1, <1>2, <1>3

\* The other steps that leave a listener with or without the text at hand.
LEMMA UnsentStep ==
    ASSUME TypeOK, PlaceInv
    PROVE  /\ AddListener => \A r : Unsent(r)' /\ Unsent(r)
           /\ AddDone => \A r : Unsent(r)' /\ Unsent(r)
           /\ DelDone => \A r \in Listeners : Unsent(r)' /\ Unsent(r)
           /\ SendToListener => \A r : IF r = pids[k] THEN Unsent(r) /\ ~Unsent(r)'
                                                     ELSE Unsent(r)' <=> Unsent(r)
           /\ SendDone \/ TakeAnswer \/ AnswersDone \/ CloseQueue \/ KillSender
                \/ CreateQueue => \A r : ~Unsent(r)'
           /\ SendDone \/ ReadLine \/ TakeAnswer \/ AnswersDone \/ CloseQueue => \A r : ~Unsent(r)
<1>1. pids \in Seq(Receivers) /\ Len(pids) \in Nat /\ k \in Nat
    BY LenProperties DEF TypeOK
<1>2. \A r : r \in Listeners => \E i \in 1..Len(pids) : pids[i] = r
    BY <1>1, ListenerAt
<1>3. AddListener \/ AddDone => \A r : Unsent(r)' /\ Unsent(r)
  <2>1. ASSUME AddListener \/ AddDone, NEW r PROVE Unsent(r)' /\ Unsent(r)
      BY <2>1 DEF AddListener, AddDone, Unsent
  <2> QED  BY <2>1
<1>4. DelDone => \A r \in Listeners : Unsent(r)' /\ Unsent(r)
  <2>1. ASSUME DelDone, NEW r \in Listeners PROVE Unsent(r)' /\ Unsent(r)
      BY <1>2, <2>1 DEF DelDone, Unsent
  <2> QED  BY <2>1
<1>5. ASSUME SendToListener, NEW r
      PROVE  IF r = pids[k] THEN Unsent(r) /\ ~Unsent(r)' ELSE Unsent(r)' <=> Unsent(r)
  <2>1. /\ sPc = "sendMessage" /\ sPc' = "sendMessage"
        /\ k' = k + 1 /\ pids' = pids /\ k \in 1..Len(pids)
      BY <1>1, <1>5 DEF SendToListener, TypeOK
  <2>2. Unsent(r) <=> \E j \in k..Len(pids) : pids[j] = r
      BY <2>1 DEF Unsent
  <2>3. Unsent(r)' <=> \E j \in (k + 1)..Len(pids) : pids[j] = r
      BY <2>1 DEF Unsent
  <2>4. CASE r = pids[k]
    <3>1. \A j \in (k + 1)..Len(pids) : pids[j] # r
        BY <1>1, <2>1, <2>4 DEF PlaceInv
    <3>2. k \in k..Len(pids)
        BY <1>1, <2>1
    <3> QED  BY <2>2, <2>3, <2>4, <3>1, <3>2
  <2>5. CASE r # pids[k]
      BY <1>1, <2>1, <2>2, <2>3, <2>5
  <2> QED  BY <2>4, <2>5
<1>6. ASSUME SendDone \/ TakeAnswer \/ AnswersDone \/ CloseQueue \/ KillSender \/ CreateQueue, NEW r
      PROVE  ~Unsent(r)'
    BY <1>6 DEF SendDone, TakeAnswer, AnswersDone, CloseQueue, KillSender, CreateQueue, Unsent
<1>7. ASSUME SendDone \/ ReadLine \/ TakeAnswer \/ AnswersDone \/ CloseQueue, NEW r
      PROVE  ~Unsent(r)
  <2>1. CASE SendDone
      BY <1>1, <2>1 DEF SendDone, Unsent
  <2>2. CASE ReadLine \/ TakeAnswer \/ AnswersDone \/ CloseQueue
      BY <2>2 DEF ReadLine, TakeAnswer, AnswersDone, CloseQueue, Unsent
  <2> QED  BY <1>7, <2>1, <2>2
<1>8. SendToListener => \A r : IF r = pids[k] THEN Unsent(r) /\ ~Unsent(r)'
                                             ELSE Unsent(r)' <=> Unsent(r)
    BY <1>5
<1> QED  BY <1>3, <1>4, <1>6, <1>7, <1>8

\* Who is added to the listeners was sent nothing yet.
LEMMA Newcomer ==
    ASSUME TypeOK, RegInv, AddListener
    PROVE  \E pid \in Receivers \ served :
             /\ Listeners' = Listeners \cup {pid} /\ served' = served \cup {pid}
             /\ Lines(pid) = {} /\ rPc[pid] \notin {"leaveQueue", "done"}
             /\ \A n : ~Has(pid, n)
<1> DEFINE pid == Message(queue, "MSG_TYPE_REG").pid
<1>1. pid \in Receivers \ served /\ pids' = Append(pids, pid) /\ served' = served \cup {pid}
    BY RegisteredIsNew DEF AddListener
<1> HIDE DEF pid
<1>2. /\ printed[pid] = << >> /\ rPc[pid] \notin {"leaveQueue", "done"}
      /\ Lines(pid) = {}
    BY <1>1 DEF RegInv, Lines
<1>3. Len(printed[pid]) = 0
    BY <1>2
<1>4. \A n : ~Has(pid, n)
    BY <1>2, <1>3, HasByLines
<1>5. Listeners' = Listeners \cup {pid}
  <2>1. pids \in Seq(Receivers) /\ pids' \in Seq(Receivers) /\ Len(pids) \in Nat
        /\ Len(pids') = Len(pids) + 1 /\ pids'[Len(pids) + 1] = pid
        /\ \A i \in 1..Len(pids) : pids'[i] = pids[i]
      BY <1>1, AppendProperties, LenProperties DEF TypeOK
  <2>2. DOMAIN pids = 1..Len(pids) /\ DOMAIN pids' = 1..Len(pids')
      BY <2>1, LenProperties
  <2>3. \A r : r \in Listeners <=> \E i \in 1..Len(pids) : pids[i] = r
      BY <2>2 DEF Listeners, ToSet
  <2>4. \A r : r \in Listeners' <=> \E i \in 1..Len(pids') : pids'[i] = r
      BY <2>2 DEF Listeners, ToSet
  <2>5. \A i \in 1..Len(pids') : i \in 1..Len(pids) \/ i = Len(pids) + 1
      BY <2>1
  <2>6. Len(pids) + 1 \in 1..Len(pids') /\ \A i \in 1..Len(pids) : i \in 1..Len(pids')
      BY <2>1
  <2> QED  BY <2>1, <2>3, <2>4, <2>5, <2>6
<1> QED  BY <1>1, <1>2, <1>4, <1>5

\* An answer takes its sender out of the listeners, or the sender stops.
LEMMA Answering ==
    ASSUME TypeOK, PlaceInv, TakeAnswer
    PROVE  LET pid == Message(queue, "MSG_TYPE_END_ANSWER").pid
           IN  /\ sPc = "waitAnswers"
               /\ \/ sPc' = "waitAnswers" /\ pid \in Listeners /\ Listeners' = Listeners \ {pid}
                  \/ sPc' = "abort" /\ pid \notin Listeners /\ Listeners' = Listeners
<1> DEFINE pid == Message(queue, "MSG_TYPE_END_ANSWER").pid
<1>1. /\ sPc = "waitAnswers"
      /\ IF Contains(pids, pid) THEN pids' = RemoveFirst(pids, pid) /\ sPc' = sPc
         ELSE sPc' = "abort" /\ pids' = pids
    BY DEF TakeAnswer
<1> HIDE DEF pid
<1>2. pids \in Seq(Receivers)
    BY DEF TypeOK
<1>3. Contains(pids, pid) <=> pid \in Listeners
    BY <1>2, ListenerAt DEF Contains
<1>4. CASE Contains(pids, pid)
  <2>1. ToSet(pids') = ToSet(pids) \ {pid}
      BY <1>1, <1>2, <1>4, RemoveFirstProperties DEF PlaceInv
  <2> QED  BY <1>1, <1>3, <1>4, <2>1 DEF Listeners, pid
<1>5. CASE ~Contains(pids, pid)
    BY <1>1, <1>3, <1>5 DEF Listeners, pid
<1> QED  BY <1>4, <1>5

\* Every step keeps the listeners up with the lines.
LEMMA DueStep ==
    TypeOK /\ PlaceInv /\ RegInv /\ LineInv /\ DueInv /\ EndInv /\ TypeOK' /\ [Next]_vars => DueInv'
<1> SUFFICES ASSUME TypeOK, PlaceInv, RegInv, LineInv, DueInv, EndInv, TypeOK', [Next]_vars,
                    sPc' \in Working, NEW r \in Listeners', NEW n \in Nat, Has(r, n)'
             PROVE  DueFor(r, n)'
    BY DEF DueInv, Working
<1> PICK last : last = lines
    OBVIOUS
<1> PICK next : next = lines'
    OBVIOUS
<1>1. DueFor(r, n)' <=> IF Unsent(r)' /\ ~atEof' THEN n < next /\ Has(r, next - 1)'
                        ELSE n <= next /\ Has(r, next)'
    BY DEF DueFor
<1>2. sPc \in Working /\ r \in Listeners /\ Has(r, n) =>
        IF Unsent(r) /\ ~atEof THEN n < last /\ Has(r, last - 1) ELSE n <= last /\ Has(r, last)
    BY DEF DueInv, DueFor
<1>3. /\ Listeners \subseteq Receivers /\ r \in Receivers /\ last \in Nat
  <2>1. ASSUME NEW list \in Seq(Receivers) PROVE ToSet(list) \subseteq Receivers
    <3>1. \A i \in DOMAIN list : list[i] \in Receivers
        BY ElementOfSeq, LenProperties
    <3> QED  BY <3>1 DEF ToSet
  <2> QED  BY <2>1 DEF Listeners, TypeOK
<1>4. ASSUME ~CloseQueue, ~SendToListener PROVE \A i : Has(r, i)' <=> Has(r, i)
    BY <1>3, <1>4, HasStep
<1>5. ASSUME sPc \in Working, r \in Listeners, \A i : Has(r, i)' <=> Has(r, i),
             Unsent(r)' <=> Unsent(r), atEof' = atEof, next = last
      PROVE  DueFor(r, n)'
    BY <1>1, <1>2, <1>5
<1>6. CASE UNCHANGED vars
  <2>1. UNCHANGED <<senderVars, queue, printed>>
      BY <1>6 DEF vars, receiverVars
  <2>2. /\ Listeners' = Listeners /\ (Unsent(r)' <=> Unsent(r))
        /\ sPc' = sPc /\ lines' = lines /\ atEof' = atEof
      BY <2>1 DEF senderVars, Listeners, Unsent
  <2>3. \A i : Has(r, i)' <=> Has(r, i)
    <3>1. ASSUME NEW i PROVE Has(r, i)' <=> Has(r, i)
        BY <2>1 DEF Has, LineTo
    <3> QED  BY <3>1
  <2> QED  BY <1>5, <2>2, <2>3
<1>7. CASE CreateQueue
  <2>1. pids' = << >>
      BY <1>7 DEF CreateQueue, PlaceInv
  <2>2. Listeners' = {}
      BY <2>1 DEF Listeners, ToSet
  <2> QED  BY <2>2
<1>8. CASE ReadLine
  <2>1. /\ sPc = "fgets" /\ ~atEof /\ sPc' = "addListeners" /\ Listeners' = Listeners
        /\ \/ next = last + 1 /\ ~atEof'
           \/ next = last /\ atEof'
      BY <1>8 DEF ReadLine, PlaceInv, Listeners
  <2>2. Unsent(r)' /\ ~Unsent(r)
      BY <2>1 DEF Unsent
  <2>3. \A i : Has(r, i)' <=> Has(r, i)
      BY <1>4, <1>8, <2>1 DEF CloseQueue, SendToListener
  <2>4. n <= last /\ Has(r, last)
      BY <1>2, <2>1, <2>2, <2>3 DEF Working
  <2>5. CASE next = last + 1 /\ ~atEof'
    <3>1. n < next /\ next - 1 = last
        BY <1>3, <2>4, <2>5
    <3> QED  BY <1>1, <2>2, <2>3, <2>4, <2>5, <3>1
  <2>6. CASE next = last /\ atEof'
      BY <1>1, <2>3, <2>4, <2>6
  <2> QED  BY <2>1, <2>5, <2>6
<1>9. CASE AddListener
  <2>1. sPc = "addListeners" /\ UNCHANGED <<sPc, lines, atEof>>
      BY <1>9 DEF AddListener
  <2>2. \A i : Has(r, i)' <=> Has(r, i)
      BY <1>4, <2>1 DEF CloseQueue, SendToListener
  <2>3. r \in Listeners
      BY <1>9, <2>2, Newcomer
  <2>4. Unsent(r)' <=> Unsent(r)
      BY <1>9, UnsentStep
  <2> QED  BY <1>5, <2>1, <2>2, <2>3, <2>4 DEF Working
<1>10. CASE AddDone \/ DelDone \/ SendDone
  <2>1. /\ sPc \in Working /\ (sPc # "sendMessage" \/ k > Len(pids))
        /\ sPc \notin {"closeQueue", "abort"} /\ UNCHANGED <<lines, atEof>> /\ Listeners' = Listeners
      BY <1>10 DEF AddDone, DelDone, SendDone, Working, Listeners
  <2>2. \A i : Has(r, i)' <=> Has(r, i)
    <3>1. ~CloseQueue /\ ~SendToListener
      <4>1. Len(pids) \in Nat /\ k \in Nat
          BY LenProperties DEF TypeOK
      <4> QED  BY <2>1, <4>1 DEF CloseQueue, SendToListener
    <3> QED  BY <1>4, <3>1
  <2>3. Unsent(r)' <=> Unsent(r)
      BY <1>10, <2>1, UnsentStep
  <2> QED  BY <1>5, <1>10, <2>1, <2>2, <2>3 DEF AddDone, DelDone, SendDone, Working
<1>11. CASE SendToListener
  <2>1. /\ sPc = "sendMessage" /\ UNCHANGED <<sPc, lines, atEof>> /\ Listeners' = Listeners
      BY <1>11 DEF SendToListener, Listeners
  <2>2. CASE r # pids[k]
    <3>1. \A i : Has(r, i)' <=> Has(r, i)
        BY <1>3, <1>11, <2>1, <2>2, HasStep DEF CloseQueue
    <3>2. Unsent(r)' <=> Unsent(r)
        BY <1>11, <2>2, UnsentStep
    <3> QED  BY <1>5, <2>1, <3>1, <3>2 DEF Working
  <2>3. CASE r = pids[k]
    <3>1. Unsent(r) /\ ~Unsent(r)'
        BY <1>11, <2>3, UnsentStep
    <3>2. /\ Text = EMPTY <=> atEof
          /\ \A i : Has(r, i)' <=> Has(r, i) \/ (i = Text /\ i # EMPTY)
        BY <1>11, <2>3, SentLine
    <3>3. CASE atEof
        BY <1>1, <1>2, <2>1, <3>2, <3>3 DEF Working
    <3>4. CASE ~atEof
      <4>1. Text = last /\ Has(r, last)'
          BY <3>2, <3>4 DEF Text
      <4>2. n <= last
          BY <1>2, <1>3, <2>1, <3>1, <3>2, <3>4, <4>1 DEF Working
      <4> QED  BY <1>1, <2>1, <3>1, <4>1, <4>2
    <3> QED  BY <3>3, <3>4
  <2> QED  BY <2>2, <2>3
<1>12. CASE TakeAnswer
  <2>1. sPc = "waitAnswers" /\ UNCHANGED <<lines, atEof>> /\ r \in Listeners
    <3>1. sPc = "waitAnswers" /\ UNCHANGED <<lines, atEof>>
        BY <1>12 DEF TakeAnswer
    <3>2. r \in Listeners
        BY <1>12, Answering
    <3> QED  BY <3>1, <3>2
  <2>2. \A i : Has(r, i)' <=> Has(r, i)
      BY <1>4, <2>1 DEF CloseQueue, SendToListener
  <2>3. Unsent(r)' <=> Unsent(r)
      BY <1>12, UnsentStep
  <2> QED  BY <1>5, <2>1, <2>2, <2>3 DEF Working
<1>13. CASE AnswersDone \/ CloseQueue \/ KillSender
    BY <1>13 DEF AnswersDone, CloseQueue, KillSender, Working
<1>14. ASSUME NEW q \in Receivers,
              GetQueue(q) \/ Register(q) \/ GetMessage(q) \/ LeaveQueue(q) \/ ReceiverFails(q)
                \/ KillReceiver(q)
       PROVE  DueFor(r, n)'
  <2>1. /\ UNCHANGED <<sPc, lines, atEof, k>> /\ Listeners' = Listeners /\ (Unsent(r)' <=> Unsent(r))
      BY <1>14, ReceiverLeaves DEF senderVars
  <2>2. ~SendToListener /\ ~CloseQueue
    <3>1. k \in Nat
        BY DEF TypeOK
    <3> QED  BY <2>1, <3>1 DEF SendToListener, CloseQueue, Working
  <2> QED  BY <1>4, <1>5, <2>1, <2>2
<1> QED
    BY <1>6, <1>7, <1>8, <1>9, <1>10, <1>11, <1>12, <1>13, <1>14 DEF Next, SenderStep, ReceiverStep

-----------------------------------------------------------------------------
(* The end of the input, and the answers. *)

\* Answers left of a queue are answers that were there.
LEMMA FewerAnswers ==
    ASSUME TypeOK, NEW r \in Receivers, NEW t \in MsgTypes \cup Receivers, Arrived(queue, t),
           queue' = Rest(queue, t), \A i, j \in Answers(r) : i = j
    PROVE  /\ \A i, j \in Answers(r)' : i = j
           /\ Answers(r)' # {} => Answers(r) # {}
           /\ AnswerOf(r, Message(queue, t)) => Answers(r)' = {}
<1>1. PICK p \in 1..Len(queue) : \E f \in [1..Len(queue') -> 1..Len(queue)] :
             /\ queue[p].mtype = t /\ Message(queue, t) = queue[p]
             /\ \A i \in 1..(p - 1) : queue[i].mtype # t
             /\ Len(queue') = Len(queue) - 1
             /\ \A j \in 1..Len(queue') : queue'[j] = queue[f[j]] /\ f[j] # p
             /\ \A i, j \in 1..Len(queue') : i < j => f[i] < f[j]
             /\ \A i \in 1..Len(queue) : i # p => \E j \in 1..Len(queue') : f[j] = i
  <2>1. t \in Receivers \cup MsgTypes
      OBVIOUS
  <2> QED  BY <2>1, TakenQueue
<1>1a. PICK f \in [1..Len(queue') -> 1..Len(queue)] :
             /\ \A j \in 1..Len(queue') : queue'[j] = queue[f[j]] /\ f[j] # p
             /\ \A i, j \in 1..Len(queue') : i < j => f[i] < f[j]
    BY <1>1
<1>2. \A j : j \in Answers(r)' <=> j \in 1..Len(queue') /\ AnswerOf(r, queue'[j])
    BY DEF Answers, AnswerOf
<1>3. \A j : j \in Answers(r) <=> j \in 1..Len(queue) /\ AnswerOf(r, queue[j])
    BY DEF Answers
<1>4. \A j \in Answers(r)' : f[j] \in Answers(r) /\ f[j] # p /\ j \in 1..Len(queue')
    BY <1>1a, <1>2, <1>3
<1>5. Len(queue') \in Nat /\ Len(queue) \in Nat
  <2>1. queue \in Seq(Messages)
      BY DEF TypeOK
  <2>2. queue' \in Seq(Messages)
    <3> HIDE DEF TypeOK
    <3> QED  BY <2>1, ReceiveTyped
  <2> QED  BY <2>1, <2>2, LenProperties
<1>6. ASSUME NEW i \in Answers(r)', NEW j \in Answers(r)' PROVE i = j
  <2>1. f[i] = f[j] /\ f[i] \in 1..Len(queue) /\ f[j] \in 1..Len(queue)
      BY <1>3, <1>4
  <2>2. i \in 1..Len(queue') /\ j \in 1..Len(queue')
      BY <1>4
  <2>3. ~(i < j) /\ ~(j < i)
      BY <1>1a, <1>5, <2>1, <2>2
  <2> QED  BY <2>2, <2>3
<1>7. ASSUME AnswerOf(r, Message(queue, t)), NEW j \in Answers(r)' PROVE FALSE
  <2>1. p \in Answers(r)
      BY <1>1, <1>3, <1>7
  <2> QED  BY <1>4, <2>1
<1>8. AnswerOf(r, Message(queue, t)) => Answers(r)' = {}
    BY <1>7
<1> QED  BY <1>4, <1>6, <1>8

\* A step leaves the answers of r, or takes them, unless r gives its answer.
LEMMA AnswersStep ==
    ASSUME TypeOK, [Next]_vars, NEW r \in Receivers, ~LeaveQueue(r), \A i, j \in Answers(r) : i = j
    PROVE  /\ \A i, j \in Answers(r)' : i = j
           /\ Answers(r)' # {} => Answers(r) # {}
<1>1. CASE UNCHANGED queue
  <2>1. Answers(r)' = Answers(r)
      BY <1>1 DEF Answers, AnswerOf
  <2> QED  BY <2>1
<1>2. CASE \E t \in MsgTypes \cup Receivers : Arrived(queue, t) /\ queue' = Rest(queue, t)
  <2>1. PICK t \in MsgTypes \cup Receivers : Arrived(queue, t) /\ queue' = Rest(queue, t)
      BY <1>2
  <2> QED  BY <2>1, FewerAnswers
<1>3. CASE \E m \in Messages : ~AnswerOf(r, m) /\ queue' = Append(queue, m)
  <2>1. PICK m \in Messages : ~AnswerOf(r, m) /\ queue' = Append(queue, m)
      BY <1>3
  <2>2. /\ \A j \in 1..Len(queue) : queue'[j] = queue[j]
        /\ \A j \in 1..Len(queue') : j \in 1..Len(queue) \/ queue'[j] = m
    <3>1. /\ \A j \in 1..Len(queue) : queue'[j] = queue[j]
          /\ \A j \in 1..Len(queue') : j \in 1..Len(queue) \/ j = Len(queue) + 1
          /\ queue'[Len(queue) + 1] = m
        BY <2>1, SentQueue
    <3> QED  BY <3>1
  <2>3. \A j \in Answers(r)' : j \in Answers(r)
    <3>1. \A j \in Answers(r)' : j \in 1..Len(queue') /\ AnswerOf(r, queue'[j])
        BY DEF Answers, AnswerOf
    <3>2. \A j \in 1..Len(queue) : AnswerOf(r, queue[j]) => j \in Answers(r)
        BY DEF Answers
    <3> QED  BY <2>1, <2>2, <3>1, <3>2
  <2> QED  BY <2>3
<1>4. CASE queue' = << >>
  <2>1. Len(queue') = 0
      BY <1>4
  <2>2. Answers(r)' = {}
      BY <2>1 DEF Answers
  <2> QED  BY <2>2
<1>5. CASE SendToListener
  <2>1. k \in 1..Len(pids) /\ pids \in Seq(Receivers) /\ Text \in Nat
      BY <1>5 DEF SendToListener, TypeOK, Text, EMPTY
  <2>2. pids[k] \in Receivers
      BY <2>1, ElementOfSeq
  <2> DEFINE m == [mtype |-> pids[k], mtext |-> Text]
  <2>3. m \in Messages /\ m.mtype = pids[k]
      BY <2>1, <2>2 DEF Messages
  <2>4. queue' = Append(queue, m)
      BY <1>5 DEF SendToListener
  <2> HIDE DEF m
  <2>5. ~AnswerOf(r, m)
      BY <2>2, <2>3, TypesAssumption DEF AnswerOf
  <2> QED  BY <1>3, <2>3, <2>4, <2>5
<1>6. ASSUME NEW q \in Receivers, Register(q) \/ (LeaveQueue(q) /\ q # r)
      PROVE  \E m \in Messages : ~AnswerOf(r, m) /\ queue' = Append(queue, m)
  <2>1. PICK mtype \in {"MSG_TYPE_REG", "MSG_TYPE_END_ANSWER"} :
          queue' = Append(queue, [mtype |-> mtype, pid |-> q]) /\ (mtype = "MSG_TYPE_REG" \/ q # r)
      BY <1>6 DEF Register, LeaveQueue, SendPid
  <2> DEFINE m == [mtype |-> mtype, pid |-> q]
  <2>2. m \in Messages /\ m.mtype = mtype /\ m.pid = q
      BY <2>1 DEF Messages
  <2> HIDE DEF m
  <2>3. queue' = Append(queue, m)
      BY <2>1 DEF m
  <2> QED  BY <2>1, <2>2, <2>3 DEF AnswerOf
<1>7. CASE AddListener \/ TakeAnswer
    BY <1>2, <1>7 DEF AddListener, TakeAnswer, MsgTypes
<1>8. ASSUME NEW q \in Receivers, GetMessage(q)
      PROVE  \E t \in MsgTypes \cup Receivers : Arrived(queue, t) /\ queue' = Rest(queue, t)
    BY <1>8 DEF GetMessage
<1>9. CASE UNCHANGED vars \/ CreateQueue \/ ReadLine \/ AddDone \/ DelDone \/ SendDone \/ AnswersDone
             \/ KillSender
    BY <1>1, <1>9 DEF vars, CreateQueue, ReadLine, AddDone, DelDone, SendDone, AnswersDone, KillSender
<1>10. ASSUME NEW q \in Receivers, GetQueue(q) \/ ReceiverFails(q) \/ KillReceiver(q)
       PROVE  UNCHANGED queue
    BY <1>10 DEF GetQueue, ReceiverFails, KillReceiver
<1>11. CASE CloseQueue
    BY <1>4, <1>11 DEF CloseQueue
<1> QED
    BY <1>1, <1>2, <1>3, <1>5, <1>6, <1>7, <1>8, <1>9, <1>10, <1>11 DEF Next, SenderStep, ReceiverStep

\* The steps that send no line and leave the queue are no others.
LEMMA StepsApart ==
    ASSUME TypeOK
    PROVE  /\ CreateQueue \/ ReadLine \/ AddListener \/ AddDone \/ DelDone \/ SendDone \/ TakeAnswer
                \/ AnswersDone \/ KillSender => ~CloseQueue /\ ~SendToListener
           /\ UNCHANGED senderVars => ~CloseQueue /\ ~SendToListener
<1>1. Len(pids) \in Nat /\ k \in Nat
    BY LenProperties DEF TypeOK
<1>2. CASE UNCHANGED senderVars
    BY <1>1, <1>2 DEF senderVars, CloseQueue, SendToListener, CreateQueue, ReadLine, AddListener, AddDone,
          DelDone, SendDone, TakeAnswer, AnswersDone, KillSender
<1>3. CASE CreateQueue \/ ReadLine \/ AddListener \/ AddDone \/ DelDone \/ TakeAnswer \/ AnswersDone
    BY <1>3 DEF CloseQueue, SendToListener, CreateQueue, ReadLine, AddListener, AddDone, DelDone,
          TakeAnswer, AnswersDone
<1>4. CASE SendDone
    BY <1>1, <1>4 DEF SendDone, CloseQueue, SendToListener
<1>5. CASE KillSender
    BY <1>5 DEF KillSender, CloseQueue, SendToListener
<1> QED  BY <1>2, <1>3, <1>4, <1>5

\* Every step keeps the empty message last and the answers single.
LEMMA EndStep ==
    TypeOK /\ PlaceInv /\ RegInv /\ LineInv /\ DueInv /\ EndInv /\ TypeOK' /\ [Next]_vars => EndInv'
<1> SUFFICES ASSUME TypeOK, PlaceInv, RegInv, LineInv, DueInv, EndInv, TypeOK', [Next]_vars,
                    NEW r \in Receivers
             PROVE  EndOf(r)'
    BY DEF EndInv
<1> DEFINE Ending == rPc[r] \in {"leaveQueue", "done"} \/ \E i \in Lines(r) : queue[i].mtext = EMPTY
<1>1. /\ \A i \in Lines(r) : rPc[r] \notin {"leaveQueue", "done"}
      /\ Ending /\ r \in Listeners => atEof /\ ~Unsent(r)
      /\ Answers(r) # {} => rPc[r] = "done"
      /\ \A i, j \in Answers(r) : i = j
    BY DEF EndInv, EndOf
<1>2. /\ rPc[r] \in {"leaveQueue", "done"} => Ending
      /\ \A i \in Lines(r) : queue[i].mtext = EMPTY => Ending
    OBVIOUS
<1> HIDE DEF Ending
<1>3. ASSUME ~CloseQueue, ~(SendToListener /\ r = pids[k]),
             \/ rPc'[r] = rPc[r]
             \/ /\ Lines(r)' = {} /\ rPc'[r] # "done" /\ rPc[r] # "done"
                /\ rPc'[r] = "leaveQueue" => Ending,
             r \in Listeners' /\ Ending => atEof' /\ ~Unsent(r)'
      PROVE  EndOf(r)'
  <2>1. ~LeaveQueue(r)
      BY <1>3 DEF LeaveQueue, Goto, TypeOK
  <2>2. /\ \A j \in Lines(r)' : \E i \in Lines(r) : queue'[j].mtext = queue[i].mtext
        /\ \A i, j \in Answers(r)' : i = j
        /\ Answers(r)' # {} => Answers(r) # {}
      BY <1>1, <1>3, <2>1, HasStep, AnswersStep
  <2>3. ASSUME NEW j \in Lines(r)'
        PROVE  rPc'[r] \notin {"leaveQueue", "done"} /\ (queue'[j].mtext = EMPTY => Ending)
      BY <1>1, <1>2, <1>3, <2>2, <2>3
  <2>4. rPc'[r] \in {"leaveQueue", "done"} => Ending
      BY <1>2, <1>3
  <2>5. Answers(r)' # {} => rPc'[r] = "done"
      BY <1>1, <1>3, <2>2
  <2> QED  BY <1>3, <2>2, <2>3, <2>4, <2>5 DEF EndOf
<1>4. ASSUME ~CloseQueue, ~SendToListener, rPc' = rPc,
             r \in Listeners' => r \in Listeners /\ atEof' = atEof /\ (Unsent(r)' => Unsent(r))
      PROVE  EndOf(r)'
    BY <1>1, <1>3, <1>4
<1>5. CASE UNCHANGED vars
  <2>1. UNCHANGED <<senderVars, rPc>>
      BY <1>5 DEF vars, receiverVars
  <2>2. Listeners' = Listeners /\ (Unsent(r)' <=> Unsent(r)) /\ atEof' = atEof
      BY <2>1 DEF senderVars, Listeners, Unsent
  <2> QED  BY <1>4, <2>1, <2>2, StepsApart
<1>6. CASE CreateQueue \/ KillSender
  <2>1. pids' = << >> /\ rPc' = rPc
      BY <1>6 DEF CreateQueue, KillSender, PlaceInv, receiverVars
  <2>2. Listeners' = {}
      BY <2>1 DEF Listeners, ToSet
  <2> QED  BY <1>4, <1>6, <2>1, <2>2, StepsApart
<1>7. CASE ReadLine
  <2>1. sPc = "fgets" /\ ~atEof /\ rPc' = rPc /\ Listeners' = Listeners
      BY <1>7 DEF ReadLine, PlaceInv, receiverVars, Listeners
  <2> QED  BY <1>1, <1>3, <1>7, <2>1, StepsApart
<1>8. CASE AddListener
  <2>1. rPc' = rPc /\ UNCHANGED atEof /\ \A q : Unsent(q)
      BY <1>8, UnsentStep DEF AddListener, receiverVars
  <2>2. PICK pid \in Receivers \ served :
             /\ Listeners' = Listeners \cup {pid}
             /\ Lines(pid) = {} /\ rPc[pid] \notin {"leaveQueue", "done"}
      BY <1>8, Newcomer
  <2>3. r = pid => ~Ending
      BY <2>2 DEF Ending
  <2> QED  BY <1>1, <1>3, <1>8, <2>1, <2>2, <2>3, StepsApart
<1>9. CASE AddDone \/ DelDone \/ SendDone \/ AnswersDone
  <2>1. rPc' = rPc /\ Listeners' = Listeners /\ UNCHANGED atEof
      BY <1>9 DEF AddDone, DelDone, SendDone, AnswersDone, receiverVars, Listeners
  <2>2. r \in Listeners => (Unsent(r)' => Unsent(r))
      BY <1>9, UnsentStep
  <2> QED  BY <1>4, <1>9, <2>1, <2>2, StepsApart
<1>10. CASE TakeAnswer
  <2>1. rPc' = rPc /\ UNCHANGED atEof /\ ~Unsent(r)'
      BY <1>10, UnsentStep DEF TakeAnswer, receiverVars
  <2>2. r \in Listeners' => r \in Listeners
      BY <1>10, Answering
  <2> QED  BY <1>4, <1>10, <2>1, <2>2, StepsApart
<1>11. CASE SendToListener
  <2>1. rPc' = rPc /\ Listeners' = Listeners /\ UNCHANGED atEof /\ ~CloseQueue
      BY <1>11 DEF SendToListener, CloseQueue, receiverVars, Listeners
  <2>2. CASE r # pids[k]
    <3>1. Unsent(r)' <=> Unsent(r)
        BY <1>11, <2>2, UnsentStep
    <3> QED  BY <1>1, <1>3, <2>1, <2>2, <3>1
  <2>3. CASE r = pids[k]
    <3>1. /\ r \in Listeners /\ Unsent(r) /\ (Text = EMPTY <=> atEof)
          /\ \A j \in Lines(r)' : \/ j \in Lines(r) /\ queue'[j] = queue[j]
                                  \/ queue'[j].mtext = Text
          /\ \A i \in Lines(r) : queue[i].mtext # EMPTY
        BY <1>11, <2>3, SentLine
    <3>2. ~Unsent(r)'
        BY <1>11, <2>3, UnsentStep
    <3>3. ~Ending /\ rPc[r] \notin {"leaveQueue", "done"}
        BY <1>1, <1>2, <3>1
    <3>4. Answers(r)' = {}
      <4>1. ~LeaveQueue(r) /\ Answers(r) = {}
          BY <1>1, <3>3 DEF LeaveQueue
      <4> QED  BY <1>1, <4>1, AnswersStep
    <3> QED  BY <2>1, <3>1, <3>2, <3>3, <3>4 DEF EndOf
  <2> QED  BY <2>2, <2>3
<1>12. CASE CloseQueue
  <2>1. rPc' = rPc /\ Listeners' = Listeners /\ UNCHANGED atEof /\ Len(queue') = 0
      BY <1>12 DEF CloseQueue, receiverVars, Listeners
  <2>2. ~Unsent(r)'
      BY <1>12, UnsentStep
  <2>3. Lines(r)' = {} /\ Answers(r)' = {}
      BY <2>1 DEF Lines, Answers
  <2> QED  BY <1>1, <1>2, <2>1, <2>2, <2>3 DEF EndOf
<1>13. ASSUME NEW q \in Receivers,
              GetQueue(q) \/ Register(q) \/ GetMessage(q) \/ LeaveQueue(q) \/ ReceiverFails(q)
                \/ KillReceiver(q)
       PROVE  EndOf(r)'
  <2>1. /\ UNCHANGED <<atEof, senderVars>> /\ Listeners' = Listeners /\ (Unsent(r)' <=> Unsent(r))
      BY <1>13, ReceiverLeaves DEF senderVars
  <2>2. ~SendToListener /\ ~CloseQueue
      BY <2>1, StepsApart
  <2>3. CASE q # r
    <3>1. rPc'[r] = rPc[r]
        BY <1>13, <2>3
           DEF GetQueue, Register, GetMessage, LeaveQueue, ReceiverFails, KillReceiver, Goto, TypeOK
    <3> QED  BY <1>1, <1>3, <2>1, <2>2, <3>1
  <2>4. CASE q = r /\ (GetQueue(r) \/ Register(r) \/ ReceiverFails(r) \/ KillReceiver(r))
    <3>1. /\ rPc[r] # "done" /\ rPc'[r] \notin {"leaveQueue", "done"}
        BY <2>4 DEF GetQueue, Register, ReceiverFails, KillReceiver, Goto, TypeOK
    <3>2. ~LeaveQueue(r)
        BY <3>1 DEF LeaveQueue, Goto, TypeOK
    <3>3. Answers(r)' = {}
        BY <1>1, <3>1, <3>2, AnswersStep
    <3>4. \A j \in Lines(r)' : \E i \in Lines(r) : queue'[j].mtext = queue[i].mtext
        BY <2>2, HasStep
    <3>5. \A j \in Lines(r)' : queue'[j].mtext = EMPTY => Ending
        BY <1>2, <3>4
    <3> QED  BY <1>1, <2>1, <3>1, <3>3, <3>5 DEF EndOf
  <2>5. CASE q = r /\ GetMessage(r)
    <3>1. /\ Lines(r) # {} /\ rPc[r] \notin {"leaveQueue", "done"}
          /\ \/ UNCHANGED rPc
             \/ /\ rPc' = [rPc EXCEPT ![r] = "leaveQueue"] /\ Lines(r)' = {}
                /\ \E i \in Lines(r) : queue[i].mtext = EMPTY
        BY <1>1, <2>5, TakenLine
    <3>2. \/ rPc'[r] = rPc[r]
          \/ rPc'[r] = "leaveQueue" /\ Lines(r)' = {} /\ Ending
        BY <1>2, <3>1 DEF TypeOK
    <3> QED  BY <1>1, <1>3, <2>1, <2>2, <3>1, <3>2
  <2>6. CASE q = r /\ LeaveQueue(r)
    <3> DEFINE m == [mtype |-> "MSG_TYPE_END_ANSWER", pid |-> r]
    <3>1. rPc[r] = "leaveQueue" /\ rPc'[r] = "done" /\ queue' = Append(queue, m)
        BY <2>6 DEF LeaveQueue, SendPid, Goto, TypeOK
    <3>2. m \in Messages
        BY DEF Messages
    <3> HIDE DEF m
    <3>3. Lines(r) = {} /\ Answers(r) = {} /\ Ending
        BY <1>1, <1>2, <3>1
    <3>4. Lines(r)' = {}
      <4>1. \A j \in Lines(r)' : \E i \in Lines(r) : queue'[j].mtext = queue[i].mtext
          BY <2>2, HasStep
      <4> QED  BY <3>3, <4>1
    <3>5. \A j \in Answers(r)' : j = Len(queue) + 1
      <4>1. \A j \in Answers(r)' : j \in 1..Len(queue') /\ AnswerOf(r, queue'[j])
          BY DEF Answers, AnswerOf
      <4>2. \A j \in 1..Len(queue) : ~AnswerOf(r, queue[j]) /\ queue'[j] = queue[j]
          BY <3>1, <3>2, <3>3, SentQueue DEF Answers
      <4>3. \A j \in 1..Len(queue') : j \in 1..Len(queue) \/ j = Len(queue) + 1
          BY <3>1, <3>2, SentQueue
      <4> QED  BY <4>1, <4>2, <4>3
    <3> QED  BY <1>1, <2>1, <3>1, <3>3, <3>4, <3>5 DEF EndOf
  <2> QED  BY <1>13, <2>3, <2>4, <2>5, <2>6
<1> QED
    BY <1>5, <1>6, <1>7, <1>8, <1>9, <1>10, <1>11, <1>12, <1>13 DEF Next, SenderStep, ReceiverStep

-----------------------------------------------------------------------------
(* The service before a restart. *)

\* A listener whose answer is taken has printed up to the last line, if anything.
LEMMA LastIsPrinted ==
    ASSUME TypeOK, LineInv, DueInv, EndInv, sPc = "waitAnswers", NEW r \in Listeners, r \in Receivers,
           Answers(r) # {}, atEof, printed[r] # << >>
    PROVE  LastPrinted(r) = lines
<1>1. Lines(r) = {}
    BY DEF EndInv, EndOf
<1>2. /\ Len(printed[r]) \in Nat /\ Len(printed[r]) > 0
      /\ \A i \in 1..Len(printed[r]) : printed[r][i] \in Nat
  <2>1. printed[r] \in Seq(Nat)
      BY DEF TypeOK
  <2>2. Len(printed[r]) # 0
      BY <2>1, EmptySeq
  <2> QED  BY <2>2, TextsAreNumbers
<1>3. \A n : Has(r, n) <=> \E i \in 1..Len(printed[r]) : printed[r][i] = n
    BY <1>1, HasByLines
<1>4. \A n \in Nat : Has(r, n) => n <= lines /\ Has(r, lines)
    BY DEF DueInv, DueFor, Working
<1>5. Has(r, printed[r][Len(printed[r])]) /\ Len(printed[r]) \in 1..Len(printed[r])
    BY <1>2, <1>3
<1>6. printed[r][Len(printed[r])] <= lines
    BY <1>2, <1>4, <1>5
<1>7. PICK i \in 1..Len(printed[r]) : printed[r][i] = lines
    BY <1>2, <1>3, <1>4, <1>5
<1>8. i < Len(printed[r]) => printed[r][i] < printed[r][Len(printed[r])]
    BY <1>5 DEF LineInv, LineOf
<1> QED  BY <1>2, <1>5, <1>6, <1>7, <1>8 DEF LastPrinted

\* The message of an answer is one of the answers of its sender, who is a receiver.
LEMMA AnswerIsFrom ==
    ASSUME TypeOK, TakeAnswer
    PROVE  LET pid == Message(queue, "MSG_TYPE_END_ANSWER").pid
           IN  /\ pid \in Receivers /\ Answers(pid) # {}
               /\ AnswerOf(pid, Message(queue, "MSG_TYPE_END_ANSWER"))
<1> DEFINE pid == Message(queue, "MSG_TYPE_END_ANSWER").pid
<1>1. Arrived(queue, "MSG_TYPE_END_ANSWER") /\ queue' = Rest(queue, "MSG_TYPE_END_ANSWER")
    BY DEF TakeAnswer
<1>2. PICK p \in 1..Len(queue) :
          /\ queue[p].mtype = "MSG_TYPE_END_ANSWER" /\ Message(queue, "MSG_TYPE_END_ANSWER") = queue[p]
    BY <1>1, TakenQueue DEF MsgTypes
<1>3. queue[p] \in Messages /\ pid = queue[p].pid /\ pid \in Receivers
    BY <1>2, ElementOfSeq, TypesAssumption DEF Messages, TypeOK
<1> HIDE DEF pid
<1>4. AnswerOf(pid, queue[p])
    BY <1>2, <1>3 DEF AnswerOf
<1> QED  BY <1>2, <1>3, <1>4 DEF Answers, pid

\* Every step keeps the service of a sender that was never killed.
LEMMA KeptStep == ListenersInv /\ TypeOK' /\ [Next]_vars => KeptInv'
<1> SUFFICES ASSUME TypeOK, PlaceInv, RegInv, LineInv, DueInv, EndInv, KeptInv, TypeOK', [Next]_vars,
                    senderKills' = 0
             PROVE  /\ sPc' # "abort"
                    /\ \A r \in Receivers :
                         Lines(r)' # {} \/ Answers(r)' # {} \/ rPc'[r] = "leaveQueue" => r \in Listeners'
                    /\ \A r \in served' \ Listeners' :
                         /\ rPc'[r] = "done" /\ sPc' \in {"waitAnswers", "closeQueue", "done"}
                         /\ printed'[r] # << >> => LastPrinted(r)' = lines'
                    /\ sPc' \in {"closeQueue", "done"} => pids' = << >>
    BY DEF KeptInv, ListenersInv
<1> DEFINE K == /\ sPc' # "abort"
                /\ \A r \in Receivers :
                     Lines(r)' # {} \/ Answers(r)' # {} \/ rPc'[r] = "leaveQueue" => r \in Listeners'
                /\ \A r \in served' \ Listeners' :
                     /\ rPc'[r] = "done" /\ sPc' \in {"waitAnswers", "closeQueue", "done"}
                     /\ printed'[r] # << >> => LastPrinted(r)' = lines'
                /\ sPc' \in {"closeQueue", "done"} => pids' = << >>
<1> SUFFICES K
    OBVIOUS
<1>1. senderKills = 0
    BY DEF TypeOK, Next, SenderStep, ReceiverStep, CreateQueue, ReadLine, AddListener, AddDone, DelDone,
           SendToListener, SendDone, TakeAnswer, AnswersDone, CloseQueue, KillSender, GetQueue, Register,
           GetMessage, LeaveQueue, ReceiverFails, KillReceiver, vars, killVars
<1>2. /\ sPc # "abort"
      /\ \A r \in Receivers : Lines(r) # {} \/ Answers(r) # {} \/ rPc[r] = "leaveQueue" => r \in Listeners
      /\ \A r \in served \ Listeners :
           /\ rPc[r] = "done" /\ sPc \in {"waitAnswers", "closeQueue", "done"}
           /\ printed[r] # << >> => LastPrinted(r) = lines
      /\ sPc \in {"closeQueue", "done"} => pids = << >>
    BY <1>1 DEF KeptInv
<1>3. ASSUME NEW r \in Receivers, ~CloseQueue, ~(SendToListener /\ r = pids[k]), ~LeaveQueue(r)
      PROVE  Lines(r)' # {} \/ Answers(r)' # {} => r \in Listeners
  <2>1. \A j \in Lines(r)' : \E i \in Lines(r) : queue'[j].mtext = queue[i].mtext
      BY <1>3, HasStep
  <2>2. Answers(r)' # {} => Answers(r) # {}
      BY <1>3, AnswersStep DEF EndInv, EndOf
  <2> QED  BY <1>2, <2>1, <2>2
<1>4. ASSUME NEW r \in Receivers, rPc'[r] = rPc[r] PROVE ~LeaveQueue(r)
    BY <1>4 DEF LeaveQueue, Goto, TypeOK
<1>5. ASSUME UNCHANGED <<lines, rPc, printed>>, ~CloseQueue, ~SendToListener, sPc' # "abort",
             \/ sPc' = sPc
             \/ sPc' \in {"waitAnswers", "closeQueue", "done"}
             \/ sPc \notin {"waitAnswers", "closeQueue", "done"},
             Listeners' = Listeners, served' = served,
             sPc' \in {"closeQueue", "done"} => pids' = << >>
      PROVE  K
  <2>1. \A r \in Receivers : Lines(r)' # {} \/ Answers(r)' # {} \/ rPc'[r] = "leaveQueue" => r \in Listeners'
      BY <1>2, <1>3, <1>4, <1>5
  <2>2. \A r : LastPrinted(r)' = LastPrinted(r)
      BY <1>5 DEF LastPrinted
  <2> QED  BY <1>2, <1>5, <2>1, <2>2
<1>6. CASE UNCHANGED vars
  <2>1. UNCHANGED <<senderVars, receiverVars>>
      BY <1>6 DEF vars
  <2>2. ~CloseQueue /\ ~SendToListener
      BY <2>1, StepsApart
  <2>3. Listeners' = Listeners
      BY <2>1 DEF senderVars, Listeners
  <2> QED  BY <1>2, <1>5, <2>1, <2>2, <2>3 DEF senderVars, receiverVars
<1>7. CASE CreateQueue \/ AddDone \/ DelDone \/ SendDone \/ AnswersDone
  <2>1. ~CloseQueue /\ ~SendToListener
      BY <1>7, StepsApart
  <2>2. /\ UNCHANGED <<lines, rPc, printed, served, pids>> /\ Listeners' = Listeners
        /\ sPc \notin {"waitAnswers", "closeQueue", "done"} \/ (sPc' = "closeQueue" /\ pids = << >>)
        /\ sPc' # "abort" /\ (sPc' \in {"closeQueue", "done"} => pids' = << >>)
      BY <1>7 DEF CreateQueue, AddDone, DelDone, SendDone, AnswersDone, receiverVars, Listeners
  <2> QED  BY <1>5, <2>1, <2>2
<1>8. CASE ReadLine
  <2>1. ~CloseQueue /\ ~SendToListener
      BY <1>8, StepsApart
  <2>2. /\ sPc = "fgets" /\ sPc' = "addListeners" /\ UNCHANGED <<rPc, printed, served>>
        /\ Listeners' = Listeners
      BY <1>8 DEF ReadLine, receiverVars, Listeners
  <2>3. \A r \in Receivers : Lines(r)' # {} \/ Answers(r)' # {} \/ rPc'[r] = "leaveQueue" => r \in Listeners'
      BY <1>2, <1>3, <1>4, <2>1, <2>2
  <2> QED  BY <1>2, <2>2, <2>3
<1>9. CASE AddListener
  <2>1. ~CloseQueue /\ ~SendToListener
      BY <1>9, StepsApart
  <2>2. sPc = "addListeners" /\ UNCHANGED <<sPc, rPc, printed>>
      BY <1>9 DEF AddListener, receiverVars
  <2>3. PICK pid : Listeners' = Listeners \cup {pid} /\ served' = served \cup {pid}
      BY <1>9, Newcomer
  <2>4. \A r \in Receivers : Lines(r)' # {} \/ Answers(r)' # {} \/ rPc'[r] = "leaveQueue" => r \in Listeners'
      BY <1>2, <1>3, <1>4, <2>1, <2>2, <2>3
  <2> QED  BY <1>2, <2>2, <2>3, <2>4
<1>10. CASE SendToListener
  <2>1. /\ sPc = "sendMessage" /\ UNCHANGED <<sPc, rPc, printed, served>> /\ Listeners' = Listeners
        /\ ~CloseQueue
      BY <1>10 DEF SendToListener, CloseQueue, receiverVars, Listeners
  <2>2. ASSUME NEW r \in Receivers, Lines(r)' # {} \/ Answers(r)' # {} \/ rPc'[r] = "leaveQueue"
        PROVE  r \in Listeners'
    <3>1. CASE r = pids[k]
        BY <1>10, <2>1, <3>1, SentLine
    <3>2. CASE r # pids[k]
        BY <1>2, <1>3, <1>4, <2>1, <2>2, <3>2
    <3> QED  BY <3>1, <3>2
  <2> QED  BY <1>2, <2>1, <2>2
<1>11. CASE TakeAnswer
  <2>1. PICK pid : pid = Message(queue, "MSG_TYPE_END_ANSWER").pid
      OBVIOUS
  <2>2. pid \in Receivers /\ Answers(pid) # {} /\ AnswerOf(pid, Message(queue, "MSG_TYPE_END_ANSWER"))
      BY <1>11, <2>1, AnswerIsFrom
  <2>3. /\ sPc = "waitAnswers"
        /\ \/ sPc' = "waitAnswers" /\ pid \in Listeners /\ Listeners' = Listeners \ {pid}
           \/ sPc' = "abort" /\ pid \notin Listeners /\ Listeners' = Listeners
      BY <1>11, <2>1, Answering
  <2>4. /\ Arrived(queue, "MSG_TYPE_END_ANSWER") /\ queue' = Rest(queue, "MSG_TYPE_END_ANSWER")
        /\ UNCHANGED <<rPc, printed, lines, served>>
      BY <1>11 DEF TakeAnswer, receiverVars
  <2>5. pid \in Listeners /\ sPc' = "waitAnswers" /\ Listeners' = Listeners \ {pid}
      BY <1>2, <2>2, <2>3
  <2>6. Lines(pid) = {} /\ rPc[pid] = "done"
      BY <2>2 DEF EndInv, EndOf
  <2>7. ~CloseQueue /\ ~SendToListener
      BY <1>11, StepsApart
  <2>8. Lines(pid)' = {}
      BY <2>2, <2>6, <2>7, HasStep
  <2>9. Answers(pid)' = {}
      BY <2>2, <2>4, FewerAnswers DEF EndInv, EndOf, MsgTypes
  <2>10. \A r \in Receivers : Lines(r)' # {} \/ Answers(r)' # {} \/ rPc'[r] = "leaveQueue" => r \in Listeners'
    <3> SUFFICES ASSUME NEW r \in Receivers, Lines(r)' # {} \/ Answers(r)' # {} \/ rPc'[r] = "leaveQueue"
                 PROVE  r \in Listeners'
        OBVIOUS
    <3>1. r # pid
        BY <2>4, <2>6, <2>8, <2>9
    <3>2. r \in Listeners
        BY <1>2, <1>3, <1>4, <2>4, <2>7
    <3> QED  BY <2>5, <3>1, <3>2
  <2>11. printed[pid] # << >> => LastPrinted(pid) = lines
    <3>1. atEof
        BY <2>3 DEF PlaceInv
    <3> QED  BY <2>2, <2>3, <2>5, <3>1, LastIsPrinted
  <2>12. \A r : LastPrinted(r)' = LastPrinted(r)
      BY <2>4 DEF LastPrinted
  <2> QED  BY <1>2, <2>4, <2>5, <2>6, <2>10, <2>11, <2>12
<1>12. CASE CloseQueue
  <2>1. /\ sPc = "closeQueue" /\ sPc' = "done" /\ pids' = pids /\ pids = << >>
        /\ UNCHANGED <<rPc, printed, lines, served>> /\ Listeners' = Listeners /\ Len(queue') = 0
      BY <1>2, <1>12 DEF CloseQueue, receiverVars, Listeners
  <2>2. \A r : Lines(r)' = {} /\ Answers(r)' = {}
    <3>1. ASSUME NEW r PROVE Lines(r)' = {} /\ Answers(r)' = {}
        BY <2>1 DEF Lines, Answers
    <3> QED  BY <3>1
  <2>3. \A r : LastPrinted(r)' = LastPrinted(r)
      BY <2>1 DEF LastPrinted
  <2> QED  BY <1>2, <2>1, <2>2, <2>3
<1>13. CASE KillSender
    BY <1>1, <1>13 DEF KillSender
<1>14. ASSUME NEW q \in Receivers,
              GetQueue(q) \/ Register(q) \/ GetMessage(q) \/ LeaveQueue(q) \/ ReceiverFails(q)
                \/ KillReceiver(q)
       PROVE  K
  <2>1. UNCHANGED senderVars /\ Listeners' = Listeners
      BY <1>14, ReceiverLeaves
  <2>2. ~CloseQueue /\ ~SendToListener
      BY <2>1, StepsApart
  <2>3. \A r \in Receivers \ {q} : rPc'[r] = rPc[r] /\ printed'[r] = printed[r]
      BY <1>14 DEF GetQueue, Register, GetMessage, LeaveQueue, ReceiverFails, KillReceiver, Goto, TypeOK
  <2>4. rPc[q] # "done"
      BY <1>14 DEF GetQueue, Register, GetMessage, LeaveQueue, ReceiverFails, KillReceiver
  <2>5. GetMessage(q) => Lines(q) # {}
      BY TakenLine
  <2>6. LeaveQueue(q) => rPc[q] = "leaveQueue" /\ rPc'[q] = "done"
      BY DEF LeaveQueue, Goto, TypeOK
  <2>7. rPc'[q] = "leaveQueue" => rPc[q] = "leaveQueue" \/ GetMessage(q)
      BY <1>14 DEF GetQueue, Register, LeaveQueue, ReceiverFails, KillReceiver, Goto, TypeOK
  <2>8. \A r \in Receivers : Lines(r)' # {} \/ Answers(r)' # {} \/ rPc'[r] = "leaveQueue" => r \in Listeners
    <3> SUFFICES ASSUME NEW r \in Receivers, Lines(r)' # {} \/ Answers(r)' # {} \/ rPc'[r] = "leaveQueue"
                 PROVE  r \in Listeners
        OBVIOUS
    <3>1. CASE r # q
        BY <1>2, <1>3, <1>4, <2>2, <2>3, <3>1
    <3>2. CASE r = q /\ LeaveQueue(q)
        BY <1>2, <2>6, <3>2
    <3>3. CASE r = q /\ ~LeaveQueue(q)
        BY <1>2, <1>3, <2>2, <2>5, <2>7, <3>3
    <3> QED  BY <3>1, <3>2, <3>3
  <2>9. \A r \in served' \ Listeners' :
          /\ rPc'[r] = "done" /\ sPc' \in {"waitAnswers", "closeQueue", "done"}
          /\ printed'[r] # << >> => LastPrinted(r)' = lines'
    <3> SUFFICES ASSUME NEW r \in served' \ Listeners'
                 PROVE  /\ rPc'[r] = "done" /\ sPc' \in {"waitAnswers", "closeQueue", "done"}
                        /\ printed'[r] # << >> => LastPrinted(r)' = lines'
        OBVIOUS
    <3>1. r \in served \ Listeners /\ sPc' = sPc /\ lines' = lines
        BY <2>1 DEF senderVars
    <3>2. r # q /\ r \in Receivers
        BY <1>2, <2>4, <3>1 DEF TypeOK
    <3>3. LastPrinted(r)' = LastPrinted(r)
        BY <2>3, <3>2 DEF LastPrinted
    <3> QED  BY <1>2, <2>3, <3>1, <3>2, <3>3
  <2> QED  BY <1>2, <2>1, <2>8, <2>9 DEF senderVars
<1> QED
    BY <1>6, <1>7, <1>8, <1>9, <1>10, <1>11, <1>12, <1>13, <1>14 DEF Next, SenderStep, ReceiverStep

-----------------------------------------------------------------------------
(* The theorems. *)

\* The invariant of sender, queue and listeners.
THEOREM ListenersInvariant == Spec => []ListenersInv
<1>1. ListenersInv /\ [Next]_vars => ListenersInv'
    BY TypeStep, PlaceStep, RegStep, LineStep, DueStep, EndStep, KeptStep DEF ListenersInv
<1> QED  BY <1>1, InitListeners, PTL DEF Spec

\* What a receiver prints is a gapless run of the lines, in order and each once,
\* also when the sender is killed and started again (getMessages, sendMessage).
THEOREM LinesGapless == Spec => []GaplessLines
<1>1. ListenersInv => GaplessLines
  <2> SUFFICES ASSUME TypeOK, LineInv, NEW r \in Receivers, NEW j \in 1..(Len(printed[r]) - 1)
               PROVE  printed[r][j + 1] = printed[r][j] + 1
      BY DEF GaplessLines, ListenersInv
  <2> DEFINE a == printed[r][j]
             b == printed[r][j + 1]
  <2>1. Len(printed[r]) \in Nat /\ j \in 1..Len(printed[r]) /\ j + 1 \in 1..Len(printed[r])
      BY TextsAreNumbers
  <2>2. /\ \A i \in 1..Len(printed[r]) : printed[r][i] \in Nat
        /\ \A i, n \in 1..Len(printed[r]) : i < n => printed[r][i] < printed[r][n]
        /\ \A i \in 1..Len(printed[r]), n \in Lines(r) :
             queue[n].mtext # EMPTY => printed[r][i] < queue[n].mtext
        /\ \A n, m \in Nat : n < m /\ Has(r, n) /\ Has(r, m) => Has(r, n + 1)
      BY TextsAreNumbers DEF LineInv, LineOf
  <2>3. a < b /\ a \in Nat /\ b \in Nat
      BY <2>1, <2>2
  <2>4. Has(r, a) /\ Has(r, b)
      BY <2>1, HasByLines
  <2>5. Has(r, a + 1)
      BY <2>2, <2>3, <2>4
  <2>6. CASE a + 1 # EMPTY /\ \E n \in Lines(r) : queue[n].mtext = a + 1
    <3>1. b < a + 1
        BY <2>1, <2>2, <2>6
    <3> QED  BY <2>3, <3>1
  <2>7. CASE \E i \in 1..Len(printed[r]) : printed[r][i] = a + 1
    <3>1. PICK i \in 1..Len(printed[r]) : printed[r][i] = a + 1
        BY <2>7
    <3>2. ~(i < j) /\ i # j
        BY <2>1, <2>2, <2>3, <3>1
    <3>3. ~(j + 1 < i)
        BY <2>1, <2>2, <2>3, <3>1
    <3>4. i = j + 1
        BY <2>1, <3>2, <3>3
    <3> QED  BY <3>1, <3>4
  <2> QED  BY <2>5, <2>6, <2>7, HasByLines
<1> QED  BY <1>1, ListenersInvariant, PTL

\* A sender that was never killed keeps each listener, once, until its answer, gets
\* no other answer, and removes the queue when its listeners have printed up to the
\* last line and left, and the others nothing (waitAnswers, closeQueue).
THEOREM ServiceIsComplete == Spec => []ListenersServed
<1>1. ListenersInv => ListenersServed
  <2> SUFFICES ASSUME ListenersInv PROVE ListenersServed
      OBVIOUS
  <2>1. Len(pids) = Cardinality(Listeners)
    <3>1. pids \in Seq(Receivers) /\ \A i, j \in 1..Len(pids) : pids[i] = pids[j] => i = j
        BY DEF ListenersInv, TypeOK, PlaceInv
    <3> QED  BY <3>1, DistinctCounted DEF Listeners
  <2>2. AnswersAreExpected
    <3> SUFFICES ASSUME senderKills = 0 PROVE Answered \subseteq Listeners /\ sPc # "abort"
        BY DEF AnswersAreExpected
    <3>1. sPc # "abort" /\ \A r \in Receivers : Answers(r) # {} => r \in Listeners
        BY DEF ListenersInv, KeptInv
    <3>2. ASSUME NEW i \in 1..Len(queue), queue[i].mtype = "MSG_TYPE_END_ANSWER"
          PROVE  queue[i].pid \in Listeners
      <4>1. queue[i] \in Messages
          BY ElementOfSeq DEF ListenersInv, TypeOK
      <4>2. queue[i].pid \in Receivers
          BY <3>2, <4>1, TypesAssumption DEF Messages
      <4>3. Answers(queue[i].pid) # {}
          BY <3>2 DEF Answers, AnswerOf
      <4> QED  BY <3>1, <4>2, <4>3
    <3> QED  BY <3>1, <3>2 DEF Answered
  <2>3. CompleteOrNothing
    <3> SUFFICES ASSUME senderKills = 0, sPc \in {"closeQueue", "done"}, NEW r \in Receivers
                 PROVE  IF r \in served
                        THEN rPc[r] = "done" /\ (printed[r] # << >> => LastPrinted(r) = lines)
                        ELSE printed[r] = << >>
        BY DEF CompleteOrNothing
    <3>1. Listeners = {}
      <4>1. pids = << >>
          BY DEF ListenersInv, KeptInv
      <4> QED  BY <4>1 DEF Listeners, ToSet
    <3>2. CASE r \in served
        BY <3>1, <3>2 DEF ListenersInv, KeptInv
    <3>3. CASE r \notin served
        BY <3>3 DEF ListenersInv, RegInv
    <3> QED  BY <3>2, <3>3
  <2> QED  BY <2>1, <2>2, <2>3 DEF ListenersServed
<1> QED  BY <1>1, ListenersInvariant, PTL

-----------------------------------------------------------------------------
(* The refinement of AtomicMulticast. *)

\* The text at hand is still to be sent to r, by the loop over the listeners.
Pending(r) == sPc = "sendMessage" /\ \E j \in k..Len(pids) : pids[j] = r
Queued(r) == {queue[j].mtext : j \in Lines(r)}

\* What Multicast calls published, closed and complete.
Published == IF Deciding /\ ~atEof THEN lines - 1 ELSE lines
Closed == atEof /\ ~Deciding
Completed == sPc \in {"closeQueue", "done"}

\* An inbox is what the queue holds for its owner, and what is pending.
LEMMA InboxByLines ==
    ASSUME NEW r
    PROVE  /\ Inbox(r) = Queued(r) \cup (IF Pending(r) THEN {Text} ELSE {})
           /\ Inbox(r)' = Queued(r)' \cup (IF Pending(r)' THEN {Text'} ELSE {})
<1>1. Lines(r) = {j \in 1..Len(queue) : queue[j].mtype = r}
    BY DEF Lines, LineTo
<1>2. Lines(r)' = {j \in 1..Len(queue') : queue'[j].mtype = r}
    BY DEF Lines, LineTo
<1>3. /\ Queued(r) = {queue[j].mtext : j \in Lines(r)}
      /\ Queued(r)' = {queue'[j].mtext : j \in Lines(r)'}
    BY DEF Queued
<1> QED  BY <1>1, <1>2, <1>3 DEF Inbox, Pending

\* An inbox stays the same when its lines are left alone and nothing gets pending.
LEMMA SameInbox ==
    ASSUME NEW r, SameLines(r), Pending(r)' <=> Pending(r), Pending(r) => Text' = Text
    PROVE  Inbox(r)' = Inbox(r)
<1>1. PICK f \in [Lines(r)' -> Lines(r)] :
         /\ \A j \in Lines(r)' : queue'[j].mtext = queue[f[j]].mtext
         /\ \A i \in Lines(r) : \E j \in Lines(r)' : f[j] = i
    BY DEF SameLines
<1>2. Queued(r)' = {queue'[j].mtext : j \in Lines(r)'}
    BY DEF Queued
<1>3. Queued(r)' = Queued(r)
    BY <1>1, <1>2 DEF Queued
<1> QED  BY <1>3, InboxByLines

\* A step that leaves the lines, and what the sender has decided, is none of the multicast.
LEMMA Stutters ==
    ASSUME Published' = Published, Closed' = Closed, Completed' = Completed, served' = served,
           printed' = printed, \A r \in Receivers : Inbox(r)' = Inbox(r)
    PROVE  UNCHANGED Multicast!vars
<1>1. [r \in Receivers |-> Inbox(r)]' = [r \in Receivers |-> Inbox(r)]
    OBVIOUS
<1> QED  BY <1>1 DEF Multicast!vars, Published, Closed, Completed, Deciding

\* The text a receiver takes goes before all other texts the queue holds for it.
LEMMA TakenText ==
    ASSUME TypeOK, TypeOK', LineInv, NEW r \in Receivers, GetMessage(r)
    PROVE  LET t == Message(queue, r).mtext
           IN  /\ \E i \in Lines(r) : queue[i].mtext = t
               /\ t \in Queued(r) /\ t \in Nat /\ Queued(r)' = Queued(r) \ {t}
               /\ \A n \in Queued(r) \ {t} : n \in Nat /\ t # EMPTY /\ (n # EMPTY => t < n)
<1> DEFINE t == Message(queue, r).mtext
<1>1. PICK p \in 1..Len(queue) : \E f \in [1..Len(queue') -> 1..Len(queue)] :
             /\ queue[p].mtype = r /\ Message(queue, r) = queue[p]
             /\ \A i \in 1..(p - 1) : queue[i].mtype # r
             /\ Len(queue') = Len(queue) - 1
             /\ \A j \in 1..Len(queue') : queue'[j] = queue[f[j]] /\ f[j] # p
             /\ \A i, j \in 1..Len(queue') : i < j => f[i] < f[j]
             /\ \A i \in 1..Len(queue) : i # p => \E j \in 1..Len(queue') : f[j] = i
  <2>1. Arrived(queue, r) /\ queue' = Rest(queue, r) /\ r \in Receivers \cup MsgTypes
      BY DEF GetMessage
  <2> QED  BY <2>1, TakenQueue
<1>2. PICK f \in [1..Len(queue') -> 1..Len(queue)] :
             /\ \A j \in 1..Len(queue') : queue'[j] = queue[f[j]] /\ f[j] # p
             /\ \A i \in 1..Len(queue) : i # p => \E j \in 1..Len(queue') : f[j] = i
    BY <1>1
<1>3. t = queue[p].mtext /\ p \in Lines(r)
    BY <1>1 DEF Lines, LineTo
<1>4. Len(queue) \in Nat /\ \A i \in Lines(r) : i \in 1..Len(queue) /\ queue[i].mtext \in Nat
    BY TextsAreNumbers
<1> HIDE DEF t
<1>5. ASSUME NEW i \in Lines(r), i # p
      PROVE  t # EMPTY /\ (queue[i].mtext # EMPTY => t < queue[i].mtext)
  <2>1. p < i
      BY <1>1, <1>4, <1>5 DEF Lines, LineTo
  <2> QED  BY <1>3, <2>1 DEF LineInv, LineOf
<1>6. ASSUME NEW i \in Lines(r), i # p PROVE queue[i].mtext # t
  <2>1. t \in Nat /\ queue[i].mtext \in Nat
      BY <1>3, <1>4
  <2>2. t # EMPTY /\ (queue[i].mtext # EMPTY => t < queue[i].mtext)
      BY <1>5, <1>6
  <2> QED  BY <2>1, <2>2
<1>7. \A j \in Lines(r)' : f[j] \in Lines(r) /\ f[j] # p /\ queue'[j] = queue[f[j]]
    BY <1>2 DEF Lines, LineTo
<1>8. ASSUME NEW i \in Lines(r), i # p PROVE \E j \in Lines(r)' : queue'[j] = queue[i]
  <2>1. i \in 1..Len(queue) /\ queue[i].mtype = r
      BY DEF Lines, LineTo
  <2>2. PICK j \in 1..Len(queue') : f[j] = i
      BY <1>2, <1>8, <2>1
  <2>3. queue'[j] = queue[i]
      BY <1>2, <2>2
  <2>4. j \in Lines(r)'
      BY <2>1, <2>2, <2>3 DEF Lines, LineTo
  <2> QED  BY <2>3, <2>4
<1>9. /\ Queued(r) = {queue[j].mtext : j \in Lines(r)}
      /\ Queued(r)' = {queue'[j].mtext : j \in Lines(r)'}
    BY DEF Queued
<1>10. Queued(r)' = Queued(r) \ {t}
  <2>1. ASSUME NEW n \in Queued(r)' PROVE n \in Queued(r) \ {t}
      BY <1>6, <1>7, <1>9, <2>1
  <2>2. ASSUME NEW n \in Queued(r) \ {t} PROVE n \in Queued(r)'
      BY <1>3, <1>8, <1>9, <2>2
  <2> QED  BY <2>1, <2>2
<1>11. \A n \in Queued(r) \ {t} : n \in Nat /\ t # EMPTY /\ (n # EMPTY => t < n)
    BY <1>3, <1>4, <1>5, <1>9
<1>12. t \in Queued(r) /\ t \in Nat /\ \E i \in Lines(r) : queue[i].mtext = t
    BY <1>3, <1>4, <1>9
<1> QED  BY <1>10, <1>11, <1>12 DEF t

\* Nothing is pending but for a listener, while the sender sends.
LEMMA PendingToListener ==
    ASSUME TypeOK, NEW r
    PROVE  Pending(r) => sPc = "sendMessage" /\ r \in Listeners /\ Unsent(r)
<1>1. Len(pids) \in Nat /\ k \in Nat \ {0}
    BY LenProperties DEF TypeOK
<1> QED  BY <1>1, ListenerAt DEF Pending, Unsent, TypeOK

\* The steps of the sender that are none of the multicast.
LEMMA SenderStutters ==
    ASSUME TypeOK, PlaceInv, CreateQueue \/ ReadLine \/ AddDone \/ SendDone \/ TakeAnswer
    PROVE  UNCHANGED Multicast!vars
<1>1. served' = served /\ printed' = printed
    BY DEF CreateQueue, ReadLine, AddDone, SendDone, TakeAnswer, receiverVars
<1>2. Completed' = Completed
    BY DEF CreateQueue, ReadLine, AddDone, SendDone, TakeAnswer, Completed
<1>3. Closed' = Closed
    BY DEF CreateQueue, ReadLine, AddDone, SendDone, TakeAnswer, Closed, Deciding, PlaceInv
<1>4. Published' = Published
    BY DEF CreateQueue, ReadLine, AddDone, SendDone, TakeAnswer, Published, Deciding, PlaceInv, TypeOK
<1>5. ASSUME NEW r PROVE ~Pending(r) /\ ~Pending(r)'
  <2>1. Len(pids) \in Nat /\ k \in Nat
      BY LenProperties DEF TypeOK
  <2>2. CASE SendDone
      BY <2>1, <2>2 DEF SendDone, Pending
  <2>3. CASE CreateQueue \/ ReadLine \/ AddDone \/ TakeAnswer
      BY <2>3 DEF CreateQueue, ReadLine, AddDone, TakeAnswer, Pending
  <2> QED  BY <2>2, <2>3
<1>6. ASSUME NEW r \in Receivers PROVE Inbox(r)' = Inbox(r)
  <2>1. CASE TakeAnswer
    <3>1. /\ Arrived(queue, "MSG_TYPE_END_ANSWER") /\ queue' = Rest(queue, "MSG_TYPE_END_ANSWER")
          /\ "MSG_TYPE_END_ANSWER" \in (Receivers \cup MsgTypes) \ {r}
        BY <2>1, TypesAssumption DEF TakeAnswer, MsgTypes
    <3>2. SameLines(r)
        BY <1>1, <3>1, SameTaken
    <3> QED  BY <1>5, <3>2, SameInbox
  <2>2. CASE CreateQueue \/ ReadLine \/ AddDone \/ SendDone
    <3>1. UNCHANGED queue
        BY <2>2 DEF CreateQueue, ReadLine, AddDone, SendDone
    <3>2. SameLines(r)
        BY <1>1, <3>1, SameQueue
    <3> QED  BY <1>5, <3>2, SameInbox
  <2> QED  BY <2>1, <2>2
<1> QED  BY <1>1, <1>2, <1>3, <1>4, <1>6, Stutters

\* Who is added to the listeners joins.
LEMMA AddingJoins ==
    ASSUME TypeOK, RegInv, AddListener
    PROVE  \E r \in Receivers : Multicast!Join(r)
<1>1. PICK pid \in Receivers \ served : served' = served \cup {pid}
    BY Newcomer
<1>2. /\ sPc = "addListeners" /\ printed' = printed
      /\ Published' = Published /\ Closed' = Closed /\ ~Closed /\ Completed' = Completed
    BY DEF AddListener, receiverVars, Published, Closed, Completed, Deciding
<1>3. ASSUME NEW r \in Receivers PROVE Inbox(r)' = Inbox(r)
  <2>1. /\ Arrived(queue, "MSG_TYPE_REG") /\ queue' = Rest(queue, "MSG_TYPE_REG")
        /\ "MSG_TYPE_REG" \in (Receivers \cup MsgTypes) \ {r}
      BY TypesAssumption DEF AddListener, MsgTypes
  <2>2. SameLines(r)
      BY <1>2, <2>1, SameTaken
  <2>3. ~Pending(r) /\ ~Pending(r)'
      BY <1>2 DEF AddListener, Pending
  <2> QED  BY <2>2, <2>3, SameInbox
<1>4. [r \in Receivers |-> Inbox(r)]' = [r \in Receivers |-> Inbox(r)]
    BY <1>3
<1>5. Multicast!Join(pid)
    BY <1>1, <1>2, <1>4 DEF Multicast!Join, Published, Closed, Completed
<1> QED  BY <1>1, <1>5

\* Before a restart the listeners are those who are served, until they may leave.
LEMMA ServedAreListeners ==
    ASSUME PlaceInv, KeptInv, senderKills = 0, sPc \notin {"waitAnswers", "closeQueue", "done"}
    PROVE  Listeners = served
BY DEF PlaceInv, KeptInv

\* Once the listeners are known the text at hand is published, or the end is.
LEMMA DecidingPublishes ==
    ASSUME TypeOK, PlaceInv, KeptInv, senderKills = 0, DelDone
    PROVE  Multicast!Publish \/ Multicast!Close
<1>1. /\ sPc = "delListeners" /\ sPc' = "sendMessage" /\ k' = 1
      /\ UNCHANGED <<queue, lines, atEof, pids, served, printed>>
    BY DEF DelDone, receiverVars
<1>2. ASSUME NEW r \in Receivers
      PROVE  Inbox(r)' = IF r \in served THEN Inbox(r) \cup {Text} ELSE Inbox(r)
  <2>1. Queued(r)' = Queued(r) /\ Text' = Text
      BY <1>1 DEF Queued, Lines, LineTo, Text
  <2>2. ~Pending(r)
      BY <1>1 DEF Pending
  <2>3. Pending(r)' <=> \E j \in 1..Len(pids) : pids[j] = r
      BY <1>1 DEF Pending
  <2>4. Pending(r)' <=> r \in served
      BY <1>1, <2>3, ListenerAt, ServedAreListeners DEF TypeOK
  <2> QED  BY <2>1, <2>2, <2>4, InboxByLines
<1>3. [r \in Receivers |-> Inbox(r)]' =
         [r \in Receivers |-> IF r \in served THEN [q \in Receivers |-> Inbox(q)][r] \cup {Text}
                                              ELSE [q \in Receivers |-> Inbox(q)][r]]
    BY <1>2
<1>4. ~Closed /\ Completed' = Completed
    BY <1>1 DEF Closed, Completed, Deciding
<1>5. CASE atEof
  <2>1. Published' = Published /\ Closed' /\ Text = EMPTY
      BY <1>1, <1>5 DEF Published, Closed, Deciding, Text
  <2>2. Multicast!Multicast(EMPTY)
      BY <1>3, <2>1 DEF Multicast!Multicast
  <2> QED  BY <1>1, <1>4, <2>1, <2>2 DEF Multicast!Close, Published, Closed, Completed
<1>6. CASE ~atEof
  <2>1. Published' = Published + 1 /\ Closed' = Closed /\ Text = Published + 1
      BY <1>1, <1>6 DEF Published, Closed, Deciding, Text, TypeOK
  <2>2. Multicast!Multicast(Published + 1)
      BY <1>3, <2>1 DEF Multicast!Multicast
  <2> QED  BY <1>1, <1>4, <2>1, <2>2 DEF Multicast!Publish, Published, Closed, Completed
<1> QED  BY <1>5, <1>6

\* The text of a listener's turn is in its inbox, pending before and queued after.
LEMMA SendingStutters ==
    ASSUME TypeOK, PlaceInv, SendToListener
    PROVE  UNCHANGED Multicast!vars
<1>1. /\ sPc = "sendMessage" /\ k \in 1..Len(pids)
      /\ queue' = Append(queue, [mtype |-> pids[k], mtext |-> Text]) /\ k' = k + 1
      /\ UNCHANGED <<sPc, lines, atEof, pids, served, printed>>
    BY LenProperties DEF SendToListener, receiverVars, TypeOK
<1>2. /\ Published' = Published /\ Closed' = Closed /\ Completed' = Completed /\ Text' = Text
    BY <1>1 DEF Published, Closed, Completed, Deciding, Text
<1>3. Len(pids) \in Nat /\ pids[k] \in Receivers /\ Text \in Nat
    BY <1>1, LenProperties, ElementOfSeq DEF TypeOK, Text, EMPTY
<1>4. [mtype |-> pids[k], mtext |-> Text] \in Messages
    BY <1>3 DEF Messages
<1>5. ASSUME NEW r \in Receivers PROVE Inbox(r)' = Inbox(r)
  <2>1. CASE r # pids[k]
    <3>1. ~LineTo(r, [mtype |-> pids[k], mtext |-> Text])
        BY <2>1 DEF LineTo
    <3>2. SameLines(r)
        BY <1>1, <1>4, <3>1, SameSent
    <3>3. Pending(r)' <=> Pending(r)
      <4>1. ASSUME NEW j PROVE j \in k..Len(pids) /\ pids[j] = r <=> j \in (k + 1)..Len(pids) /\ pids[j] = r
          BY <1>1, <1>3, <2>1
      <4> QED  BY <1>1, <4>1 DEF Pending
    <3> QED  BY <1>2, <3>2, <3>3, SameInbox
  <2>2. CASE r = pids[k]
    <3>1. Pending(r) /\ ~Pending(r)'
        BY <1>1, <1>3, <2>2 DEF Pending, PlaceInv
    <3>2. Queued(r)' = Queued(r) \cup {Text}
      <4>1. /\ Len(queue) \in Nat /\ Len(queue') = Len(queue) + 1
            /\ queue'[Len(queue) + 1] = [mtype |-> pids[k], mtext |-> Text]
            /\ \A j \in 1..Len(queue) : queue'[j] = queue[j]
          BY <1>1, <1>4, SentQueue
      <4>2. Lines(r)' = Lines(r) \cup {Len(queue) + 1}
          BY <2>2, <4>1 DEF Lines, LineTo
      <4>3. \A j \in Lines(r) : queue'[j] = queue[j]
          BY <4>1 DEF Lines
      <4>4. /\ Queued(r) = {queue[j].mtext : j \in Lines(r)}
            /\ Queued(r)' = {queue'[j].mtext : j \in Lines(r)'}
          BY DEF Queued
      <4>5. queue'[Len(queue) + 1].mtext = Text
          BY <4>1
      <4> QED  BY <4>2, <4>3, <4>4, <4>5
    <3> QED  BY <3>1, <3>2, InboxByLines
  <2> QED  BY <2>1, <2>2
<1> QED  BY <1>1, <1>2, <1>5, Stutters

\* Before a restart nothing is left in an inbox when the sender has all answers.
LEMMA AllTaken ==
    ASSUME TypeOK, RegInv, EndInv, KeptInv, senderKills = 0, NEW r \in Receivers,
           sPc \in {"waitAnswers", "closeQueue"}, pids = << >>
    PROVE  Inbox(r) = {}
<1>1. Listeners = {} /\ ~Pending(r)
    BY DEF Listeners, ToSet, Pending
<1>2. Lines(r) = {}
    BY <1>1 DEF KeptInv
<1> QED  BY <1>1, <1>2, InboxByLines DEF Queued

\* The sender that has all answers is content.
LEMMA AnswersComplete ==
    ASSUME TypeOK, PlaceInv, RegInv, EndInv, KeptInv, senderKills = 0, AnswersDone
    PROVE  Multicast!Complete
<1>1. /\ sPc = "waitAnswers" /\ sPc' = "closeQueue" /\ pids = << >>
      /\ UNCHANGED <<queue, lines, atEof, pids, k, served, printed>>
    BY DEF AnswersDone, receiverVars
<1>2. Closed /\ Closed' = Closed /\ Published' = Published /\ ~Completed /\ Completed'
    BY <1>1 DEF Closed, Published, Completed, Deciding, PlaceInv
<1>3. ASSUME NEW r \in Receivers PROVE Inbox(r) = {} /\ Inbox(r)' = Inbox(r)
  <2>1. SameLines(r)
      BY <1>1, SameQueue
  <2>2. ~Pending(r) /\ ~Pending(r)'
      BY <1>1 DEF Pending
  <2> QED  BY <1>1, <2>1, <2>2, SameInbox, AllTaken
<1>4. [r \in Receivers |-> Inbox(r)]' = [r \in Receivers |-> Inbox(r)]
    BY <1>3
<1>5. \A r \in served : [q \in Receivers |-> Inbox(q)][r] = {}
    BY <1>3 DEF TypeOK
<1> QED  BY <1>1, <1>2, <1>4, <1>5 DEF Multicast!Complete, Closed, Published, Completed

\* Nothing is lost with the queue.
LEMMA ClosingStutters ==
    ASSUME TypeOK, RegInv, EndInv, KeptInv, senderKills = 0, CloseQueue
    PROVE  UNCHANGED Multicast!vars
<1>1. /\ sPc = "closeQueue" /\ sPc' = "done" /\ pids = << >> /\ queue' = << >>
      /\ UNCHANGED <<lines, atEof, pids, k, served, printed>>
    BY DEF CloseQueue, KeptInv, receiverVars
<1>2. Published' = Published /\ Closed' = Closed /\ Completed' = Completed
    BY <1>1 DEF Published, Closed, Completed, Deciding
<1>3. ASSUME NEW r \in Receivers PROVE Inbox(r)' = Inbox(r)
  <2>1. Inbox(r) = {}
      BY <1>1, AllTaken
  <2>2. Lines(r)' = {} /\ ~Pending(r)'
      BY <1>1 DEF Lines, Pending
  <2>3. Queued(r)' = {}
      BY <2>2 DEF Queued
  <2> QED  BY <2>1, <2>2, <2>3, InboxByLines
<1> QED  BY <1>1, <1>2, <1>3, Stutters

\* What a step of a receiver leaves of the multicast.
LEMMA ReceiverKeeps ==
    ASSUME UNCHANGED senderVars
    PROVE  /\ Published' = Published /\ Closed' = Closed /\ Completed' = Completed
           /\ served' = served /\ Text' = Text /\ \A r : Pending(r)' <=> Pending(r)
BY DEF senderVars, Published, Closed, Completed, Deciding, Text, Pending

\* The steps of a receiver that are none of the multicast.
LEMMA ReceiverStutters ==
    ASSUME TypeOK, NEW q \in Receivers,
           GetQueue(q) \/ Register(q) \/ LeaveQueue(q) \/ ReceiverFails(q) \/ KillReceiver(q)
    PROVE  UNCHANGED Multicast!vars
<1>1. UNCHANGED senderVars /\ printed' = printed
    BY DEF GetQueue, Register, LeaveQueue, ReceiverFails, KillReceiver
<1>2. /\ Published' = Published /\ Closed' = Closed /\ Completed' = Completed
      /\ served' = served /\ Text' = Text /\ \A r : Pending(r)' <=> Pending(r)
    BY <1>1, ReceiverKeeps
<1>3. ASSUME NEW r \in Receivers PROVE SameLines(r)
  <2>1. CASE Register(q) \/ LeaveQueue(q)
    <3>1. PICK t \in {"MSG_TYPE_REG", "MSG_TYPE_END_ANSWER"} :
            queue' = Append(queue, [mtype |-> t, pid |-> q])
        BY <2>1 DEF Register, LeaveQueue, SendPid
    <3>2. [mtype |-> t, pid |-> q] \in Messages /\ ~LineTo(r, [mtype |-> t, pid |-> q])
        BY TypesAssumption DEF Messages, LineTo
    <3> QED  BY <1>1, <3>1, <3>2, SameSent
  <2>2. CASE GetQueue(q) \/ ReceiverFails(q) \/ KillReceiver(q)
    <3>1. UNCHANGED queue
        BY <2>2 DEF GetQueue, ReceiverFails, KillReceiver
    <3> QED  BY <1>1, <3>1, SameQueue
  <2> QED  BY <2>1, <2>2
<1>4. ASSUME NEW r \in Receivers PROVE Inbox(r)' = Inbox(r)
    BY <1>2, <1>3, SameInbox
<1> QED  BY <1>1, <1>2, <1>4, Stutters

\* The text a receiver takes goes before the one pending for it.
LEMMA BeforePending ==
    ASSUME TypeOK, DueInv, EndInv, NEW r \in Receivers, Pending(r), NEW t \in Nat,
           \E i \in Lines(r) : queue[i].mtext = t
    PROVE  t # EMPTY /\ (Text # EMPTY => t < Text) /\ Text # t
<1>1. sPc = "sendMessage" /\ r \in Listeners /\ Unsent(r)
    BY PendingToListener
<1>2. t # EMPTY
    BY <1>1 DEF EndInv, EndOf
<1>3. CASE atEof
    BY <1>2, <1>3 DEF Text
<1>4. CASE ~atEof
  <2>1. Has(r, t)
      BY <1>2, HasByLines
  <2>2. t < lines
      BY <1>1, <1>4, <2>1 DEF DueInv, DueFor, Working
  <2> QED  BY <1>2, <1>4, <2>2 DEF Text, TypeOK
<1> QED  BY <1>3, <1>4

\* A receiver takes what precedes all else in its inbox, and the other inboxes stay.
LEMMA GettingTakes ==
    ASSUME TypeOK, TypeOK', LineInv, DueInv, EndInv, NEW q \in Receivers, GetMessage(q)
    PROVE  Multicast!Take(q)
<1> DEFINE t == Message(queue, q).mtext
           inbox == [r \in Receivers |-> Inbox(r)]
<1>1. UNCHANGED senderVars
    BY DEF GetMessage
<1>2. /\ Published' = Published /\ Closed' = Closed /\ Completed' = Completed
      /\ served' = served /\ Text' = Text /\ \A r : Pending(r)' <=> Pending(r)
    BY <1>1, ReceiverKeeps
<1>3. /\ \E i \in Lines(q) : queue[i].mtext = t
      /\ t \in Queued(q) /\ t \in Nat /\ Queued(q)' = Queued(q) \ {t}
      /\ \A n \in Queued(q) \ {t} : n \in Nat /\ t # EMPTY /\ (n # EMPTY => t < n)
    BY TakenText
<1>4. printed' = IF t = EMPTY THEN printed ELSE [printed EXCEPT ![q] = Append(@, t)]
    BY DEF GetMessage
<1>5. ASSUME NEW r \in Receivers \ {q} PROVE Inbox(r)' = Inbox(r)
  <2>1. Arrived(queue, q) /\ queue' = Rest(queue, q) /\ q \in (Receivers \cup MsgTypes) \ {r}
      BY DEF GetMessage
  <2>2. printed'[r] = printed[r]
      BY <1>4 DEF TypeOK
  <2>3. SameLines(r)
      BY <2>1, <2>2, SameTaken
  <2> QED  BY <1>2, <2>3, SameInbox
<1> HIDE DEF t
<1>6. Pending(q) => t # EMPTY /\ (Text # EMPTY => t < Text) /\ Text # t
    BY <1>3, BeforePending
<1>7. t \in Inbox(q) /\ Inbox(q)' = Inbox(q) \ {t}
    BY <1>2, <1>3, <1>6, InboxByLines
<1>8. \A n \in Inbox(q) \ {t} : t # EMPTY /\ (n = EMPTY \/ t < n)
    BY <1>3, <1>6, InboxByLines
<1>9. inbox' = [inbox EXCEPT ![q] = @ \ {t}]
    BY <1>5, <1>7
<1>10. /\ t \in inbox[q]
       /\ \A n \in inbox[q] \ {t} : Multicast!Precedes(t, n)
    BY <1>7, <1>8 DEF Multicast!Precedes
<1> HIDE DEF inbox
<1>11. /\ \E item \in inbox[q] :
            /\ \A other \in inbox[q] \ {item} : Multicast!Precedes(item, other)
            /\ inbox' = [inbox EXCEPT ![q] = @ \ {item}]
            /\ printed' = IF item = EMPTY THEN printed ELSE [printed EXCEPT ![q] = Append(@, item)]
    BY <1>4, <1>9, <1>10
<1> QED  BY <1>2, <1>11 DEF Multicast!Take, Published, Closed, Completed, inbox

\* The sender was not killed.
NoRestart == senderKills = 0

\* A sender that is not killed implements the multicast: although the lines are
\* sent listener by listener, all that are listeners then get each, in order, and
\* it ends when they have taken all (sendMessage, getMessages, waitAnswers).
THEOREM SenderImplementsMulticast ==
    Spec /\ []NoRestart => ImplementsMulticast
<1>1. Init => Multicast!Init
  <2> SUFFICES ASSUME Init PROVE Multicast!Init
      OBVIOUS
  <2>1. \A r : Inbox(r) = {}
    <3>1. ASSUME NEW r PROVE Lines(r) = {} /\ ~Pending(r)
        BY DEF Init, Lines, Pending
    <3> QED  BY <3>1, InboxByLines DEF Queued
  <2>2. [r \in Receivers |-> Inbox(r)] = [r \in Receivers |-> {}]
      BY <2>1
  <2> QED  BY <2>2 DEF Init, Multicast!Init, Deciding
<1>2. ListenersInv /\ ListenersInv' /\ NoRestart /\ NoRestart' /\ [Next]_vars
        => [Multicast!Next]_(Multicast!vars)
  <2> SUFFICES ASSUME TypeOK, PlaceInv, RegInv, LineInv, DueInv, EndInv, KeptInv, TypeOK',
                      senderKills = 0, senderKills' = 0, [Next]_vars
               PROVE  [Multicast!Next]_(Multicast!vars)
      BY DEF ListenersInv, NoRestart
  <2>1. CASE UNCHANGED vars
    <3>1. UNCHANGED senderVars /\ printed' = printed /\ queue' = queue
        BY <2>1 DEF vars, receiverVars
    <3>2. \A r \in Receivers : SameLines(r)
        BY <3>1, SameQueue
    <3> QED  BY <3>1, <3>2, ReceiverKeeps, SameInbox, Stutters
  <2>2. CASE CreateQueue \/ ReadLine \/ AddDone \/ SendDone \/ TakeAnswer
      BY <2>2, SenderStutters
  <2>3. CASE AddListener
      BY <2>3, AddingJoins DEF Multicast!Next
  <2>4. CASE DelDone
      BY <2>4, DecidingPublishes DEF Multicast!Next
  <2>5. CASE SendToListener
      BY <2>5, SendingStutters
  <2>6. CASE AnswersDone
      BY <2>6, AnswersComplete DEF Multicast!Next
  <2>7. CASE CloseQueue
      BY <2>7, ClosingStutters
  <2>8. ~KillSender
      BY DEF KillSender
  <2>9. ASSUME NEW q \in Receivers,
               GetQueue(q) \/ Register(q) \/ LeaveQueue(q) \/ ReceiverFails(q) \/ KillReceiver(q)
        PROVE  UNCHANGED Multicast!vars
      BY <2>9, ReceiverStutters
  <2>10. ASSUME NEW q \in Receivers, GetMessage(q) PROVE Multicast!Next
      BY <2>10, GettingTakes DEF Multicast!Next
  <2> QED
      BY <2>1, <2>2, <2>3, <2>4, <2>5, <2>6, <2>7, <2>8, <2>9, <2>10 DEF Next, SenderStep, ReceiverStep
<1> QED  BY <1>1, <1>2, ListenersInvariant, PTL DEF Spec, ImplementsMulticast, Multicast!Spec
=============================================================================
