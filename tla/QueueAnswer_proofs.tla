------------------------- MODULE QueueAnswer_proofs -------------------------
(***************************************************************************)
(* Proofs about QueueAnswer: each line is taken at most once and in order, *)
(* and before a kill the answer means that all were taken.                 *)
(***************************************************************************)
EXTENDS QueueAnswer, Integers, SequenceTheorems, WellFoundedInduction, TLAPS

-----------------------------------------------------------------------------
(* What msgrcv takes from a queue and leaves of it, and what msgsnd appends. *)

\* A set of numbers has a least one, and Min chooses it.
LEMMA MinIsLeast ==
    ASSUME NEW I \in SUBSET Nat, I # {}
    PROVE  Min(I) \in I /\ \A y \in I : Min(I) <= y
<1>1. IsWellFoundedOn(OpToRel(<, Nat), Nat)
    BY NatLessThanWellFounded
<1> DEFINE Less == OpToRel(<, Nat)
<1>2. \A x, y \in Nat : <<y, x>> \in Less <=> y < x
    BY Zenon DEF OpToRel
<1>3. IsWellFoundedOn(Less, Nat)
    BY <1>1
<1> HIDE DEF Less
<1>4. \E x \in I : \A y \in I : ~(<<y, x>> \in Less)
    BY <1>3, WFMin, Zenon
<1>5. \E x \in I : \A y \in I : ~(y < x)
    BY <1>2, <1>4, Zenon
<1>6. \E x \in I : \A y \in I : x <= y
    BY <1>5
<1> QED  BY <1>6, Zenon DEF Min

\* msgrcv finds the first message of the type, or none.
LEMMA PositionIsFirst ==
    ASSUME NEW S, NEW msgs \in Seq(S), NEW t
    PROVE  /\ Position(msgs, t) \in 0..Len(msgs)
           /\ Position(msgs, t) > 0 => t \in {ANY_TYPE, msgs[Position(msgs, t)].mtype}
           /\ Position(msgs, t) > 0 =>
                \A i \in 1..(Position(msgs, t) - 1) : t \notin {ANY_TYPE, msgs[i].mtype}
           /\ Position(msgs, t) = 0 =>
                \A i \in 1..Len(msgs) : t \notin {ANY_TYPE, msgs[i].mtype}
<1> DEFINE I == {i \in 1..Len(msgs) : t \in {ANY_TYPE, msgs[i].mtype}}
<1>1. Len(msgs) \in Nat /\ I \in SUBSET Nat
    OBVIOUS
<1>2. Position(msgs, t) = IF I # {} THEN Min(I) ELSE 0
    BY Zenon DEF Position, SelectInSeq
<1>3. I # {} => Min(I) \in I /\ \A y \in I : Min(I) <= y
    BY <1>1, MinIsLeast
<1> DEFINE m == Min(I)
<1>4. CASE I = {}
    BY <1>1, <1>2, <1>4
<1>5. CASE I # {}
  <2>1. m \in I /\ \A y \in I : m <= y
    BY <1>3, <1>5
  <2>2. Position(msgs, t) = m
    BY <1>2, <1>5
  <2> HIDE DEF m
  <2>3. \A i \in 1..(m - 1) : i \notin I
    BY <1>1, <2>1
  <2> QED  BY <1>1, <2>1, <2>2, <2>3
<1> QED  BY <1>4, <1>5

\* What RemoveAt leaves: the messages behind the place move up by one.
LEMMA RemoveAtProperties ==
    ASSUME NEW S, NEW msgs \in Seq(S), NEW p \in 1..Len(msgs)
    PROVE  /\ RemoveAt(msgs, p) \in Seq(S)
           /\ Len(RemoveAt(msgs, p)) = Len(msgs) - 1
           /\ \A i \in 1..(Len(msgs) - 1) :
                RemoveAt(msgs, p)[i] = IF i < p THEN msgs[i] ELSE msgs[i + 1]
<1> DEFINE front == SubSeq(msgs, 1, p - 1)
           back == SubSeq(msgs, p + 1, Len(msgs))
<1>1. Len(msgs) \in Nat /\ \A i \in 1..Len(msgs) : msgs[i] \in S
    BY ElementOfSeq, LenProperties
<1>2. /\ front \in Seq(S) /\ Len(front) = p - 1
      /\ \A i \in 1..(p - 1) : front[i] = msgs[i]
    BY <1>1
<1>3. /\ back \in Seq(S) /\ Len(back) = Len(msgs) - p
      /\ \A i \in 1..(Len(msgs) - p) : back[i] = msgs[p + i]
    BY <1>1
<1>4. RemoveAt(msgs, p) = front \o back
    BY DEF RemoveAt
<1> HIDE DEF front, back
<1>4a. /\ front \o back \in Seq(S)
      /\ Len(front \o back) = Len(front) + Len(back)
      /\ \A i \in 1..(Len(front) + Len(back)) :
           (front \o back)[i] = IF i <= Len(front) THEN front[i] ELSE back[i - Len(front)]
    BY <1>2, <1>3, ConcatProperties
<1>5. /\ front \o back \in Seq(S)
      /\ Len(front \o back) = Len(msgs) - 1
    BY <1>1, <1>2, <1>3, <1>4a
<1>6. ASSUME NEW i \in 1..(Len(msgs) - 1)
      PROVE  (front \o back)[i] = IF i < p THEN msgs[i] ELSE msgs[i + 1]
  <2>1. i \in 1..(Len(front) + Len(back))
      BY <1>1, <1>2, <1>3
  <2>2. CASE i < p
      BY <2>1, <2>2, <1>1, <1>2, <1>3, <1>4a
  <2>3. CASE ~(i < p)
    <3>1. i - Len(front) \in 1..(Len(msgs) - p) /\ p + (i - Len(front)) = i + 1
        BY <2>3, <1>1, <1>2
    <3> QED  BY <3>1, <2>1, <2>3, <1>1, <1>2, <1>3, <1>4a
  <2> QED  BY <2>2, <2>3
<1> QED  BY <1>4, <1>5, <1>6

\* A receive by type takes a first message of that type and leaves the others
\* in their order.
LEMMA ReceiveTyped ==
    ASSUME NEW S, NEW msgs \in Seq(S), NEW t, Arrived(msgs, t)
    PROVE  \E p \in 1..Len(msgs) :
             /\ t \in {ANY_TYPE, msgs[p].mtype}
             /\ \A i \in 1..(p - 1) : t \notin {ANY_TYPE, msgs[i].mtype}
             /\ Message(msgs, t) = msgs[p] /\ msgs[p] \in S
             /\ Rest(msgs, t) \in Seq(S)
             /\ Len(Rest(msgs, t)) = Len(msgs) - 1
             /\ \A i \in 1..(Len(msgs) - 1) :
                  Rest(msgs, t)[i] = IF i < p THEN msgs[i] ELSE msgs[i + 1]
<1> DEFINE p == Position(msgs, t)
<1>1. p \in 0..Len(msgs) /\ p > 0 /\ Len(msgs) \in Nat
    BY PositionIsFirst, LenProperties DEF Arrived
<1>2. p \in 1..Len(msgs)
    BY <1>1
<1>3. /\ t \in {ANY_TYPE, msgs[p].mtype}
      /\ \A i \in 1..(p - 1) : t \notin {ANY_TYPE, msgs[i].mtype}
    BY <1>1, PositionIsFirst
<1>4. Message(msgs, t) = msgs[p] /\ msgs[p] \in S
    BY <1>2, ElementOfSeq DEF Message
<1>5. Rest(msgs, t) = RemoveAt(msgs, p)
    BY DEF Rest
<1> HIDE DEF p
<1>6. /\ Rest(msgs, t) \in Seq(S)
      /\ Len(Rest(msgs, t)) = Len(msgs) - 1
      /\ \A i \in 1..(Len(msgs) - 1) :
           Rest(msgs, t)[i] = IF i < p THEN msgs[i] ELSE msgs[i + 1]
    BY <1>2, <1>5, RemoveAtProperties
<1> QED  BY <1>2, <1>3, <1>4, <1>6

\* With ANY_TYPE it takes the head of the queue.
LEMMA ReceiveAny ==
    ASSUME NEW S, NEW msgs \in Seq(S), Arrived(msgs, ANY_TYPE)
    PROVE  /\ Len(msgs) \in Nat \ {0}
           /\ Message(msgs, ANY_TYPE) = msgs[1] /\ msgs[1] \in S
           /\ Rest(msgs, ANY_TYPE) \in Seq(S)
           /\ Len(Rest(msgs, ANY_TYPE)) = Len(msgs) - 1
           /\ \A i \in 1..(Len(msgs) - 1) : Rest(msgs, ANY_TYPE)[i] = msgs[i + 1]
<1>1. PICK p \in 1..Len(msgs) :
             /\ \A i \in 1..(p - 1) : ANY_TYPE \notin {ANY_TYPE, msgs[i].mtype}
             /\ Message(msgs, ANY_TYPE) = msgs[p] /\ msgs[p] \in S
             /\ Rest(msgs, ANY_TYPE) \in Seq(S)
             /\ Len(Rest(msgs, ANY_TYPE)) = Len(msgs) - 1
             /\ \A i \in 1..(Len(msgs) - 1) :
                  Rest(msgs, ANY_TYPE)[i] = IF i < p THEN msgs[i] ELSE msgs[i + 1]
    BY ReceiveTyped
<1>2. Len(msgs) \in Nat \ {0} /\ p = 1
  <2>1. Len(msgs) \in Nat
      BY LenProperties
  <2>2. 1 \notin 1..(p - 1)
      BY <1>1
  <2> QED  BY <2>1, <2>2
<1> QED  BY <1>1, <1>2

\* What msgsnd appends is behind all that was there.
LEMMA SentLast ==
    ASSUME NEW S, NEW msgs \in Seq(S), NEW m \in S
    PROVE  /\ Append(msgs, m) \in Seq(S)
           /\ Len(msgs) \in Nat
           /\ Len(Append(msgs, m)) = Len(msgs) + 1
           /\ \A i \in 1..Len(msgs) : Append(msgs, m)[i] = msgs[i]
           /\ Append(msgs, m)[Len(msgs) + 1] = m
BY AppendProperties, LenProperties

-----------------------------------------------------------------------------

Messages ==
    [mtype : {"MSG_TYPE_DATA"}, mtext : Nat]
        \cup [mtype : {"MSG_TYPE_END", "MSG_TYPE_ANSWER"}, mtext : {0}]

TypeOK ==
    /\ exists \in BOOLEAN
    /\ queue \in Seq(Messages)
    /\ sPc \in {"msgget", "read", "msgsnd", "waitAnswer", "closeQueue", "abort",
                "done", "failed"}
    /\ lines \in Nat /\ code \in {"data", "eof"} /\ kills \in Nat
    /\ rPc \in [Receivers -> {"msgget", "getMessages", "print", "sendEndAnswer", "failure", "success"}]
    /\ taken \in [Receivers -> Seq(Nat)]

\* The queue is there while the sender works on it, and no receiver is before
\* its first run.
PlaceInv ==
    /\ sPc \in {"read", "msgsnd", "waitAnswer", "closeQueue", "abort"} => exists
    /\ sPc \in {"done", "failed"} => ~exists
    /\ kills = 0 /\ sPc = "msgget" =>
         /\ ~exists /\ queue = << >>
         /\ \A r \in Receivers : rPc[r] \notin {"getMessages", "print", "sendEndAnswer"}

IsLine(m) == m.mtype = "MSG_TYPE_DATA"

\* The lines that were sent, or lost with a sender that was killed.
lastSent == IF sPc = "msgsnd" /\ code = "data" THEN lines - 1 ELSE lines

\* The lines in the queue are in order, behind all that were taken, and none of
\* them is yet to be sent.
OrderInv ==
    /\ \A r \in Receivers : \A i, j \in 1..Len(taken[r]) :
         i < j => taken[r][i] < taken[r][j]
    /\ \A r, q \in Receivers : r # q =>
         \A i \in 1..Len(taken[r]), j \in 1..Len(taken[q]) : taken[r][i] # taken[q][j]
    /\ \A i, j \in 1..Len(queue) :
         i < j /\ IsLine(queue[i]) /\ IsLine(queue[j]) => queue[i].mtext < queue[j].mtext
    /\ \A r \in Receivers : \A i \in 1..Len(taken[r]), j \in 1..Len(queue) :
         IsLine(queue[j]) => taken[r][i] < queue[j].mtext
    /\ \A j \in 1..Len(queue) : IsLine(queue[j]) => queue[j].mtext <= lastSent
    /\ \A r \in Receivers : \A i \in 1..Len(taken[r]) : taken[r][i] <= lastSent

\* Before a kill, every line sent is in the queue or taken.
InQueue(n) == \E j \in 1..Len(queue) : IsLine(queue[j]) /\ queue[j].mtext = n
IsTaken(n) == \E r \in Receivers : \E i \in 1..Len(taken[r]) : taken[r][i] = n
NoLineLost ==
    kills = 0 /\ sPc \notin {"done", "failed"} => \A n \in 1..lastSent : InQueue(n) \/ IsTaken(n)

\* Before a kill, the end and the answers come behind the last line, and once a
\* receiver has taken one of them no line is left.
EndInv ==
    kills = 0 /\ exists =>
        /\ \A j \in 1..Len(queue) : ~IsLine(queue[j]) => sPc \in {"waitAnswer", "closeQueue"}
        /\ \A i, j \in 1..Len(queue) : i < j /\ IsLine(queue[j]) => IsLine(queue[i])
        /\ \/ \E r \in Receivers : rPc[r] = "sendEndAnswer"
           \/ \E j \in 1..Len(queue) : queue[j].mtype = "MSG_TYPE_ANSWER"
           \/ sPc = "closeQueue"
           => /\ \A j \in 1..Len(queue) : ~IsLine(queue[j])
              /\ sPc \in {"waitAnswer", "closeQueue"}

\* So the answer finds all lines taken.
DoneInv ==
    kills = 0 /\ sPc \in {"closeQueue", "done"} => \A n \in 1..lines : IsTaken(n)

AnswerInv == TypeOK /\ PlaceInv /\ OrderInv /\ NoLineLost /\ EndInv /\ DoneInv

-----------------------------------------------------------------------------
\* Nothing is sent or taken when the programs start.
LEMMA InitAnswer == Init => AnswerInv
<1> SUFFICES ASSUME Init PROVE AnswerInv
    OBVIOUS
<1> USE DEF Init
<1>1. Len(queue) = 0 /\ \A r \in Receivers : Len(taken[r]) = 0
    OBVIOUS
<1>2. TypeOK
  <2>1. queue \in Seq(Messages) /\ taken \in [Receivers -> Seq(Nat)]
      BY EmptySeq
  <2>2. exists \in BOOLEAN
      BY Zenon
  <2>3. /\ sPc = "msgget" /\ lines \in Nat /\ code = "data" /\ kills \in Nat
        /\ rPc \in [Receivers -> {"msgget", "getMessages", "print", "sendEndAnswer", "failure", "success"}]
      OBVIOUS
  <2> QED  BY <2>1, <2>2, <2>3 DEF TypeOK
<1>3. PlaceInv /\ EndInv /\ DoneInv
    BY <1>1 DEF PlaceInv, EndInv, DoneInv
<1>4. lastSent = 0
    BY DEF lastSent
<1>5. NoLineLost
    BY <1>4 DEF NoLineLost
<1>6. OrderInv
    BY <1>1 DEF OrderInv
<1> QED  BY <1>2, <1>3, <1>5, <1>6 DEF AnswerInv

\* Every step keeps the types.
LEMMA TypeStep == TypeOK /\ [Next]_vars => TypeOK'
<1> SUFFICES ASSUME TypeOK, [Next]_vars PROVE TypeOK'
    OBVIOUS
<1> USE DEF TypeOK
<1>1. CASE UNCHANGED vars
    BY <1>1 DEF vars, senderVars, receiverVars
<1>2. CASE CreateQueue
    BY <1>2 DEF CreateQueue, receiverVars
<1>3. CASE ReadLine
    BY <1>3 DEF ReadLine, receiverVars
<1>4. CASE SendMessage
  <2>1. PICK m \in Messages : queue' = Append(queue, m)
    <3>1. [mtype |-> "MSG_TYPE_END", mtext |-> 0] \in Messages
          /\ [mtype |-> "MSG_TYPE_DATA", mtext |-> lines] \in Messages
        BY DEF Messages
    <3> QED  BY <1>4, <3>1 DEF SendMessage
  <2> QED  BY <1>4, <2>1 DEF SendMessage, receiverVars
<1>5. CASE WaitAnswer
  <2>1. Rest(queue, "MSG_TYPE_ANSWER") \in Seq(Messages)
      BY <1>5, ReceiveTyped DEF WaitAnswer
  <2> QED  BY <1>5, <2>1 DEF WaitAnswer, receiverVars
<1>6. CASE CloseQueue
    BY <1>6, EmptySeq DEF CloseQueue, receiverVars
<1>7. CASE KillSender
    BY <1>7 DEF KillSender, receiverVars
<1>8. ASSUME NEW r \in Receivers, GetQueue(r) \/ PrintMessage(r) \/ QueueGone(r) \/ AnswerFails(r)
      PROVE  TypeOK'
  <2>1. PICK to \in {"getMessages", "failure", "sendEndAnswer", "success"} :
          rPc' = [rPc EXCEPT ![r] = to]
      BY <1>8 DEF GetQueue, PrintMessage, QueueGone, AnswerFails, Goto
  <2> QED  BY <1>8, <2>1 DEF GetQueue, PrintMessage, QueueGone, AnswerFails, senderVars
<1>9. ASSUME NEW r \in Receivers, GetMessage(r) PROVE TypeOK'
  <2>1. Message(queue, ANY_TYPE) \in Messages /\ Rest(queue, ANY_TYPE) \in Seq(Messages)
      BY <1>9, ReceiveAny DEF GetMessage
  <2>2. taken' \in [Receivers -> Seq(Nat)]
    <3>1. Message(queue, ANY_TYPE).mtype = "MSG_TYPE_DATA" =>
            Append(taken[r], Message(queue, ANY_TYPE).mtext) \in Seq(Nat)
        BY <2>1 DEF Messages
    <3> QED  BY <1>9, <3>1 DEF GetMessage
  <2>3. rPc' \in [Receivers -> {"msgget", "getMessages", "print", "sendEndAnswer", "failure", "success"}]
      BY <1>9 DEF GetMessage, Goto
  <2> QED  BY <1>9, <2>1, <2>2, <2>3 DEF GetMessage, senderVars
<1>10. ASSUME NEW r \in Receivers, SendEndAnswer(r) PROVE TypeOK'
  <2>1. PICK m \in Messages : queue' = Append(queue, m)
      BY <1>10 DEF SendEndAnswer, Messages
  <2> QED  BY <1>10, <2>1 DEF SendEndAnswer, Goto, senderVars
<1> QED
    BY <1>1, <1>2, <1>3, <1>4, <1>5, <1>6, <1>7, <1>8, <1>9, <1>10
       DEF Next, SenderStep, ReceiverStep

\* Every step keeps the places of sender and receivers with the queue.
LEMMA PlaceStep == TypeOK /\ PlaceInv /\ [Next]_vars => PlaceInv'
<1> SUFFICES ASSUME TypeOK, PlaceInv, [Next]_vars PROVE PlaceInv'
    OBVIOUS
<1> USE DEF TypeOK, PlaceInv
<1>1. CASE UNCHANGED vars
    BY <1>1 DEF vars, senderVars, receiverVars
<1>2. CASE CreateQueue \/ ReadLine \/ SendMessage \/ WaitAnswer \/ CloseQueue \/ KillSender
    BY <1>2 DEF CreateQueue, ReadLine, SendMessage, WaitAnswer, CloseQueue, KillSender,
                receiverVars
<1>3. ASSUME NEW r \in Receivers, GetQueue(r) \/ ReceiverStep(r) PROVE PlaceInv'
  <2>1. UNCHANGED <<exists, sPc, kills>>
      BY <1>3 DEF GetQueue, ReceiverStep, GetMessage, PrintMessage, QueueGone, SendEndAnswer, AnswerFails,
                  senderVars
  <2>2. \A q \in Receivers \ {r} : rPc'[q] = rPc[q]
      BY <1>3 DEF GetQueue, ReceiverStep, GetMessage, PrintMessage, QueueGone, SendEndAnswer, AnswerFails, Goto
  <2>3. ~exists /\ rPc[r] \notin {"getMessages", "print", "sendEndAnswer"} =>
          rPc'[r] \notin {"getMessages", "print", "sendEndAnswer"} /\ queue' = queue
      BY <1>3 DEF GetQueue, ReceiverStep, GetMessage, PrintMessage, QueueGone, SendEndAnswer, AnswerFails, Goto
  <2> QED  BY <2>1, <2>2, <2>3
<1> QED  BY <1>1, <1>2, <1>3 DEF Next, SenderStep

-----------------------------------------------------------------------------
\* What a step does to the lines: one message is sent, and is the next line or
\* none; the first message is taken by a receiver; an answer is taken by the
\* sender; the queue is removed; or nothing happens to them.
SendOf(m) ==
    /\ queue' = Append(queue, m)
    /\ IsLine(m) => m.mtext = lastSent + 1 /\ lastSent' = m.mtext
    /\ ~IsLine(m) => lastSent' = lastSent
    /\ sPc \notin {"done", "failed"}
    /\ UNCHANGED <<taken, kills>>

TakeOf(r) ==
    /\ Len(queue) \in Nat \ {0} /\ Len(queue') = Len(queue) - 1
    /\ \A j \in 1..(Len(queue) - 1) : queue'[j] = queue[j + 1]
    /\ IsLine(queue[1]) => taken' = [taken EXCEPT ![r] = Append(@, queue[1].mtext)]
    /\ ~IsLine(queue[1]) => UNCHANGED taken
    /\ UNCHANGED <<sPc, lines, code, kills, lastSent>>

AnswerOf ==
    /\ \E p \in 1..Len(queue) :
         /\ ~IsLine(queue[p])
         /\ Len(queue') = Len(queue) - 1
         /\ \A j \in 1..(Len(queue) - 1) :
              queue'[j] = IF j < p THEN queue[j] ELSE queue[j + 1]
    /\ lastSent' = lastSent /\ sPc \notin {"done", "failed"}
    /\ UNCHANGED <<taken, kills>>

RemoveOf ==
    /\ queue' = << >> /\ sPc' \in {"done", "failed"}
    /\ UNCHANGED <<taken, lastSent>>

IdleOf ==
    /\ UNCHANGED <<queue, taken>>
    /\ lastSent' >= lastSent
    /\ kills' = 0 => kills = 0 /\ lastSent' = lastSent
    /\ sPc' \notin {"done", "failed"} => sPc \notin {"done", "failed"}

\* Every step sends a message, takes one, answers, removes the queue, or does none of these.
LEMMA StepOf ==
    ASSUME TypeOK, PlaceInv, [Next]_vars
    PROVE  \/ \E m \in Messages : SendOf(m)
           \/ \E r \in Receivers : TakeOf(r)
           \/ AnswerOf \/ RemoveOf \/ IdleOf
<1> USE DEF TypeOK
<1>1. CASE UNCHANGED vars
    BY <1>1 DEF vars, senderVars, receiverVars, IdleOf, lastSent
<1>2. CASE CreateQueue \/ ReadLine \/ KillSender
    BY <1>2 DEF CreateQueue, ReadLine, KillSender, receiverVars, IdleOf, lastSent
<1>3. ASSUME NEW r \in Receivers, GetQueue(r) \/ PrintMessage(r) \/ QueueGone(r) \/ AnswerFails(r)
      PROVE  IdleOf
    BY <1>3 DEF GetQueue, PrintMessage, QueueGone, AnswerFails, senderVars, IdleOf, lastSent
<1>4. CASE SendMessage
  <2> DEFINE end == [mtype |-> "MSG_TYPE_END", mtext |-> 0]
             data == [mtype |-> "MSG_TYPE_DATA", mtext |-> lines]
  <2>1. end \in Messages /\ data \in Messages /\ ~IsLine(end) /\ IsLine(data) /\ data.mtext = lines
      BY DEF Messages, IsLine
  <2>2. /\ sPc = "msgsnd" /\ UNCHANGED <<lines, code, kills, taken>>
        /\ queue' = Append(queue, IF code = "eof" THEN end ELSE data)
        /\ sPc' = IF code = "eof" THEN "waitAnswer" ELSE "read"
      BY <1>4 DEF SendMessage, receiverVars
  <2> HIDE DEF end, data
  <2>3. CASE code = "eof"
    <3>1. lastSent' = lastSent
        BY <2>2, <2>3 DEF lastSent
    <3> QED  BY <2>1, <2>2, <2>3, <3>1 DEF SendOf
  <2>4. CASE code = "data"
    <3>1. lastSent = lines - 1 /\ lastSent' = lines
        BY <2>2, <2>4 DEF lastSent
    <3>2. data.mtext = lastSent + 1 /\ lastSent' = data.mtext
        BY <2>1, <3>1
    <3> QED  BY <2>1, <2>2, <2>4, <3>2 DEF SendOf
  <2> QED  BY <2>3, <2>4
<1>5. CASE WaitAnswer
  <2>1. PICK p \in 1..Len(queue) :
             /\ "MSG_TYPE_ANSWER" \in {ANY_TYPE, queue[p].mtype}
             /\ Rest(queue, "MSG_TYPE_ANSWER") \in Seq(Messages)
             /\ Len(Rest(queue, "MSG_TYPE_ANSWER")) = Len(queue) - 1
             /\ \A j \in 1..(Len(queue) - 1) :
                  Rest(queue, "MSG_TYPE_ANSWER")[j] = IF j < p THEN queue[j] ELSE queue[j + 1]
    <3>1. queue \in Seq(Messages) /\ Arrived(queue, "MSG_TYPE_ANSWER")
        BY <1>5 DEF WaitAnswer
    <3> HIDE DEF TypeOK
    <3> QED  BY <3>1, ReceiveTyped
  <2>2. ~IsLine(queue[p])
      BY <2>1, AnswerAssumption DEF IsLine
  <2> QED  BY <1>5, <2>1, <2>2 DEF WaitAnswer, receiverVars, AnswerOf, lastSent
<1>6. CASE CloseQueue
    BY <1>6 DEF CloseQueue, RemoveOf, receiverVars, lastSent
<1>7. ASSUME NEW r \in Receivers, GetMessage(r) PROVE TakeOf(r)
  <2>1. /\ Len(queue) \in Nat \ {0}
        /\ Message(queue, ANY_TYPE) = queue[1]
        /\ Len(Rest(queue, ANY_TYPE)) = Len(queue) - 1
        /\ \A i \in 1..(Len(queue) - 1) : Rest(queue, ANY_TYPE)[i] = queue[i + 1]
      BY <1>7, ReceiveAny DEF GetMessage
  <2>2. UNCHANGED <<sPc, lines, code, kills, lastSent>>
      BY <1>7 DEF GetMessage, senderVars, lastSent
  <2> QED  BY <1>7, <2>1, <2>2 DEF GetMessage, TakeOf, IsLine
<1>8. ASSUME NEW r \in Receivers, SendEndAnswer(r) PROVE \E m \in Messages : SendOf(m)
  <2> DEFINE m == [mtype |-> "MSG_TYPE_ANSWER", mtext |-> 0]
  <2>1. m \in Messages /\ ~IsLine(m)
      BY DEF Messages, IsLine
  <2>2. /\ queue' = Append(queue, m) /\ UNCHANGED <<taken, kills, lastSent>>
        /\ sPc \notin {"done", "failed"}
      BY <1>8 DEF SendEndAnswer, senderVars, lastSent, PlaceInv
  <2> HIDE DEF m
  <2> QED  BY <2>1, <2>2 DEF SendOf
<1> QED
    BY <1>1, <1>2, <1>3, <1>4, <1>5, <1>6, <1>7, <1>8 DEF Next, SenderStep, ReceiverStep

-----------------------------------------------------------------------------
\* The lines stay in order and none is taken twice.
LEMMA OrderStep ==
    ASSUME TypeOK, PlaceInv, OrderInv, TypeOK', [Next]_vars
    PROVE  OrderInv'
<1>1. /\ queue \in Seq(Messages) /\ queue' \in Seq(Messages)
      /\ Len(queue) \in Nat /\ Len(queue') \in Nat
      /\ lastSent \in Int
    BY LenProperties DEF TypeOK, lastSent
<1>2. /\ \A j \in 1..Len(queue) : queue[j] \in Messages /\ queue[j].mtext \in Nat
      /\ \A j \in 1..Len(queue') : queue'[j] \in Messages
    BY <1>1, ElementOfSeq DEF Messages
<1>3. \A r \in Receivers :
        /\ taken[r] \in Seq(Nat) /\ Len(taken[r]) \in Nat
        /\ \A i \in 1..Len(taken[r]) : taken[r][i] \in Nat
  <2> SUFFICES ASSUME NEW r \in Receivers
               PROVE  /\ taken[r] \in Seq(Nat) /\ Len(taken[r]) \in Nat
                      /\ \A i \in 1..Len(taken[r]) : taken[r][i] \in Nat
      OBVIOUS
  <2>1. taken[r] \in Seq(Nat)
      BY DEF TypeOK
  <2> QED  BY <2>1, ElementOfSeq, LenProperties
<1>4. ASSUME NEW m \in Messages, SendOf(m) PROVE OrderInv'
  <2>1. /\ Len(queue') = Len(queue) + 1 /\ queue'[Len(queue) + 1] = m
        /\ \A j \in 1..Len(queue) : queue'[j] = queue[j]
      BY <1>1, <1>4, SentLast DEF SendOf
  <2>2. /\ taken' = taken
        /\ IsLine(m) => m.mtext = lastSent + 1 /\ lastSent' = m.mtext
        /\ ~IsLine(m) => lastSent' = lastSent
      BY <1>4 DEF SendOf
  <2>3. \A j \in 1..Len(queue') : j \in 1..Len(queue) \/ j = Len(queue) + 1
      BY <1>1, <2>1
  <2>4. lastSent' \in Int /\ lastSent' >= lastSent
      BY <1>1, <2>2
  <2>5. ASSUME NEW i \in 1..Len(queue'), NEW j \in 1..Len(queue'),
               i < j, IsLine(queue'[i]), IsLine(queue'[j])
        PROVE  queue'[i].mtext < queue'[j].mtext
    <3>1. i \in 1..Len(queue) /\ queue'[i] = queue[i]
        BY <1>1, <2>1, <2>5
    <3>2. CASE j \in 1..Len(queue)
        BY <2>1, <2>5, <3>1, <3>2 DEF OrderInv
    <3>3. CASE j = Len(queue) + 1
      <4>1. queue[i].mtext <= lastSent /\ queue[i].mtext \in Nat
          BY <1>2, <2>5, <3>1 DEF OrderInv
      <4>2. queue'[j].mtext = lastSent + 1
          BY <2>1, <2>2, <2>5, <3>3
      <4> QED  BY <1>1, <3>1, <4>1, <4>2
    <3> QED  BY <2>3, <3>2, <3>3
  <2>6. ASSUME NEW r \in Receivers, NEW i \in 1..Len(taken[r])
        PROVE  /\ taken[r][i] <= lastSent'
               /\ \A j \in 1..Len(queue') : IsLine(queue'[j]) => taken[r][i] < queue'[j].mtext
    <3>1. taken[r][i] <= lastSent /\ taken[r][i] \in Nat
        BY <1>3 DEF OrderInv
    <3>2. ASSUME NEW j \in 1..Len(queue'), IsLine(queue'[j])
          PROVE  taken[r][i] < queue'[j].mtext
      <4>1. CASE j \in 1..Len(queue)
          BY <2>1, <3>2, <4>1 DEF OrderInv
      <4>2. CASE j = Len(queue) + 1
        <5>1. queue'[j].mtext = lastSent + 1
            BY <2>1, <2>2, <3>2, <4>2
        <5> QED  BY <1>1, <3>1, <5>1
      <4> QED  BY <2>3, <4>1, <4>2
    <3> QED  BY <1>1, <2>4, <3>1, <3>2
  <2>7. ASSUME NEW j \in 1..Len(queue'), IsLine(queue'[j])
        PROVE  queue'[j].mtext <= lastSent'
    <3>1. CASE j \in 1..Len(queue)
      <4>1. queue'[j] = queue[j] /\ queue[j].mtext <= lastSent /\ queue[j].mtext \in Nat
          BY <1>2, <2>1, <2>7, <3>1 DEF OrderInv
      <4> QED  BY <1>1, <2>4, <4>1
    <3>2. CASE j = Len(queue) + 1
        BY <1>1, <2>1, <2>2, <2>7, <3>2
    <3> QED  BY <2>3, <3>1, <3>2
  <2>8. /\ \A r \in Receivers : \A i, j \in 1..Len(taken'[r]) :
             i < j => taken'[r][i] < taken'[r][j]
        /\ \A r, q \in Receivers : r # q =>
             \A i \in 1..Len(taken'[r]), j \in 1..Len(taken'[q]) :
                taken'[r][i] # taken'[q][j]
      BY <2>2 DEF OrderInv
  <2> QED  BY <2>2, <2>5, <2>6, <2>7, <2>8 DEF OrderInv, IsLine
<1>5. ASSUME NEW r \in Receivers, TakeOf(r) PROVE OrderInv'
  <2>1. /\ Len(queue) \in Nat \ {0} /\ Len(queue') = Len(queue) - 1
        /\ \A j \in 1..(Len(queue) - 1) : queue'[j] = queue[j + 1]
        /\ IsLine(queue[1]) => taken' = [taken EXCEPT ![r] = Append(@, queue[1].mtext)]
        /\ ~IsLine(queue[1]) => UNCHANGED taken
        /\ lastSent' = lastSent
      BY <1>5 DEF TakeOf
  <2>2. \A j \in 1..Len(queue') :
          queue'[j] = queue[j + 1] /\ j + 1 \in 1..Len(queue) /\ 1 < j + 1
      BY <2>1
  <2>3. 1 \in 1..Len(queue)
      BY <2>1
  <2>4. /\ \A i, j \in 1..Len(queue') : i < j /\ IsLine(queue'[i]) /\ IsLine(queue'[j])
             => queue'[i].mtext < queue'[j].mtext
        /\ \A j \in 1..Len(queue') : IsLine(queue'[j]) => queue'[j].mtext <= lastSent'
    <3>1. ASSUME NEW i \in 1..Len(queue'), NEW j \in 1..Len(queue'), i < j,
                 IsLine(queue'[i]), IsLine(queue'[j])
          PROVE  queue'[i].mtext < queue'[j].mtext
      <4>1. i + 1 < j + 1 /\ i + 1 \in 1..Len(queue) /\ j + 1 \in 1..Len(queue)
          BY <2>1, <3>1
      <4> QED  BY <2>2, <3>1, <4>1 DEF OrderInv
    <3>2. ASSUME NEW j \in 1..Len(queue'), IsLine(queue'[j])
          PROVE  queue'[j].mtext <= lastSent'
        BY <2>1, <2>2, <3>2 DEF OrderInv
    <3> QED  BY <3>1, <3>2
  <2>5. CASE ~IsLine(queue[1])
    <3>1. taken' = taken
        BY <2>1, <2>5
    <3>2. \A q \in Receivers : \A i \in 1..Len(taken'[q]), j \in 1..Len(queue') :
            IsLine(queue'[j]) => taken'[q][i] < queue'[j].mtext
        BY <2>2, <3>1 DEF OrderInv
    <3> QED  BY <2>1, <2>4, <3>1, <3>2 DEF OrderInv, IsLine
  <2>6. CASE IsLine(queue[1])
    <3> DEFINE n == queue[1].mtext
    <3>1. n \in Nat /\ n <= lastSent
          /\ \A j \in 1..Len(queue') : IsLine(queue'[j]) => n < queue'[j].mtext
        BY <1>2, <2>2, <2>3, <2>6 DEF OrderInv
    <3>0. \A q \in Receivers : \A i \in 1..Len(taken[q]) :
            taken[q][i] < n /\ taken[q][i] \in Nat
        BY <1>3, <2>3, <2>6 DEF OrderInv
    <3>2. (\A q \in Receivers \ {r} : taken'[q] = taken[q]) /\ taken'[r] = Append(taken[r], n)
        BY <2>1, <2>6 DEF TypeOK
    <3> HIDE DEF n
    <3>3. /\ Len(taken'[r]) = Len(taken[r]) + 1 /\ Len(taken[r]) \in Nat
          /\ \A i \in 1..Len(taken[r]) : taken'[r][i] = taken[r][i]
          /\ taken'[r][Len(taken[r]) + 1] = n
        BY <1>3, <3>1, <3>2, AppendProperties
    <3>4. \A q \in Receivers : \A i \in 1..Len(taken'[q]) :
            \/ i \in 1..Len(taken[q]) /\ taken'[q][i] = taken[q][i]
            \/ q = r /\ i = Len(taken[r]) + 1 /\ taken'[q][i] = n
      <4> SUFFICES ASSUME NEW q \in Receivers, NEW i \in 1..Len(taken'[q])
                   PROVE  \/ i \in 1..Len(taken[q]) /\ taken'[q][i] = taken[q][i]
                          \/ q = r /\ i = Len(taken[r]) + 1 /\ taken'[q][i] = n
          OBVIOUS
      <4>1. CASE q = r
          BY <3>3, <4>1
      <4>2. CASE q # r
          BY <3>2, <4>2
      <4> QED  BY <4>1, <4>2
    <3>5. \A q \in Receivers : \A i, j \in 1..Len(taken'[q]) :
            i < j => taken'[q][i] < taken'[q][j]
      <4> SUFFICES ASSUME NEW q \in Receivers, NEW i \in 1..Len(taken'[q]),
                          NEW j \in 1..Len(taken'[q]), i < j
                   PROVE  taken'[q][i] < taken'[q][j]
          OBVIOUS
      <4>1. i \in 1..Len(taken[q]) /\ taken'[q][i] = taken[q][i]
          BY <3>3, <3>4
      <4>2. CASE j \in 1..Len(taken[q]) /\ taken'[q][j] = taken[q][j]
          BY <4>1, <4>2 DEF OrderInv
      <4>3. CASE q = r /\ taken'[q][j] = n
          BY <3>0, <4>1, <4>3
      <4> QED  BY <3>4, <4>2, <4>3
    <3>6. \A p, q \in Receivers : p # q =>
             \A i \in 1..Len(taken'[p]), j \in 1..Len(taken'[q]) :
                taken'[p][i] # taken'[q][j]
      <4> SUFFICES ASSUME NEW p \in Receivers, NEW q \in Receivers, p # q,
                          NEW i \in 1..Len(taken'[p]), NEW j \in 1..Len(taken'[q])
                   PROVE  taken'[p][i] # taken'[q][j]
          OBVIOUS
      <4>1. CASE i \in 1..Len(taken[p]) /\ taken'[p][i] = taken[p][i]
        <5>1. CASE j \in 1..Len(taken[q]) /\ taken'[q][j] = taken[q][j]
            BY <4>1, <5>1 DEF OrderInv
        <5>2. CASE taken'[q][j] = n
          <6>1. taken[p][i] < n /\ taken[p][i] \in Nat
              BY <3>0, <4>1
          <6> QED  BY <3>1, <4>1, <5>2, <6>1
        <5> QED  BY <3>4, <5>1, <5>2
      <4>2. CASE p = r /\ taken'[p][i] = n
        <5>1. j \in 1..Len(taken[q]) /\ taken'[q][j] = taken[q][j]
            BY <3>4, <4>2
        <5>2. taken[q][j] < n /\ taken[q][j] \in Nat
            BY <3>0, <5>1
        <5> QED  BY <3>1, <4>2, <5>1, <5>2
      <4> QED  BY <3>4, <4>1, <4>2
    <3>7. \A q \in Receivers : \A i \in 1..Len(taken'[q]), j \in 1..Len(queue') :
            IsLine(queue'[j]) => taken'[q][i] < queue'[j].mtext
      <4> SUFFICES ASSUME NEW q \in Receivers, NEW i \in 1..Len(taken'[q]),
                          NEW j \in 1..Len(queue'), IsLine(queue'[j])
                   PROVE  taken'[q][i] < queue'[j].mtext
          OBVIOUS
      <4>1. CASE i \in 1..Len(taken[q]) /\ taken'[q][i] = taken[q][i]
          BY <2>2, <4>1 DEF OrderInv
      <4>2. CASE taken'[q][i] = n
          BY <3>1, <4>2
      <4> QED  BY <3>4, <4>1, <4>2
    <3>8. \A q \in Receivers : \A i \in 1..Len(taken'[q]) : taken'[q][i] <= lastSent'
        BY <2>1, <3>1, <3>4 DEF OrderInv
    <3> QED  BY <2>4, <3>5, <3>6, <3>7, <3>8 DEF OrderInv, IsLine
  <2> QED  BY <2>5, <2>6
<1>6. CASE AnswerOf
  <2>1. PICK p \in 1..Len(queue) :
         /\ Len(queue') = Len(queue) - 1
         /\ \A j \in 1..(Len(queue) - 1) :
              queue'[j] = IF j < p THEN queue[j] ELSE queue[j + 1]
      BY <1>6 DEF AnswerOf
  <2> DEFINE old(j) == IF j < p THEN j ELSE j + 1
  <2>2. \A j \in 1..Len(queue') : old(j) \in 1..Len(queue) /\ queue'[j] = queue[old(j)]
      BY <1>1, <2>1
  <2>3. \A i, j \in 1..Len(queue') : i < j => old(i) < old(j)
      BY <1>1, <2>1
  <2> HIDE DEF old
  <2>4. UNCHANGED <<taken, lastSent>>
      BY <1>6 DEF AnswerOf
  <2>5. /\ \A i, j \in 1..Len(queue') : i < j /\ IsLine(queue'[i]) /\ IsLine(queue'[j])
             => queue'[i].mtext < queue'[j].mtext
        /\ \A j \in 1..Len(queue') : IsLine(queue'[j]) => queue'[j].mtext <= lastSent'
        /\ \A q \in Receivers : \A i \in 1..Len(taken'[q]), j \in 1..Len(queue') :
             IsLine(queue'[j]) => taken'[q][i] < queue'[j].mtext
      BY <2>2, <2>3, <2>4 DEF OrderInv
  <2>6. /\ \A r \in Receivers : \A i, j \in 1..Len(taken'[r]) : i < j => taken'[r][i] < taken'[r][j]
        /\ \A r, q \in Receivers : r # q =>
             \A i \in 1..Len(taken'[r]), j \in 1..Len(taken'[q]) : taken'[r][i] # taken'[q][j]
        /\ \A r \in Receivers : \A i \in 1..Len(taken'[r]) : taken'[r][i] <= lastSent'
      BY <2>4 DEF OrderInv
  <2> QED  BY <2>5, <2>6, Zenon DEF OrderInv, IsLine
<1>7. CASE RemoveOf
  <2>1. Len(queue') = 0 /\ UNCHANGED <<taken, lastSent>>
      BY <1>7 DEF RemoveOf
  <2> QED  BY <2>1 DEF OrderInv
<1>8. CASE IdleOf
  <2>1. UNCHANGED <<queue, taken>> /\ lastSent' >= lastSent
      BY <1>8 DEF IdleOf
  <2>2. lastSent' \in Int
      BY DEF TypeOK, lastSent
  <2>3. \A x \in Nat : x <= lastSent => x <= lastSent'
      BY <1>1, <2>1, <2>2
  <2>4. \A j \in 1..Len(queue') : IsLine(queue'[j]) => queue'[j].mtext <= lastSent'
      BY <1>2, <2>1, <2>3 DEF OrderInv
  <2>5. \A r \in Receivers : \A i \in 1..Len(taken'[r]) : taken'[r][i] <= lastSent'
      BY <1>3, <2>1, <2>3 DEF OrderInv
  <2>6. /\ \A r \in Receivers : \A i, j \in 1..Len(taken'[r]) :
             i < j => taken'[r][i] < taken'[r][j]
        /\ \A r, q \in Receivers : r # q =>
             \A i \in 1..Len(taken'[r]), j \in 1..Len(taken'[q]) :
                taken'[r][i] # taken'[q][j]
      BY <2>1 DEF OrderInv
  <2>7. /\ \A i, j \in 1..Len(queue') : i < j /\ IsLine(queue'[i]) /\ IsLine(queue'[j])
             => queue'[i].mtext < queue'[j].mtext
        /\ \A r \in Receivers : \A i \in 1..Len(taken'[r]), j \in 1..Len(queue') :
             IsLine(queue'[j]) => taken'[r][i] < queue'[j].mtext
      BY <2>1 DEF OrderInv
  <2> QED  BY <2>4, <2>5, <2>6, <2>7 DEF OrderInv, IsLine
<1> QED  BY <1>4, <1>5, <1>6, <1>7, <1>8, StepOf

-----------------------------------------------------------------------------
\* What a receiver takes it holds, if it is a line; the other lines stay where they are.
LEMMA TakenIsTaken ==
    ASSUME TypeOK, NEW r \in Receivers, TakeOf(r)
    PROVE  \A n : /\ IsTaken(n) => IsTaken(n)'
                  /\ InQueue(n) => InQueue(n)' \/ IsTaken(n)'
<1> SUFFICES ASSUME NEW n
             PROVE  /\ IsTaken(n) => IsTaken(n)'
                    /\ InQueue(n) => InQueue(n)' \/ IsTaken(n)'
    OBVIOUS
<1>1. /\ Len(queue) \in Nat \ {0} /\ Len(queue') = Len(queue) - 1
      /\ \A j \in 1..(Len(queue) - 1) : queue'[j] = queue[j + 1]
      /\ IsLine(queue[1]) => taken' = [taken EXCEPT ![r] = Append(@, queue[1].mtext)]
      /\ ~IsLine(queue[1]) => UNCHANGED taken
    BY DEF TakeOf
<1>2. \A j \in 1..Len(queue) : j = 1 \/ (j - 1 \in 1..Len(queue') /\ queue'[j - 1] = queue[j])
    BY <1>1
<1>3. taken[r] \in Seq(Nat) /\ Len(taken[r]) \in Nat
    BY LenProperties DEF TypeOK
<1>4. CASE ~IsLine(queue[1])
  <2>1. IsTaken(n) => IsTaken(n)'
      BY <1>1, <1>4 DEF IsTaken
  <2>2. InQueue(n) => InQueue(n)'
      BY <1>2, <1>4 DEF InQueue, IsLine
  <2> QED  BY <2>1, <2>2
<1>5. CASE IsLine(queue[1])
  <2>1. 1 \in 1..Len(queue) /\ queue[1].mtext \in Nat
    <3>1. 1 \in 1..Len(queue)
        BY <1>1
    <3>2. queue[1] \in Messages
        BY <3>1, ElementOfSeq DEF TypeOK
    <3> QED  BY <3>1, <3>2 DEF Messages
  <2>2. (\A q \in Receivers \ {r} : taken'[q] = taken[q])
        /\ taken'[r] = Append(taken[r], queue[1].mtext)
      BY <1>1, <1>5 DEF TypeOK
  <2>3. /\ Len(taken'[r]) = Len(taken[r]) + 1
        /\ \A i \in 1..Len(taken[r]) : taken'[r][i] = taken[r][i]
        /\ taken'[r][Len(taken[r]) + 1] = queue[1].mtext
      BY <1>3, <2>1, <2>2, AppendProperties
  <2>4. Len(taken[r]) + 1 \in 1..Len(taken'[r])
        /\ \A i \in 1..Len(taken[r]) : i \in 1..Len(taken'[r])
      BY <1>3, <2>3
  <2>5. IsTaken(n) => IsTaken(n)'
    <3> SUFFICES ASSUME NEW q \in Receivers, NEW i \in 1..Len(taken[q]), taken[q][i] = n
                 PROVE  \E p \in Receivers : \E k \in 1..Len(taken'[p]) : taken'[p][k] = n
        BY DEF IsTaken
    <3>1. CASE q = r
        BY <2>3, <2>4, <3>1
    <3>2. CASE q # r
        BY <2>2, <3>2
    <3> QED  BY <3>1, <3>2
  <2>6. n = queue[1].mtext => IsTaken(n)'
      BY <2>3, <2>4 DEF IsTaken
  <2>7. InQueue(n) => InQueue(n)' \/ n = queue[1].mtext
      BY <1>2 DEF InQueue, IsLine
  <2> QED  BY <2>5, <2>6, <2>7
<1> QED  BY <1>4, <1>5

\* Before a kill no line is lost.
LEMMA LossStep ==
    ASSUME TypeOK, PlaceInv, NoLineLost, TypeOK', [Next]_vars
    PROVE  NoLineLost'
<1> SUFFICES ASSUME kills' = 0, sPc' \notin {"done", "failed"}, NEW n \in 1..lastSent'
             PROVE  InQueue(n)' \/ IsTaken(n)'
    BY DEF NoLineLost
<1>1. queue \in Seq(Messages) /\ Len(queue) \in Nat /\ lastSent \in Int /\ lastSent' \in Int
    BY LenProperties DEF TypeOK, lastSent
<1>2. ASSUME kills = 0, sPc \notin {"done", "failed"}, n \in 1..lastSent
      PROVE  InQueue(n) \/ IsTaken(n)
    BY <1>2 DEF NoLineLost
<1>3. ASSUME NEW m \in Messages, SendOf(m) PROVE InQueue(n)' \/ IsTaken(n)'
  <2>1. /\ Len(queue') = Len(queue) + 1 /\ queue'[Len(queue) + 1] = m
        /\ \A j \in 1..Len(queue) : queue'[j] = queue[j]
      BY <1>1, <1>3, SentLast DEF SendOf
  <2>2. /\ taken' = taken /\ kills' = kills /\ sPc \notin {"done", "failed"}
        /\ IsLine(m) => m.mtext = lastSent + 1 /\ lastSent' = m.mtext
        /\ ~IsLine(m) => lastSent' = lastSent
      BY <1>3 DEF SendOf
  <2>3. Len(queue) + 1 \in 1..Len(queue') /\ \A j \in 1..Len(queue) : j \in 1..Len(queue')
      BY <1>1, <2>1
  <2>4. InQueue(n) => InQueue(n)'
      BY <2>1, <2>3 DEF InQueue, IsLine
  <2>5. IsTaken(n) => IsTaken(n)'
      BY <2>2 DEF IsTaken
  <2>6. n \in 1..lastSent \/ (IsLine(m) /\ n = m.mtext)
      BY <1>1, <2>2
  <2>7. CASE n \in 1..lastSent
      BY <1>2, <2>2, <2>4, <2>5, <2>7
  <2>8. CASE IsLine(m) /\ n = m.mtext
      BY <2>1, <2>3, <2>8 DEF InQueue, IsLine
  <2> QED  BY <2>6, <2>7, <2>8
<1>4. ASSUME NEW r \in Receivers, TakeOf(r) PROVE InQueue(n)' \/ IsTaken(n)'
  <2>1. kills = 0 /\ sPc \notin {"done", "failed"} /\ n \in 1..lastSent
      BY <1>4 DEF TakeOf
  <2> QED  BY <1>2, <1>4, <2>1, TakenIsTaken
<1>5. CASE AnswerOf
  <2>1. PICK p \in 1..Len(queue) :
         /\ ~IsLine(queue[p])
         /\ Len(queue') = Len(queue) - 1
         /\ \A j \in 1..(Len(queue) - 1) :
              queue'[j] = IF j < p THEN queue[j] ELSE queue[j + 1]
      BY <1>5 DEF AnswerOf
  <2>2. kills = 0 /\ sPc \notin {"done", "failed"} /\ n \in 1..lastSent /\ UNCHANGED taken
      BY <1>5 DEF AnswerOf
  <2>3. IsTaken(n) => IsTaken(n)'
      BY <2>2 DEF IsTaken
  <2>4. InQueue(n) => InQueue(n)'
    <3> SUFFICES ASSUME NEW j \in 1..Len(queue), IsLine(queue[j]), queue[j].mtext = n
                 PROVE  \E k \in 1..Len(queue') : IsLine(queue'[k]) /\ queue'[k].mtext = n
        BY DEF InQueue, IsLine
    <3>1. j < p \/ j > p
        BY <1>1, <2>1
    <3>2. CASE j < p
        BY <1>1, <2>1, <3>2
    <3>3. CASE j > p
      <4>1. j - 1 \in 1..Len(queue') /\ ~(j - 1 < p) /\ (j - 1) + 1 = j
          BY <1>1, <2>1, <3>3
      <4> QED  BY <2>1, <4>1
    <3> QED  BY <3>1, <3>2, <3>3
  <2> QED  BY <1>2, <2>2, <2>3, <2>4
<1>6. CASE RemoveOf
    BY <1>6 DEF RemoveOf
<1>7. CASE IdleOf
  <2>1. /\ UNCHANGED <<queue, taken>> /\ kills = 0 /\ sPc \notin {"done", "failed"}
        /\ n \in 1..lastSent
      BY <1>7 DEF IdleOf
  <2>2. InQueue(n)' = InQueue(n) /\ IsTaken(n)' = IsTaken(n)
      BY <2>1 DEF InQueue, IsTaken
  <2> QED  BY <1>2, <2>1, <2>2
<1> QED  BY <1>3, <1>4, <1>5, <1>6, <1>7, StepOf

\* The end and the answers are behind all lines, and the sender's answer means
\* that all were taken.
LEMMA EndStep ==
    ASSUME TypeOK, PlaceInv, NoLineLost, EndInv, DoneInv, TypeOK', [Next]_vars
    PROVE  EndInv' /\ DoneInv'
<1> SUFFICES ASSUME kills' = 0 PROVE EndInv' /\ DoneInv'
    BY DEF EndInv, DoneInv
<1>1. queue \in Seq(Messages) /\ Len(queue) \in Nat
      /\ \A j \in 1..Len(queue) : queue[j] \in Messages
    BY LenProperties, ElementOfSeq DEF TypeOK
<1>2. ASSUME UNCHANGED taken, UNCHANGED lines, kills = 0,
             sPc' \in {"closeQueue", "done"} => sPc \in {"closeQueue", "done"}
      PROVE  DoneInv'
    BY <1>2 DEF DoneInv, IsTaken
<1>3. ASSUME UNCHANGED <<exists, queue, kills>>,
             sPc \in {"waitAnswer", "closeQueue"} => sPc' = sPc,
             sPc' = "closeQueue" => sPc = "closeQueue",
             exists => \A r \in Receivers : rPc'[r] = "sendEndAnswer" => rPc[r] = "sendEndAnswer"
      PROVE  EndInv'
    BY <1>3 DEF EndInv, IsLine
<1>4. CASE UNCHANGED vars
    BY <1>2, <1>3, <1>4 DEF vars, senderVars, receiverVars
<1>5. CASE CreateQueue
  <2>1. kills = 0 /\ Len(queue') = 0 /\ sPc' \in {"read", "failed"}
        /\ \A r \in Receivers : rPc'[r] # "sendEndAnswer"
      BY <1>5 DEF CreateQueue, PlaceInv, receiverVars
  <2> QED  BY <2>1 DEF EndInv, DoneInv
<1>6. CASE ReadLine
  <2>1. UNCHANGED <<exists, queue, kills, taken, rPc>> /\ sPc = "read" /\ sPc' \in {"msgsnd", "abort"}
      BY <1>6 DEF ReadLine, receiverVars
  <2> QED  BY <1>3, <2>1 DEF DoneInv
<1>7. CASE SendMessage
  <2> DEFINE m == IF code = "eof" THEN [mtype |-> "MSG_TYPE_END", mtext |-> 0]
                  ELSE [mtype |-> "MSG_TYPE_DATA", mtext |-> lines]
  <2>1. /\ sPc = "msgsnd" /\ queue' = Append(queue, m)
        /\ sPc' = IF code = "eof" THEN "waitAnswer" ELSE "read"
        /\ UNCHANGED <<exists, kills, rPc, taken, lines>>
      BY <1>7 DEF SendMessage, receiverVars
  <2>2. m \in Messages /\ m.mtype # "MSG_TYPE_ANSWER" /\ (IsLine(m) <=> code # "eof")
    <3>1. CASE code = "eof"
        BY <3>1 DEF Messages, IsLine
    <3>2. CASE code = "data"
        BY <3>2 DEF Messages, IsLine, TypeOK
    <3> QED  BY <3>1, <3>2 DEF TypeOK
  <2> HIDE DEF m
  <2>3. /\ Len(queue') = Len(queue) + 1 /\ queue'[Len(queue) + 1] = m
        /\ \A j \in 1..Len(queue) : queue'[j] = queue[j]
      BY <1>1, <2>1, <2>2, SentLast
  <2>4. \A j \in 1..Len(queue') : j \in 1..Len(queue) \/ j = Len(queue) + 1
      BY <1>1, <2>3
  <2>5. exists /\ kills = 0
      BY <2>1 DEF PlaceInv
  <2>6. \A j \in 1..Len(queue) : IsLine(queue[j])
      BY <2>1, <2>5 DEF EndInv
  <2>7. \A r \in Receivers : rPc[r] # "sendEndAnswer"
      BY <2>1, <2>5 DEF EndInv
  <2>8. \A j \in 1..Len(queue') : ~IsLine(queue'[j]) => sPc' = "waitAnswer"
      BY <2>1, <2>2, <2>3, <2>4, <2>6
  <2>9. \A i, j \in 1..Len(queue') : i < j /\ IsLine(queue'[j]) => IsLine(queue'[i])
      BY <1>1, <2>3, <2>4, <2>6
  <2>10. \A j \in 1..Len(queue') : queue'[j].mtype # "MSG_TYPE_ANSWER"
      BY <2>2, <2>3, <2>4, <2>6 DEF IsLine
  <2>11. EndInv'
      BY <2>1, <2>7, <2>8, <2>9, <2>10 DEF EndInv, IsLine
  <2> QED  BY <1>2, <2>1, <2>5, <2>11
<1>8. CASE WaitAnswer
  <2>1. PICK p \in 1..Len(queue) :
             /\ "MSG_TYPE_ANSWER" \in {ANY_TYPE, queue[p].mtype}
             /\ Len(Rest(queue, "MSG_TYPE_ANSWER")) = Len(queue) - 1
             /\ \A j \in 1..(Len(queue) - 1) :
                  Rest(queue, "MSG_TYPE_ANSWER")[j] = IF j < p THEN queue[j] ELSE queue[j + 1]
    <3>1. Arrived(queue, "MSG_TYPE_ANSWER")
        BY <1>8 DEF WaitAnswer
    <3> QED  BY <1>1, <3>1, ReceiveTyped
  <2>2. queue[p].mtype = "MSG_TYPE_ANSWER"
      BY <2>1, AnswerAssumption
  <2>3. /\ sPc = "waitAnswer" /\ sPc' = "closeQueue" /\ kills = 0 /\ exists
        /\ queue' = Rest(queue, "MSG_TYPE_ANSWER") /\ UNCHANGED <<exists, lines, taken, rPc>>
      BY <1>8 DEF WaitAnswer, receiverVars, PlaceInv
  <2>4. \A j \in 1..Len(queue) : ~IsLine(queue[j])
      BY <2>2, <2>3 DEF EndInv
  <2>5. \A j \in 1..Len(queue') : ~IsLine(queue'[j])
    <3> SUFFICES ASSUME NEW j \in 1..Len(queue') PROVE ~IsLine(queue'[j])
        OBVIOUS
    <3>1. j \in 1..(Len(queue) - 1) /\ j \in 1..Len(queue) /\ j + 1 \in 1..Len(queue)
        BY <1>1, <2>1, <2>3
    <3> QED  BY <2>1, <2>3, <2>4, <3>1
  <2>6. EndInv'
      BY <2>3, <2>5 DEF EndInv, IsLine
  <2>7. lastSent = lines
      BY <2>3 DEF lastSent
  <2>8. \A n \in 1..lines : IsTaken(n)
      BY <2>3, <2>4, <2>7 DEF NoLineLost, InQueue
  <2>9. DoneInv'
      BY <2>3, <2>8 DEF DoneInv, IsTaken
  <2> QED  BY <2>6, <2>9
<1>9. CASE CloseQueue
  <2>1. /\ exists' = FALSE /\ sPc \in {"closeQueue", "abort"}
        /\ sPc' = IF sPc = "abort" THEN "failed" ELSE "done"
        /\ UNCHANGED <<lines, kills, taken>>
      BY <1>9 DEF CloseQueue, receiverVars
  <2>2. EndInv'
      BY <2>1 DEF EndInv
  <2> QED  BY <1>2, <2>1, <2>2
<1>10. CASE KillSender
    BY <1>10 DEF KillSender, TypeOK
<1>11. ASSUME NEW r \in Receivers, GetQueue(r) \/ PrintMessage(r) \/ QueueGone(r) \/ AnswerFails(r)
       PROVE  EndInv' /\ DoneInv'
  <2>1. UNCHANGED <<exists, queue, sPc, lines, kills, taken>>
      BY <1>11 DEF GetQueue, PrintMessage, QueueGone, AnswerFails, senderVars
  <2>2. exists => \A q \in Receivers : rPc'[q] = "sendEndAnswer" => rPc[q] = "sendEndAnswer"
      BY <1>11 DEF GetQueue, PrintMessage, QueueGone, AnswerFails, Goto, TypeOK
  <2> QED  BY <1>2, <1>3, <2>1, <2>2
<1>12. ASSUME NEW r \in Receivers, GetMessage(r) PROVE EndInv' /\ DoneInv'
  <2>1. /\ Len(queue) \in Nat \ {0}
        /\ Message(queue, ANY_TYPE) = queue[1]
        /\ Len(queue') = Len(queue) - 1
        /\ \A i \in 1..(Len(queue) - 1) : queue'[i] = queue[i + 1]
      BY <1>1, <1>12, ReceiveAny DEF GetMessage
  <2>2. /\ UNCHANGED <<exists, sPc, lines, kills>>
        /\ IsLine(queue[1]) => rPc' = [rPc EXCEPT ![r] = "print"]
      BY <1>12, <2>1 DEF GetMessage, senderVars, Goto, IsLine
  <2>3. 1 \in 1..Len(queue) /\ \A i \in 1..Len(queue') :
          queue'[i] = queue[i + 1] /\ i + 1 \in 1..Len(queue) /\ 1 < i + 1
      BY <2>1
  <2>4. TakeOf(r)
    <3>1. IsLine(queue[1]) => taken' = [taken EXCEPT ![r] = Append(@, queue[1].mtext)]
        BY <1>12, <2>1 DEF GetMessage, IsLine
    <3>2. ~IsLine(queue[1]) => UNCHANGED taken
        BY <1>12, <2>1 DEF GetMessage, IsLine
    <3>3. UNCHANGED <<sPc, lines, code, kills, lastSent>>
        BY <1>12 DEF GetMessage, senderVars, lastSent
    <3> QED  BY <2>1, <3>1, <3>2, <3>3 DEF TakeOf
  <2>5. DoneInv'
      BY <2>2, <2>4, TakenIsTaken DEF DoneInv
  <2>6. EndInv'
    <3> SUFFICES ASSUME exists PROVE EndInv'
        BY <2>2 DEF EndInv
    <3>1. /\ \A j \in 1..Len(queue) : ~IsLine(queue[j]) => sPc \in {"waitAnswer", "closeQueue"}
          /\ \A i, j \in 1..Len(queue) : i < j /\ IsLine(queue[j]) => IsLine(queue[i])
          /\ \/ \E q \in Receivers : rPc[q] = "sendEndAnswer"
             \/ \E j \in 1..Len(queue) : queue[j].mtype = "MSG_TYPE_ANSWER"
             \/ sPc = "closeQueue"
             => /\ \A j \in 1..Len(queue) : ~IsLine(queue[j])
                /\ sPc \in {"waitAnswer", "closeQueue"}
        BY <2>2 DEF EndInv
    <3>2. /\ \A j \in 1..Len(queue') : ~IsLine(queue'[j]) => sPc' \in {"waitAnswer", "closeQueue"}
          /\ \A i, j \in 1..Len(queue') : i < j /\ IsLine(queue'[j]) => IsLine(queue'[i])
      <4>1. \A i, j \in 1..Len(queue') : i < j => i + 1 < j + 1
          BY <2>1
      <4> QED  BY <2>2, <2>3, <3>1, <4>1
    <3>3. CASE IsLine(queue[1])
      <4>1. ~(\/ \E q \in Receivers : rPc[q] = "sendEndAnswer"
              \/ \E j \in 1..Len(queue) : queue[j].mtype = "MSG_TYPE_ANSWER"
              \/ sPc = "closeQueue")
          BY <2>3, <3>1, <3>3
      <4>2. \A q \in Receivers : rPc'[q] # "sendEndAnswer"
          BY <2>2, <3>3, <4>1 DEF TypeOK
      <4> QED  BY <2>2, <2>3, <3>2, <3>3, <4>1, <4>2 DEF EndInv, IsLine
    <3>4. CASE ~IsLine(queue[1])
      <4>1. \A j \in 1..Len(queue') : ~IsLine(queue'[j])
          BY <2>3, <3>1, <3>4
      <4>2. sPc' \in {"waitAnswer", "closeQueue"}
          BY <2>2, <2>3, <3>1, <3>4
      <4> QED  BY <4>1, <4>2 DEF EndInv, IsLine
    <3> QED  BY <3>3, <3>4
  <2> QED  BY <2>5, <2>6
<1>13. ASSUME NEW r \in Receivers, SendEndAnswer(r) PROVE EndInv' /\ DoneInv'
  <2> DEFINE m == [mtype |-> "MSG_TYPE_ANSWER", mtext |-> 0]
  <2>1. m \in Messages /\ ~IsLine(m)
      BY DEF Messages, IsLine
  <2>2. /\ rPc[r] = "sendEndAnswer" /\ exists /\ queue' = Append(queue, m)
        /\ UNCHANGED <<exists, sPc, lines, kills, taken>>
      BY <1>13 DEF SendEndAnswer, senderVars
  <2> HIDE DEF m
  <2>3. /\ Len(queue') = Len(queue) + 1 /\ queue'[Len(queue) + 1] = m
        /\ \A j \in 1..Len(queue) : queue'[j] = queue[j]
      BY <1>1, <2>1, <2>2, SentLast
  <2>4. \A j \in 1..Len(queue') : j \in 1..Len(queue) \/ j = Len(queue) + 1
      BY <1>1, <2>3
  <2>5. (\A j \in 1..Len(queue) : ~IsLine(queue[j])) /\ sPc \in {"waitAnswer", "closeQueue"}
      BY <2>2 DEF EndInv
  <2>6. (\A j \in 1..Len(queue') : ~IsLine(queue'[j])) /\ sPc' \in {"waitAnswer", "closeQueue"}
      BY <2>1, <2>2, <2>3, <2>4, <2>5
  <2>7. EndInv'
      BY <2>6 DEF EndInv, IsLine
  <2> QED  BY <1>2, <2>2, <2>7
<1> QED
    BY <1>4, <1>5, <1>6, <1>7, <1>8, <1>9, <1>10, <1>11, <1>12, <1>13
       DEF Next, SenderStep, ReceiverStep

-----------------------------------------------------------------------------
\* The inductive invariant: the lines on their way and taken are in order, and
\* before a kill complete, with the end and the answers behind them.
THEOREM AnswerInvariant == Spec => []AnswerInv
<1>1. AnswerInv /\ [Next]_vars => AnswerInv'
    BY TypeStep, PlaceStep, OrderStep, LossStep, EndStep DEF AnswerInv
<1> QED  BY InitAnswer, <1>1, PTL DEF Spec

\* No line is taken twice or out of order, by whomever, and a sender that was
\* not killed has its answer only when all lines were taken: they are printed, but for
\* one in the printf of each receiver.
THEOREM LinesFirst == Spec => []LinesBeforeAnswer
<1>1. AnswerInv => OnceInOrder
  <2> SUFFICES ASSUME AnswerInv PROVE OnceInOrder
      OBVIOUS
  <2>1. \A r \in Receivers : \A i, j \in 1..Len(taken[r]) :
          i < j => taken[r][i] < taken[r][j]
      BY DEF AnswerInv, OrderInv
  <2>2. ASSUME NEW r \in Receivers, NEW q \in Receivers, r # q
        PROVE  ToSet(taken[r]) \cap ToSet(taken[q]) = {}
    <3>1. DOMAIN taken[r] = 1..Len(taken[r]) /\ DOMAIN taken[q] = 1..Len(taken[q])
        BY LenProperties DEF AnswerInv, TypeOK
    <3> QED  BY <2>2, <3>1 DEF AnswerInv, OrderInv, ToSet
  <2> QED  BY <2>1, <2>2 DEF OnceInOrder
<1>2. AnswerInv => AnswerMeansPrinted
  <2> SUFFICES ASSUME AnswerInv, kills = 0, sPc \in {"closeQueue", "done"}, NEW n \in 1..lines
               PROVE  \E r \in Receivers :
                        \/ n \in ToSet(Printed(r))
                        \/ rPc[r] = "print" /\ n = Last(taken[r])
      BY DEF AnswerMeansPrinted
  <2>1. PICK r \in Receivers : \E i \in 1..Len(taken[r]) : taken[r][i] = n
      BY DEF AnswerInv, DoneInv, IsTaken
  <2>2. PICK i \in 1..Len(taken[r]) : taken[r][i] = n
      BY <2>1
  <2>3. taken[r] \in Seq(Nat) /\ Len(taken[r]) \in Nat /\ DOMAIN taken[r] = 1..Len(taken[r])
      BY LenProperties DEF AnswerInv, TypeOK
  <2>4. CASE rPc[r] # "print"
      BY <2>2, <2>3, <2>4 DEF Printed, ToSet
  <2>5. CASE rPc[r] = "print" /\ i = Len(taken[r])
      BY <2>2, <2>5 DEF Last
  <2>6. CASE rPc[r] = "print" /\ i # Len(taken[r])
    <3>1. /\ Front(taken[r]) = SubSeq(taken[r], 1, Len(taken[r]) - 1)
          /\ i \in 1..(Len(taken[r]) - 1) /\ 1 \in 1..(Len(taken[r]) + 1)
          /\ Len(taken[r]) - 1 \in 0..Len(taken[r])
        BY <2>3, <2>6 DEF Front
    <3>2. /\ Front(taken[r])[i] = n
          /\ DOMAIN Front(taken[r]) = 1..(Len(taken[r]) - 1)
        BY <2>2, <2>3, <3>1
    <3>3. n \in ToSet(Front(taken[r]))
        BY <3>1, <3>2 DEF ToSet
    <3> QED  BY <2>6, <3>3 DEF Printed
  <2> QED  BY <2>4, <2>5, <2>6
<1>3. AnswerInv => LinesBeforeAnswer
    BY <1>1, <1>2 DEF LinesBeforeAnswer
<1> QED  BY <1>3, AnswerInvariant, PTL
=============================================================================
