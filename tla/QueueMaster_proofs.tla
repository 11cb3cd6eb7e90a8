------------------------- MODULE QueueMaster_proofs -------------------------
(***************************************************************************)
(* Proofs about QueueMaster: the lines of each sender are printed once and *)
(* in order, and the master's count is right while it is not killed.       *)
(***************************************************************************)
EXTENDS QueueMaster, Integers, FiniteSetTheorems, SequenceTheorems, TLAPS

-----------------------------------------------------------------------------
(* What msgrcv takes from a queue and leaves of it, and what msgsnd appends. *)

\* With ANY_TYPE msgrcv takes the head of the queue.
LEMMA ReceiveAny ==
    ASSUME NEW S, NEW msgs \in Seq(S), Arrived(msgs, ANY_TYPE)
    PROVE  /\ Len(msgs) \in Nat \ {0}
           /\ Message(msgs, ANY_TYPE) = msgs[1] /\ msgs[1] \in S
           /\ Rest(msgs, ANY_TYPE) \in Seq(S)
           /\ Len(Rest(msgs, ANY_TYPE)) = Len(msgs) - 1
           /\ \A i \in 1..(Len(msgs) - 1) : Rest(msgs, ANY_TYPE)[i] = msgs[i + 1]
<1> DEFINE I == {i \in 1..Len(msgs) : ANY_TYPE \in {ANY_TYPE, msgs[i].mtype}}
           back == SubSeq(msgs, 2, Len(msgs))
<1>1. Len(msgs) \in Nat /\ I = 1..Len(msgs)
    OBVIOUS
<1>2. Position(msgs, ANY_TYPE) = IF I # {} THEN Min(I) ELSE 0
    BY Zenon DEF Position, SelectInSeq
<1>3. Position(msgs, ANY_TYPE) > 0
    BY DEF Arrived
<1>4. Len(msgs) > 0
  <2> SUFFICES ASSUME Len(msgs) = 0 PROVE FALSE
      BY <1>1
  <2>1. I = {}
      BY <1>1
  <2> HIDE DEF I
  <2> QED  BY <1>2, <1>3, <2>1
<1>5. Position(msgs, ANY_TYPE) = 1
  <2>1. 1 \in I /\ \A y \in I : y \in Nat /\ 1 <= y
      BY <1>1, <1>4
  <2> HIDE DEF I
  <2>2. \A x \in I : (\A y \in I : x <= y) => x = 1
      BY <2>1
  <2>3. Min(I) = 1
      BY <2>1, <2>2, Zenon DEF Min
  <2> QED  BY <1>2, <2>1, <2>3
<1>6. msgs[1] \in S
    BY <1>1, <1>4, ElementOfSeq
<1>7. /\ back \in Seq(S) /\ Len(back) = Len(msgs) - 1
      /\ \A i \in 1..(Len(msgs) - 1) : back[i] = msgs[i + 1]
  <2> HIDE DEF I
  <2>1. 2 \in 1..(Len(msgs) + 1) /\ Len(msgs) \in 1..Len(msgs) /\ Len(msgs) - 2 + 1 = Len(msgs) - 1
      BY <1>1, <1>4
  <2>2. ASSUME NEW i \in 2..Len(msgs) PROVE msgs[i] \in S
      BY <1>1, <1>4, ElementOfSeq
  <2>3. back \in Seq(S)
      BY <1>1, <1>4, <2>2
  <2>4. Len(back) = Len(msgs) - 1
      BY <1>1, <1>4, <2>1
  <2>5. ASSUME NEW i \in 1..(Len(msgs) - 1) PROVE back[i] = msgs[i + 1]
      BY <1>1, <1>4, <2>1
  <2> QED  BY <2>3, <2>4, <2>5
<1>8. Rest(msgs, ANY_TYPE) = << >> \o back
    BY <1>1, <1>5 DEF Rest, RemoveAt
<1>9. << >> \o back = back
    BY <1>7, ConcatEmptySeq
<1> QED  BY <1>1, <1>4, <1>5, <1>6, <1>7, <1>8, <1>9 DEF Message

\* What msgsnd appends is behind all that was there.
LEMMA SentLast ==
    ASSUME NEW S, NEW msgs \in Seq(S), NEW m \in S
    PROVE  /\ Append(msgs, m) \in Seq(S)
           /\ Len(msgs) \in Nat
           /\ Len(Append(msgs, m)) = Len(msgs) + 1
           /\ \A i \in 1..Len(msgs) : Append(msgs, m)[i] = msgs[i]
           /\ Append(msgs, m)[Len(msgs) + 1] = m
BY AppendProperties, LenProperties

-----------------------------------------------------------------------------

Messages ==
    [mtype : {"MSG_TYPE_REG", "MSG_TYPE_DEL"}, pid : Senders, mtext : {0}]
        \cup [mtype : {"MSG_TYPE_DATA"}, pid : Senders, mtext : 1..COUNT_MESSAGES]

TypeOK ==
    /\ exists \in BOOLEAN
    /\ queue \in Seq(Messages)
    /\ mPc \in {"msgget", "msgrcv", "switch", "closeQueue", "done", "failed"}
    /\ mPc = "switch" => buf \in Messages
    /\ count \in Int
    /\ log \in [Senders -> Seq(0..(COUNT_MESSAGES + 1))]
    /\ sPc \in [Senders -> {"msgget", "regInQueue", "sendMessages", "delFromQueue",
                            "done", "failed", "killed"}]
    /\ sent \in [Senders -> 0..COUNT_MESSAGES]
    /\ masterKills \in Nat /\ senderKills \in Nat

\* Where a sender is and what it has sent; and the queue is there while the
\* master works on it.
PlaceInv ==
    /\ \A s \in Senders :
         /\ sPc[s] \in {"msgget", "regInQueue"} => sent[s] = 0
         /\ sPc[s] = "sendMessages" => sent[s] < COUNT_MESSAGES
    /\ mPc \in {"msgrcv", "switch", "closeQueue"} => exists
    /\ mPc = "done" => masterKills > 0 \/ ~exists

\* The number of the line a sender sends next; all are below it when it has ended.
nextLine == [s \in Senders |->
    IF sPc[s] \in {"msgget", "regInQueue"} THEN 0
    ELSE IF sPc[s] = "sendMessages" THEN sent[s] + 1
    ELSE IF sPc[s] = "delFromQueue" THEN COUNT_MESSAGES + 1
    ELSE COUNT_MESSAGES + 2]

\* What was printed of a sender, what the master holds and what is in the queue
\* are its lines in the order it sent them.
OrderInv ==
    /\ PrintedInOrder
    /\ \A i, j \in 1..Len(queue) :
         i < j /\ queue[i].pid = queue[j].pid => Line(queue[i]) < Line(queue[j])
    /\ \A s \in Senders : \A i \in 1..Len(log[s]), j \in 1..Len(queue) :
         queue[j].pid = s => log[s][i] < Line(queue[j])
    /\ mPc = "switch" =>
         /\ \A i \in 1..Len(log[buf.pid]) : log[buf.pid][i] < Line(buf)
         /\ \A j \in 1..Len(queue) : queue[j].pid = buf.pid => Line(buf) < Line(queue[j])

\* None of them is one that the sender has yet to send.
SentInv ==
    /\ \A s \in Senders : \A i \in 1..Len(log[s]) : log[s][i] < nextLine[s]
    /\ \A j \in 1..Len(queue) : Line(queue[j]) < nextLine[queue[j].pid]
    /\ mPc = "switch" => Line(buf) < nextLine[buf.pid]

\* Line n of sender s was printed, or is held by the master, or is in the queue.
Has(s, n) ==
    \/ \E i \in 1..Len(log[s]) : log[s][i] = n
    \/ mPc = "switch" /\ buf.pid = s /\ Line(buf) = n
    \/ \E j \in 1..Len(queue) : queue[j].pid = s /\ Line(queue[j]) = n

\* While no master was killed and the queue is there, no line is missing.
NoLineLost ==
    masterKills = 0 /\ mPc \notin {"done", "failed"} =>
        /\ \A s \in Senders : \A n, m \in Nat : Has(s, m) /\ n < m => Has(s, n)
        /\ \A s \in Senders : \A n \in Nat :
             sPc[s] \notin {"done", "failed", "killed"} /\ n < nextLine[s] => Has(s, n)

\* So the lines printed of a sender are its first ones.
PrintedInv ==
    masterKills = 0 =>
        \A s \in Senders : \A i \in 1..Len(log[s]) : log[s][i] = i - 1

\* The master leaves its loop when it counts nobody.
ClosedInv == masterKills = 0 /\ mPc \in {"closeQueue", "done"} => count = 0

CountedInv ==
    /\ TypeOK /\ PlaceInv /\ OrderInv /\ SentInv
    /\ NoLineLost /\ PrintedInv /\ CountIsActive /\ ClosedInv

-----------------------------------------------------------------------------
\* The line of a message: 0 for the registration, COUNT_MESSAGES + 1 for the
\* leave, the texts in between.
LEMMA LineRange ==
    ASSUME NEW m \in Messages
    PROVE  /\ m.pid \in Senders
           /\ Line(m) \in 0..(COUNT_MESSAGES + 1)
           /\ m.mtype = "MSG_TYPE_REG" => Line(m) = 0
           /\ m.mtype = "MSG_TYPE_DATA" => Line(m) \in 1..COUNT_MESSAGES
           /\ m.mtype = "MSG_TYPE_DEL" => Line(m) = COUNT_MESSAGES + 1
           /\ m.mtype \in {"MSG_TYPE_REG", "MSG_TYPE_DATA", "MSG_TYPE_DEL"}
BY MasterAssumption DEF Line, Messages

\* Nothing is sent, printed or counted when the programs start.
LEMMA InitCounted == Init => CountedInv
<1> SUFFICES ASSUME Init PROVE CountedInv
    OBVIOUS
<1> USE MasterAssumption DEF Init
<1>1. Len(queue) = 0 /\ \A s \in Senders : Len(log[s]) = 0
    OBVIOUS
<1>2. TypeOK
  <2>1. << >> \in Seq(Messages) /\ << >> \in Seq(0..(COUNT_MESSAGES + 1))
      BY EmptySeq
  <2>2. 0 \in 0..COUNT_MESSAGES
      OBVIOUS
  <2>3. log \in [Senders -> Seq(0..(COUNT_MESSAGES + 1))] /\ sent \in [Senders -> 0..COUNT_MESSAGES]
      BY <2>1, <2>2
  <2>4. sPc \in [Senders -> {"msgget", "regInQueue", "sendMessages", "delFromQueue",
                            "done", "failed", "killed"}]
      OBVIOUS
  <2>5. count \in Int /\ masterKills \in Nat /\ senderKills \in Nat
      OBVIOUS
  <2>6. exists \in BOOLEAN
      BY Zenon
  <2>7. queue \in Seq(Messages) /\ mPc = "msgget"
      BY <2>1
  <2> QED  BY <2>3, <2>4, <2>5, <2>6, <2>7 DEF TypeOK
<1>3. PlaceInv /\ OrderInv /\ SentInv /\ ClosedInv /\ PrintedInv
    BY <1>1 DEF PlaceInv, OrderInv, SentInv, ClosedInv, PrintedInv, PrintedInOrder
<1>4. NoLineLost
    BY <1>1 DEF NoLineLost, Has, nextLine
<1>5. CountIsActive
  <2>1. {s \in Senders : Counted(s) /\ ~Left(s)} = {}
      BY DEF Counted
  <2> QED  BY <2>1, FS_EmptySet DEF CountIsActive
<1> QED  BY <1>2, <1>3, <1>4, <1>5 DEF CountedInv

\* Every step keeps the types.
LEMMA TypeStep == TypeOK /\ PlaceInv /\ [Next]_vars => TypeOK'
<1> SUFFICES ASSUME TypeOK, PlaceInv, [Next]_vars PROVE TypeOK'
    OBVIOUS
<1> USE MasterAssumption DEF TypeOK
<1>1. CASE UNCHANGED vars
    BY <1>1 DEF vars, masterVars, senderVars, killVars
<1>2. CASE CreateQueue
    BY <1>2 DEF CreateQueue, senderVars, killVars
<1>3. CASE Receive
  <2>0. queue \in Seq(Messages) /\ Arrived(queue, ANY_TYPE)
      BY <1>3 DEF Receive
  <2>1. Message(queue, ANY_TYPE) \in Messages /\ Rest(queue, ANY_TYPE) \in Seq(Messages)
    <3> HIDE DEF TypeOK
    <3> QED  BY <2>0, ReceiveAny
  <2>2. /\ buf' = Message(queue, ANY_TYPE) /\ queue' = Rest(queue, ANY_TYPE)
        /\ mPc' = "switch"
        /\ UNCHANGED <<exists, count, log, senderVars, killVars>>
      BY <1>3 DEF Receive
  <2> QED  BY <2>1, <2>2 DEF senderVars, killVars
<1>4. ASSUME NEW change \in {1, -1, 0}, mPc = "switch", Switch(change)
      PROVE  TypeOK'
  <2>1. buf \in Messages /\ buf.pid \in Senders /\ Line(buf) \in 0..(COUNT_MESSAGES + 1)
      BY <1>4, LineRange
  <2>2. log' \in [Senders -> Seq(0..(COUNT_MESSAGES + 1))]
    <3>1. Append(log[buf.pid], Line(buf)) \in Seq(0..(COUNT_MESSAGES + 1))
        BY <2>1
    <3> QED  BY <1>4, <2>1, <3>1 DEF Switch
  <2>3. count' \in Int
      BY <1>4 DEF Switch
  <2>4. mPc' \in {"msgrcv", "closeQueue"}
      BY <1>4 DEF Switch
  <2> QED  BY <1>4, <2>2, <2>3, <2>4 DEF Switch, senderVars, killVars
<1>5. CASE CloseQueue
    BY <1>5, EmptySeq DEF CloseQueue, senderVars, killVars
<1>6. CASE KillMaster
    BY <1>6 DEF KillMaster, senderVars
<1>7. ASSUME NEW s \in Senders, NEW m \in Messages, queue' = Append(queue, m)
      PROVE  queue' \in Seq(Messages)
    BY <1>7
<1>8. ASSUME NEW s \in Senders, GetQueue(s) \/ SenderFails(s) \/ KillSender(s)
      PROVE  TypeOK'
  <2>1. PICK to \in {"regInQueue", "failed", "killed"} : sPc' = [sPc EXCEPT ![s] = to]
      BY <1>8 DEF GetQueue, SenderFails, KillSender, Goto
  <2>2. /\ UNCHANGED <<exists, queue, mPc, buf, count, log, sent>>
        /\ masterKills' = masterKills /\ senderKills' \in Nat
      BY <1>8 DEF GetQueue, SenderFails, KillSender, masterVars, killVars
  <2> QED  BY <2>1, <2>2
<1>9. ASSUME NEW s \in Senders, Register(s) \/ Leave(s)
      PROVE  TypeOK'
  <2>1. PICK m \in Messages : queue' = Append(queue, m)
    <3>1. [mtype |-> "MSG_TYPE_REG", pid |-> s, mtext |-> 0] \in Messages
          /\ [mtype |-> "MSG_TYPE_DEL", pid |-> s, mtext |-> 0] \in Messages
        BY DEF Messages
    <3> QED  BY <1>9, <3>1 DEF Register, Leave, Send
  <2>2. queue' \in Seq(Messages)
      BY <1>7, <2>1
  <2> QED  BY <1>9, <2>2 DEF Register, Leave, Goto, masterVars, killVars
<1>10. ASSUME NEW s \in Senders, SendText(s)
       PROVE  TypeOK'
  <2>0. sent[s] < COUNT_MESSAGES
      BY <1>10 DEF PlaceInv, SendText
  <2>1. [mtype |-> "MSG_TYPE_DATA", pid |-> s, mtext |-> sent[s] + 1] \in Messages
      BY <2>0 DEF Messages
  <2>2. queue' \in Seq(Messages)
      BY <1>7, <1>10, <2>1 DEF SendText, Send
  <2>3. sent' \in [Senders -> 0..COUNT_MESSAGES]
      BY <1>10, <2>0 DEF SendText
  <2> QED  BY <1>10, <2>2, <2>3 DEF SendText, Goto, masterVars, killVars
<1> QED
    BY <1>1, <1>2, <1>3, <1>4, <1>5, <1>6, <1>8, <1>9, <1>10
       DEF Next, MasterStep, SenderStep, CountReg, CountDel, PrintData

\* Where the processes are when.
LEMMA PlaceStep == TypeOK /\ PlaceInv /\ [Next]_vars => PlaceInv'
<1> SUFFICES ASSUME TypeOK, PlaceInv, [Next]_vars PROVE PlaceInv'
    OBVIOUS
<1> USE MasterAssumption DEF TypeOK, PlaceInv
<1>1. CASE UNCHANGED vars
    BY <1>1 DEF vars, masterVars, senderVars, killVars
<1>2. CASE MasterStep \/ KillMaster
  <2>1. UNCHANGED <<sPc, sent>>
      BY <1>2 DEF MasterStep, CreateQueue, Receive, CountReg, CountDel, PrintData,
                  Switch, CloseQueue, KillMaster, senderVars
  <2>2. /\ mPc' \in {"msgrcv", "switch", "closeQueue"} => exists'
        /\ mPc' = "done" => ~exists'
      BY <1>2 DEF MasterStep, CreateQueue, Receive, CountReg, CountDel, PrintData,
                  Switch, CloseQueue, KillMaster
  <2> QED  BY <2>1, <2>2
<1>3. ASSUME NEW s \in Senders, GetQueue(s) \/ SenderStep(s) \/ KillSender(s)
      PROVE  PlaceInv'
  <2>1. UNCHANGED <<exists, mPc, masterKills>>
      BY <1>3 DEF GetQueue, SenderStep, Register, SendText, Leave, SenderFails, KillSender,
                  masterVars, killVars
  <2>2. \A q \in Senders \ {s} : sPc'[q] = sPc[q] /\ sent'[q] = sent[q]
      BY <1>3 DEF GetQueue, SenderStep, Register, SendText, Leave, SenderFails, KillSender, Goto
  <2>3. /\ sPc'[s] \in {"msgget", "regInQueue"} => sent'[s] = 0
        /\ sPc'[s] = "sendMessages" => sent'[s] < COUNT_MESSAGES
      BY <1>3 DEF GetQueue, SenderStep, Register, SendText, Leave, SenderFails, KillSender, Goto
  <2> QED  BY <2>1, <2>2, <2>3
<1> QED  BY <1>1, <1>2, <1>3 DEF Next

-----------------------------------------------------------------------------
\* The part of a step that the order of the lines depends on: a message is sent,
\* is received, is printed, the queue is emptied or nothing happens.
SendOf(s, m) ==
    /\ m.pid = s /\ Line(m) = nextLine[s]
    /\ queue' = Append(queue, m)
    /\ UNCHANGED <<mPc, buf, count, log>>
    /\ Line(m) < nextLine'[s]
    /\ nextLine'[s] = Line(m) + 1
    /\ \A q \in Senders \ {s} : nextLine'[q] = nextLine[q] /\ sPc'[q] = sPc[q]
    /\ sPc[s] \notin {"done", "failed", "killed"}
    /\ UNCHANGED <<exists, masterKills>>

\* Each of the three sends is one of the line that is next.
LEMMA SendIsNext ==
    ASSUME TypeOK, PlaceInv, NEW s \in Senders, Register(s) \/ SendText(s) \/ Leave(s)
    PROVE  \E m \in Messages : SendOf(s, m)
<1> USE MasterAssumption DEF TypeOK, PlaceInv
<1> DEFINE reg == [mtype |-> "MSG_TYPE_REG", pid |-> s, mtext |-> 0]
           text == [mtype |-> "MSG_TYPE_DATA", pid |-> s, mtext |-> sent[s] + 1]
           del == [mtype |-> "MSG_TYPE_DEL", pid |-> s, mtext |-> 0]
<1>1. UNCHANGED <<mPc, buf, count, log, exists, masterKills>>
    BY DEF Register, SendText, Leave, masterVars, killVars
<1>2. \A q \in Senders \ {s} : sPc'[q] = sPc[q] /\ sent'[q] = sent[q]
    BY DEF Register, SendText, Leave, Goto
<1>3. \A q \in Senders \ {s} : nextLine'[q] = nextLine[q]
    BY <1>2 DEF nextLine
<1>4. CASE Register(s)
  <2>1. reg \in Messages /\ reg.pid = s /\ Line(reg) = 0 /\ queue' = Append(queue, reg)
      BY <1>4 DEF Register, Send, Messages, Line
  <2>2. sPc[s] = "regInQueue" /\ sPc'[s] = "sendMessages" /\ sent[s] = 0 /\ sent' = sent
      BY <1>4 DEF Register, Goto
  <2>3. nextLine[s] = 0 /\ nextLine'[s] = 1
      BY <2>2 DEF nextLine
  <2> HIDE DEF reg
  <2> QED  BY <1>1, <1>2, <1>3, <2>1, <2>2, <2>3 DEF SendOf
<1>5. CASE SendText(s)
  <2>1. sPc[s] = "sendMessages" /\ sent[s] < COUNT_MESSAGES /\ sent'[s] = sent[s] + 1
      BY <1>5 DEF SendText
  <2>2. sent[s] \in Nat /\ text \in Messages /\ text.pid = s /\ Line(text) = sent[s] + 1
        /\ queue' = Append(queue, text)
      BY <1>5, <2>1 DEF SendText, Send, Messages, Line
  <2>3. sPc'[s] = IF sent[s] + 1 < COUNT_MESSAGES THEN "sendMessages" ELSE "delFromQueue"
      BY <1>5 DEF SendText, Goto
  <2>4. nextLine[s] = sent[s] + 1 /\ nextLine'[s] = sent[s] + 2
    <3>1. nextLine[s] = sent[s] + 1
        BY <2>1 DEF nextLine
    <3>2. CASE sent[s] + 1 < COUNT_MESSAGES
        BY <3>1, <3>2, <2>1, <2>2, <2>3 DEF nextLine
    <3>3. CASE ~(sent[s] + 1 < COUNT_MESSAGES)
        BY <3>1, <3>3, <2>1, <2>2, <2>3 DEF nextLine
    <3> QED  BY <3>2, <3>3
  <2>5. Line(text) < nextLine'[s] /\ nextLine'[s] = Line(text) + 1
      BY <2>2, <2>4
  <2> HIDE DEF text
  <2> QED  BY <1>1, <1>2, <1>3, <2>1, <2>2, <2>4, <2>5 DEF SendOf
<1>6. CASE Leave(s)
  <2>1. del \in Messages /\ del.pid = s /\ Line(del) = COUNT_MESSAGES + 1 /\ queue' = Append(queue, del)
      BY <1>6 DEF Leave, Send, Messages, Line
  <2>2. sPc[s] = "delFromQueue" /\ sPc'[s] = "done"
      BY <1>6 DEF Leave, Goto
  <2>3. nextLine[s] = COUNT_MESSAGES + 1 /\ nextLine'[s] = COUNT_MESSAGES + 2
      BY <2>2 DEF nextLine
  <2>4. Line(del) < nextLine'[s] /\ nextLine'[s] = Line(del) + 1
      BY <2>1, <2>3
  <2> HIDE DEF del
  <2> QED  BY <1>1, <1>2, <1>3, <2>1, <2>2, <2>3, <2>4 DEF SendOf
<1> QED  BY <1>4, <1>5, <1>6

\* The message at the head of the queue comes into the master's hands.
TakeOf ==
    /\ Len(queue) \in Nat \ {0} /\ Len(queue') = Len(queue) - 1
    /\ buf' = queue[1]
    /\ \A j \in 1..(Len(queue) - 1) : queue'[j] = queue[j + 1]
    /\ mPc = "msgrcv" /\ mPc' = "switch"
    /\ UNCHANGED <<exists, count, log, sPc, sent, masterKills>>

\* msgrcv of the master takes the first message of the queue.
LEMMA ReceiveTakes == TypeOK /\ Receive => TakeOf
<1> SUFFICES ASSUME TypeOK, Receive PROVE TakeOf
    OBVIOUS
<1>1. queue \in Seq(Messages) /\ Arrived(queue, ANY_TYPE)
    BY DEF TypeOK, Receive
<1>2. UNCHANGED <<exists, count, log, sPc, sent, masterKills>>
    BY DEF Receive, senderVars, killVars
<1> QED  BY <1>1, <1>2, ReceiveAny DEF TakeOf, Receive

\* The message it holds is printed.
PrintOf ==
    /\ mPc = "switch" /\ mPc' \in {"msgrcv", "closeQueue"}
    /\ log' = [log EXCEPT ![buf.pid] = Append(@, Line(buf))]
    /\ mPc' = "closeQueue" => ~(count' > 0)
    /\ count' = count + (IF buf.mtype = "MSG_TYPE_REG" THEN 1
                         ELSE IF buf.mtype = "MSG_TYPE_DEL" THEN -1 ELSE 0)
    /\ UNCHANGED <<exists, queue, buf, sPc, sent, masterKills>>

\* Each branch of the switch prints the line received.
LEMMA SwitchPrints == CountReg \/ CountDel \/ PrintData => PrintOf
<1>1. CASE CountReg
    BY <1>1 DEF CountReg, Switch, PrintOf, senderVars, killVars
<1>2. CASE CountDel
    BY <1>2 DEF CountDel, Switch, PrintOf, senderVars, killVars
<1>3. CASE PrintData
    BY <1>3 DEF PrintData, Switch, PrintOf, senderVars, killVars
<1> QED  BY <1>1, <1>2, <1>3

\* Any other step leaves all lines where they are, unless the queue is removed
\* or the master is killed; a sender may end, and sends no line then.
IdleOf ==
    /\ UNCHANGED <<queue, log>>
    /\ mPc' = "switch" => UNCHANGED <<mPc, buf>>
    /\ masterKills' = 0 =>
         /\ masterKills = 0 /\ UNCHANGED count
         /\ mPc = "switch" => UNCHANGED <<mPc, buf>>
         /\ mPc' \notin {"done", "failed"} => mPc \notin {"done", "failed"}
         /\ mPc' \in {"closeQueue", "done"} => mPc' = mPc
    /\ \A s \in Senders :
         /\ nextLine'[s] >= nextLine[s]
         /\ sPc'[s] \notin {"done", "failed", "killed"} =>
              sPc[s] \notin {"done", "failed", "killed"} /\ nextLine'[s] = nextLine[s]

\* A sender's number is an integer in all its places.
LEMMA NextLineRange ==
    ASSUME TypeOK, NEW s \in Senders
    PROVE  nextLine[s] \in 0..(COUNT_MESSAGES + 2)
<1>1. sent[s] \in 0..COUNT_MESSAGES
    BY DEF TypeOK
<1> QED  BY <1>1, MasterAssumption DEF nextLine

\* Starts, failures and kills are such steps.
LEMMA OthersIdle ==
    ASSUME TypeOK, PlaceInv,
           \/ UNCHANGED vars \/ CreateQueue \/ KillMaster
           \/ \E s \in Senders : GetQueue(s) \/ SenderFails(s) \/ KillSender(s)
    PROVE  IdleOf
<1> USE MasterAssumption DEF TypeOK, PlaceInv
<1>0. \A s \in Senders : nextLine[s] \in 0..(COUNT_MESSAGES + 2)
    BY NextLineRange
<1>1. CASE UNCHANGED vars \/ CreateQueue \/ KillMaster
  <2>1. UNCHANGED <<queue, log, sPc, sent>>
      BY <1>1 DEF vars, masterVars, senderVars, killVars, CreateQueue, KillMaster
  <2>2. \A s \in Senders : nextLine'[s] = nextLine[s]
      BY <2>1 DEF nextLine
  <2>3. CASE UNCHANGED vars
      BY <1>0, <2>1, <2>2, <2>3 DEF IdleOf, vars, masterVars, killVars
  <2>4. CASE CreateQueue
      BY <1>0, <2>1, <2>2, <2>4 DEF IdleOf, CreateQueue, killVars
  <2>5. CASE KillMaster
      BY <1>0, <2>1, <2>2, <2>5 DEF IdleOf, KillMaster
  <2> QED  BY <1>1, <2>3, <2>4, <2>5
<1>2. ASSUME NEW s \in Senders, GetQueue(s) \/ SenderFails(s) \/ KillSender(s)
      PROVE  IdleOf
  <2>1. UNCHANGED <<queue, log, mPc, buf, count, masterKills, sent>>
      BY <1>2 DEF GetQueue, SenderFails, KillSender, masterVars, killVars
  <2>2. \A q \in Senders \ {s} : sPc'[q] = sPc[q]
      BY <1>2 DEF GetQueue, SenderFails, KillSender, Goto
  <2>3. \A q \in Senders \ {s} : nextLine'[q] = nextLine[q]
      BY <2>1, <2>2 DEF nextLine
  <2>4. \/ sPc[s] = "msgget" /\ sPc'[s] = "regInQueue"
        \/ sPc'[s] \in {"failed", "killed"}
      BY <1>2 DEF GetQueue, SenderFails, KillSender, Goto
  <2>5. CASE sPc[s] = "msgget" /\ sPc'[s] = "regInQueue"
    <3>1. nextLine[s] = 0 /\ nextLine'[s] = 0
        BY <2>5 DEF nextLine
    <3> QED  BY <1>0, <2>1, <2>2, <2>3, <2>5, <3>1 DEF IdleOf
  <2>6. CASE sPc'[s] \in {"failed", "killed"}
    <3>1. nextLine'[s] = COUNT_MESSAGES + 2
        BY <2>6 DEF nextLine
    <3> QED  BY <1>0, <2>1, <2>2, <2>3, <2>6, <3>1 DEF IdleOf
  <2> QED  BY <2>4, <2>5, <2>6
<1> QED  BY <1>1, <1>2

\* The queue is removed, with what was in it.
RemoveOf ==
    /\ queue' = << >> /\ mPc = "closeQueue" /\ mPc' = "done"
    /\ UNCHANGED <<buf, count, log, sPc, sent, masterKills>>

\* Every step sends a line, takes or prints one, removes the queue, or does none of these.
LEMMA StepOf ==
    ASSUME TypeOK, PlaceInv, [Next]_vars
    PROVE  \/ \E s \in Senders : \E m \in Messages : SendOf(s, m)
           \/ TakeOf \/ PrintOf \/ RemoveOf \/ IdleOf
<1>1. CASE CloseQueue
    BY <1>1 DEF CloseQueue, RemoveOf, senderVars, killVars
<1>2. CASE Receive
    BY <1>2, ReceiveTakes
<1>3. CASE CountReg \/ CountDel \/ PrintData
    BY <1>3, SwitchPrints
<1>4. ASSUME NEW s \in Senders, Register(s) \/ SendText(s) \/ Leave(s)
      PROVE  \E m \in Messages : SendOf(s, m)
    BY <1>4, SendIsNext
<1>5. CASE \/ UNCHANGED vars \/ CreateQueue \/ KillMaster
           \/ \E s \in Senders : GetQueue(s) \/ SenderFails(s) \/ KillSender(s)
    BY <1>5, OthersIdle
<1> QED  BY <1>1, <1>2, <1>3, <1>4, <1>5 DEF Next, MasterStep, SenderStep

-----------------------------------------------------------------------------
\* The lines stay in the order they were sent, on their way and in the log.
LEMMA OrderStep ==
    ASSUME TypeOK, PlaceInv, OrderInv, SentInv, TypeOK', [Next]_vars
    PROVE  OrderInv' /\ SentInv'
<1> USE MasterAssumption
<1>1. /\ queue \in Seq(Messages) /\ queue' \in Seq(Messages)
      /\ Len(queue) \in Nat /\ Len(queue') \in Nat
    BY LenProperties DEF TypeOK
<1>2. /\ \A j \in 1..Len(queue) : queue[j] \in Messages
      /\ \A j \in 1..Len(queue') : queue'[j] \in Messages
    BY <1>1, ElementOfSeq
<1>3. \A m \in Messages : m.pid \in Senders /\ Line(m) \in Int
    BY LineRange
<1>4. \A s \in Senders :
        /\ nextLine[s] \in Int
        /\ log[s] \in Seq(0..(COUNT_MESSAGES + 1)) /\ Len(log[s]) \in Nat
        /\ \A i \in 1..Len(log[s]) : log[s][i] \in Int
  <2> SUFFICES ASSUME NEW s \in Senders
               PROVE  /\ nextLine[s] \in Int
                      /\ log[s] \in Seq(0..(COUNT_MESSAGES + 1)) /\ Len(log[s]) \in Nat
                      /\ \A i \in 1..Len(log[s]) : log[s][i] \in Int
      OBVIOUS
  <2>1. nextLine[s] \in Int
      BY NextLineRange
  <2>2. log[s] \in Seq(0..(COUNT_MESSAGES + 1))
      BY DEF TypeOK
  <2>3. \A i \in 1..Len(log[s]) : log[s][i] \in 0..(COUNT_MESSAGES + 1)
      BY <2>2, ElementOfSeq
  <2> QED  BY <2>1, <2>2, <2>3, LenProperties
<1>5. ASSUME NEW s \in Senders, NEW m \in Messages, SendOf(s, m)
      PROVE  OrderInv' /\ SentInv'
  <2>1. /\ Len(queue') = Len(queue) + 1 /\ queue'[Len(queue) + 1] = m
        /\ \A j \in 1..Len(queue) : queue'[j] = queue[j]
      BY <1>1, <1>5, SentLast DEF SendOf
  <2>2. /\ UNCHANGED <<mPc, buf, log>> /\ m.pid = s /\ Line(m) = nextLine[s]
        /\ nextLine'[s] = nextLine[s] + 1
        /\ \A q \in Senders \ {s} : nextLine'[q] = nextLine[q]
      BY <1>5 DEF SendOf
  <2>3. PrintedInOrder'
      BY <2>2 DEF OrderInv, PrintedInOrder
  <2>4. \A j \in 1..Len(queue') : j \in 1..Len(queue) \/ j = Len(queue) + 1
      BY <1>1, <2>1
  <2>5. ASSUME NEW i \in 1..Len(queue'), NEW j \in 1..Len(queue'),
               i < j, queue'[i].pid = queue'[j].pid
        PROVE  Line(queue'[i]) < Line(queue'[j])
    <3>1. i \in 1..Len(queue) /\ queue'[i] = queue[i]
        BY <1>1, <2>1, <2>5
    <3>2. CASE j \in 1..Len(queue)
        BY <2>1, <2>5, <3>1, <3>2 DEF OrderInv
    <3>3. CASE j = Len(queue) + 1
        BY <2>1, <2>2, <2>5, <3>1, <3>3 DEF SentInv
    <3> QED  BY <2>4, <3>2, <3>3
  <2>6. ASSUME NEW q \in Senders, NEW i \in 1..Len(log'[q]), NEW j \in 1..Len(queue'),
               queue'[j].pid = q
        PROVE  log'[q][i] < Line(queue'[j])
    <3>1. CASE j \in 1..Len(queue)
        BY <2>1, <2>2, <2>6, <3>1 DEF OrderInv
    <3>2. CASE j = Len(queue) + 1
        BY <2>1, <2>2, <2>6, <3>2 DEF SentInv
    <3> QED  BY <2>4, <3>1, <3>2
  <2>7. mPc' = "switch" =>
          /\ \A i \in 1..Len(log'[buf'.pid]) : log'[buf'.pid][i] < Line(buf')
          /\ \A j \in 1..Len(queue') : queue'[j].pid = buf'.pid => Line(buf') < Line(queue'[j])
    <3> SUFFICES ASSUME mPc = "switch", NEW j \in 1..Len(queue'), queue'[j].pid = buf.pid
                 PROVE  Line(buf) < Line(queue'[j])
        BY <2>2 DEF OrderInv
    <3>1. CASE j \in 1..Len(queue)
        BY <2>1, <2>2, <3>1 DEF OrderInv
    <3>2. CASE j = Len(queue) + 1
        BY <2>1, <2>2, <3>2 DEF SentInv
    <3> QED  BY <2>4, <3>1, <3>2
  <2>8. \A q \in Senders : nextLine[q] <= nextLine'[q] /\ nextLine'[q] \in Int
      BY <1>4, <2>2
  <2>9. \A q \in Senders : \A i \in 1..Len(log'[q]) : log'[q][i] < nextLine'[q]
    <3> SUFFICES ASSUME NEW q \in Senders, NEW i \in 1..Len(log[q])
                 PROVE  log[q][i] < nextLine'[q]
        BY <2>2
    <3>1. log[q][i] < nextLine[q] /\ log[q][i] \in Int /\ nextLine[q] \in Int
        BY <1>4 DEF SentInv
    <3> QED  BY <2>8, <3>1
  <2>10. \A j \in 1..Len(queue') : Line(queue'[j]) < nextLine'[queue'[j].pid]
    <3> TAKE j \in 1..Len(queue')
    <3>1. CASE j \in 1..Len(queue)
      <4>1. queue'[j] = queue[j] /\ queue[j] \in Messages /\ Line(queue[j]) < nextLine[queue[j].pid]
          BY <1>2, <2>1, <3>1 DEF SentInv
      <4>2. /\ nextLine[queue[j].pid] <= nextLine'[queue[j].pid]
            /\ nextLine[queue[j].pid] \in Int /\ nextLine'[queue[j].pid] \in Int
            /\ Line(queue[j]) \in Int
          BY <1>3, <1>4, <2>8, <4>1
      <4> QED  BY <4>1, <4>2
    <3>2. CASE j = Len(queue) + 1
        BY <1>4, <2>1, <2>2, <3>2
    <3> QED  BY <2>4, <3>1, <3>2
  <2>11. mPc' = "switch" => Line(buf') < nextLine'[buf'.pid]
    <3> SUFFICES ASSUME mPc = "switch" PROVE Line(buf) < nextLine'[buf.pid]
        BY <2>2
    <3>1. buf.pid \in Senders /\ Line(buf) \in Int /\ Line(buf) < nextLine[buf.pid]
        BY <1>3 DEF TypeOK, SentInv
    <3> QED  BY <1>4, <2>8, <3>1
  <2> QED  BY <2>3, <2>5, <2>6, <2>7, <2>9, <2>10, <2>11 DEF OrderInv, SentInv
<1>6. CASE TakeOf
  <2> USE <1>6 DEF TakeOf
  <2>1. UNCHANGED <<log, sPc, sent>>
      OBVIOUS
  <2>2. \A q \in Senders : nextLine'[q] = nextLine[q]
      BY DEF nextLine
  <2>3. \A j \in 1..Len(queue') :
          queue'[j] = queue[j + 1] /\ j + 1 \in 1..Len(queue) /\ 1 < j + 1
      BY <1>1
  <2>4. 1 \in 1..Len(queue) /\ queue[1] \in Messages /\ buf' = queue[1]
      BY <1>1, <1>2
  <2> HIDE <1>6 DEF TakeOf
  <2>5. PrintedInOrder'
      BY <2>1 DEF OrderInv, PrintedInOrder
  <2>6. ASSUME NEW i \in 1..Len(queue'), NEW j \in 1..Len(queue'),
               i < j, queue'[i].pid = queue'[j].pid
        PROVE  Line(queue'[i]) < Line(queue'[j])
      BY <2>3, <2>6 DEF OrderInv
  <2>7. ASSUME NEW q \in Senders, NEW i \in 1..Len(log'[q]), NEW j \in 1..Len(queue'),
               queue'[j].pid = q
        PROVE  log'[q][i] < Line(queue'[j])
      BY <2>1, <2>3, <2>7 DEF OrderInv
  <2>8. /\ \A i \in 1..Len(log'[buf'.pid]) : log'[buf'.pid][i] < Line(buf')
        /\ \A j \in 1..Len(queue') : queue'[j].pid = buf'.pid => Line(buf') < Line(queue'[j])
    <3>1. buf'.pid \in Senders
        BY <1>3, <2>4
    <3> QED  BY <2>1, <2>3, <2>4, <3>1 DEF OrderInv
  <2>9. \A q \in Senders : \A i \in 1..Len(log'[q]) : log'[q][i] < nextLine'[q]
      BY <2>1, <2>2 DEF SentInv
  <2>10. \A j \in 1..Len(queue') : Line(queue'[j]) < nextLine'[queue'[j].pid]
      BY <1>2, <1>3, <2>2, <2>3 DEF SentInv
  <2>11. Line(buf') < nextLine'[buf'.pid]
      BY <1>3, <2>2, <2>4 DEF SentInv
  <2> QED  BY <2>5, <2>6, <2>7, <2>8, <2>9, <2>10, <2>11 DEF OrderInv, SentInv
<1>7. CASE PrintOf
  <2>1. /\ mPc = "switch" /\ mPc' # "switch" /\ UNCHANGED <<queue, sPc, sent>>
        /\ log' = [log EXCEPT ![buf.pid] = Append(@, Line(buf))]
      BY <1>7 DEF PrintOf
  <2>2. buf \in Messages /\ buf.pid \in Senders /\ Line(buf) \in Int
      BY <1>3, <2>1 DEF TypeOK
  <2>3. \A q \in Senders : nextLine'[q] = nextLine[q]
      BY <2>1 DEF nextLine
  <2> DEFINE b == buf.pid
  <2>4. \A q \in Senders \ {b} : log'[q] = log[q]
      BY <2>1, <2>2 DEF TypeOK
  <2>5. log'[b] = Append(log[b], Line(buf))
      BY <2>1, <2>2 DEF TypeOK
  <2>6. /\ Len(log'[b]) = Len(log[b]) + 1
        /\ \A i \in 1..Len(log[b]) : log'[b][i] = log[b][i]
        /\ log'[b][Len(log[b]) + 1] = Line(buf)
    <3>1. log[b] \in Seq(Int)
        BY <1>4, <2>2
    <3> QED  BY <2>2, <2>5, <3>1, AppendProperties
  <2>7. /\ b \in Senders /\ Len(log[b]) \in Nat
        /\ \A i \in 1..Len(log'[b]) : i \in 1..Len(log[b]) \/ i = Len(log[b]) + 1
      BY <1>4, <2>2, <2>6
  <2>8. /\ \A i \in 1..Len(log[b]) : log[b][i] < Line(buf)
        /\ \A j \in 1..Len(queue) : queue[j].pid = b => Line(buf) < Line(queue[j])
        /\ Line(buf) < nextLine[b]
      BY <2>1 DEF OrderInv, SentInv
  <2> HIDE DEF b
  <2>9. PrintedInOrder'
    <3> SUFFICES ASSUME NEW q \in Senders,
                        NEW i \in 1..Len(log'[q]), NEW j \in 1..Len(log'[q]), i < j
                 PROVE  log'[q][i] < log'[q][j]
        BY DEF PrintedInOrder
    <3>1. CASE q # b
        BY <2>4, <3>1 DEF OrderInv, PrintedInOrder
    <3>2. CASE q = b
      <4>1. i \in 1..Len(log[b])
          BY <2>6, <2>7, <3>2
      <4>2. CASE j \in 1..Len(log[b])
          BY <2>6, <2>7, <3>2, <4>1, <4>2 DEF OrderInv, PrintedInOrder
      <4>3. CASE j = Len(log[b]) + 1
          BY <2>6, <2>8, <3>2, <4>1, <4>3
      <4> QED  BY <2>7, <3>2, <4>2, <4>3
    <3> QED  BY <3>1, <3>2
  <2>10. ASSUME NEW q \in Senders, NEW i \in 1..Len(log'[q])
         PROVE  /\ \A j \in 1..Len(queue) : queue[j].pid = q => log'[q][i] < Line(queue[j])
                /\ log'[q][i] < nextLine[q]
    <3>1. CASE q # b
        BY <2>4, <3>1 DEF OrderInv, SentInv
    <3>2. CASE q = b /\ i \in 1..Len(log[b])
        BY <2>6, <3>2 DEF OrderInv, SentInv
    <3>3. CASE q = b /\ i = Len(log[b]) + 1
        BY <2>6, <2>8, <3>3
    <3> QED  BY <2>7, <3>1, <3>2, <3>3
  <2>11. \A j \in 1..Len(queue') : Line(queue'[j]) < nextLine'[queue'[j].pid]
      BY <1>2, <1>3, <2>1, <2>3 DEF SentInv
  <2>12. OrderInv'
      BY <2>1, <2>9, <2>10 DEF OrderInv
  <2>13. SentInv'
      BY <2>1, <2>3, <2>10, <2>11 DEF SentInv
  <2> QED  BY <2>12, <2>13
<1>8. CASE RemoveOf
  <2>1. Len(queue') = 0 /\ mPc' # "switch" /\ UNCHANGED <<log, sPc, sent>>
      BY <1>8 DEF RemoveOf
  <2>2. \A q \in Senders : nextLine'[q] = nextLine[q]
      BY <2>1 DEF nextLine
  <2> QED  BY <2>1, <2>2 DEF OrderInv, SentInv, PrintedInOrder
<1>9. CASE IdleOf
  <2>1. UNCHANGED <<queue, log>> /\ (mPc' = "switch" => UNCHANGED <<mPc, buf>>)
      BY <1>9 DEF IdleOf
  <2>2. \A q \in Senders : nextLine[q] <= nextLine'[q] /\ nextLine'[q] \in Int
    <3>1. \A q \in Senders : sent'[q] \in 0..COUNT_MESSAGES
        BY DEF TypeOK
    <3>2. \A q \in Senders : nextLine'[q] \in Int
        BY <3>1 DEF nextLine
    <3> QED  BY <1>4, <1>9, <3>2 DEF IdleOf
  <2>3. OrderInv'
      BY <2>1 DEF OrderInv, PrintedInOrder
  <2>4. \A q \in Senders : \A i \in 1..Len(log'[q]) : log'[q][i] < nextLine'[q]
      BY <1>4, <2>1, <2>2 DEF SentInv
  <2>5. ASSUME NEW m \in Messages, Line(m) < nextLine[m.pid]
        PROVE  Line(m) < nextLine'[m.pid]
      BY <1>3, <1>4, <2>2, <2>5
  <2>6. \A j \in 1..Len(queue') : Line(queue'[j]) < nextLine'[queue'[j].pid]
      BY <1>2, <2>1, <2>5 DEF SentInv
  <2>7. mPc' = "switch" => Line(buf') < nextLine'[buf'.pid]
      BY <2>1, <2>5 DEF SentInv, TypeOK
  <2> QED  BY <2>3, <2>4, <2>6, <2>7 DEF SentInv
<1> QED  BY <1>5, <1>6, <1>7, <1>8, <1>9, StepOf

\* While the master is not killed no line is lost between a sender and the log.
LEMMA LossStep ==
    ASSUME TypeOK, PlaceInv, NoLineLost, TypeOK', [Next]_vars
    PROVE  NoLineLost'
<1> SUFFICES ASSUME masterKills' = 0, mPc' \notin {"done", "failed"}
             PROVE  /\ \A s \in Senders : \A n, m \in Nat : Has(s, m)' /\ n < m => Has(s, n)'
                    /\ \A s \in Senders : \A n \in Nat :
                         sPc'[s] \notin {"done", "failed", "killed"} /\ n < nextLine'[s] => Has(s, n)'
    BY DEF NoLineLost
<1> USE MasterAssumption
<1>1. /\ queue \in Seq(Messages) /\ Len(queue) \in Nat
      /\ \A q \in Senders : log[q] \in Seq(0..(COUNT_MESSAGES + 1)) /\ Len(log[q]) \in Nat
    BY LenProperties DEF TypeOK
<1>2. \A m \in Messages : m.pid \in Senders /\ Line(m) \in Nat
    BY LineRange
<1>3. \A q \in Senders : nextLine[q] \in Nat
    BY NextLineRange
<1>4. ASSUME masterKills = 0, mPc \notin {"done", "failed"},
             \A q \in Senders : \A n \in Nat : Has(q, n)' <=> Has(q, n),
             \A q \in Senders : sPc'[q] \notin {"done", "failed", "killed"} =>
                sPc[q] \notin {"done", "failed", "killed"} /\ nextLine'[q] = nextLine[q]
      PROVE  /\ \A s \in Senders : \A n, m \in Nat : Has(s, m)' /\ n < m => Has(s, n)'
             /\ \A s \in Senders : \A n \in Nat :
                  sPc'[s] \notin {"done", "failed", "killed"} /\ n < nextLine'[s] => Has(s, n)'
    BY <1>4, Zenon DEF NoLineLost
<1>5. ASSUME NEW s \in Senders, NEW m \in Messages, SendOf(s, m)
      PROVE  NoLineLost'
  <2>1. /\ Len(queue') = Len(queue) + 1 /\ queue'[Len(queue) + 1] = m
        /\ \A j \in 1..Len(queue) : queue'[j] = queue[j]
      BY <1>1, <1>5, SentLast DEF SendOf
  <2>2. /\ UNCHANGED <<mPc, buf, log, masterKills>> /\ m.pid = s /\ Line(m) = nextLine[s]
        /\ nextLine'[s] = nextLine[s] + 1
        /\ \A q \in Senders \ {s} : nextLine'[q] = nextLine[q] /\ sPc'[q] = sPc[q]
        /\ sPc[s] \notin {"done", "failed", "killed"}
      BY <1>5 DEF SendOf
  <2>3. masterKills = 0 /\ mPc \notin {"done", "failed"}
      BY <2>2
  <2>4. \A j \in 1..Len(queue') : j \in 1..Len(queue) \/ j = Len(queue) + 1
      BY <1>1, <2>1
  <2>5. Len(queue) + 1 \in 1..Len(queue') /\ \A j \in 1..Len(queue) : j \in 1..Len(queue')
      BY <1>1, <2>1
  <2>6. ASSUME NEW q \in Senders, NEW n \in Nat
        PROVE  Has(q, n)' <=> Has(q, n) \/ (q = s /\ n = nextLine[s])
    <3>1. (\E j \in 1..Len(queue') : queue'[j].pid = q /\ Line(queue'[j]) = n)
            <=> \/ \E j \in 1..Len(queue) : queue[j].pid = q /\ Line(queue[j]) = n
                \/ q = s /\ n = nextLine[s]
        BY <2>1, <2>2, <2>4, <2>5
    <3> QED  BY <2>2, <3>1, Zenon DEF Has, Line
  <2>7. ASSUME NEW q \in Senders, NEW n \in Nat, NEW k \in Nat, Has(q, k)', n < k
        PROVE  Has(q, n)'
    <3>1. CASE Has(q, k)
        BY <2>3, <2>6, <2>7, <3>1 DEF NoLineLost
    <3>2. CASE q = s /\ k = nextLine[s]
        BY <2>2, <2>3, <2>6, <2>7, <3>2 DEF NoLineLost
    <3> QED  BY <2>6, <2>7, <3>1, <3>2
  <2>8. ASSUME NEW q \in Senders, NEW n \in Nat,
               sPc'[q] \notin {"done", "failed", "killed"}, n < nextLine'[q]
        PROVE  Has(q, n)'
    <3>1. CASE q = s
      <4>1. n < nextLine[s] \/ n = nextLine[s]
          BY <1>3, <2>2, <2>8, <3>1
      <4> QED  BY <2>2, <2>3, <2>6, <3>1, <4>1 DEF NoLineLost
    <3>2. CASE q # s
        BY <2>2, <2>3, <2>6, <2>8, <3>2 DEF NoLineLost
    <3> QED  BY <3>1, <3>2
  <2> QED  BY <2>7, <2>8 DEF NoLineLost
<1>6. CASE TakeOf
  <2> USE <1>6 DEF TakeOf
  <2>1. UNCHANGED <<log, sPc, sent, masterKills>> /\ mPc = "msgrcv" /\ mPc' = "switch" /\ buf' = queue[1]
      OBVIOUS
  <2>2. \A q \in Senders : nextLine'[q] = nextLine[q]
      BY DEF nextLine
  <2>3. \A j \in 1..Len(queue') : queue'[j] = queue[j + 1] /\ j + 1 \in 1..Len(queue)
      BY <1>1
  <2>4. 1 \in 1..Len(queue)
        /\ \A j \in 1..Len(queue) : j = 1 \/ (j - 1 \in 1..Len(queue') /\ queue'[j - 1] = queue[j])
      BY <1>1
  <2> HIDE <1>6 DEF TakeOf
  <2>5. ASSUME NEW q \in Senders, NEW n \in Nat
        PROVE  Has(q, n)' <=> Has(q, n)
    <3>1. (\E j \in 1..Len(queue) : queue[j].pid = q /\ Line(queue[j]) = n)
            <=> \/ \E j \in 1..Len(queue') : queue'[j].pid = q /\ Line(queue'[j]) = n
                \/ queue[1].pid = q /\ Line(queue[1]) = n
        BY <2>3, <2>4
    <3> HIDE DEF Line
    <3>2. Line(buf)' = Line(queue[1])
        BY <2>1 DEF Line
    <3>3. \A j : Line(queue[j])' = Line(queue'[j])
        BY DEF Line
    <3> QED  BY <2>1, <3>1, <3>2 DEF Has
  <2> QED  BY <1>4, <2>1, <2>2, <2>5
<1>7. CASE PrintOf
  <2>1. /\ mPc = "switch" /\ mPc' # "switch" /\ UNCHANGED <<queue, buf, sPc, sent, masterKills>>
        /\ log' = [log EXCEPT ![buf.pid] = Append(@, Line(buf))]
      BY <1>7 DEF PrintOf
  <2>2. buf \in Messages /\ buf.pid \in Senders /\ Line(buf) \in 0..(COUNT_MESSAGES + 1)
      BY <2>1, LineRange DEF TypeOK
  <2>3. \A q \in Senders : nextLine'[q] = nextLine[q]
      BY <2>1 DEF nextLine
  <2> DEFINE b == buf.pid
  <2>4. \A q \in Senders \ {b} : log'[q] = log[q]
      BY <2>1, <2>2 DEF TypeOK
  <2>5. log'[b] = Append(log[b], Line(buf))
      BY <2>1, <2>2 DEF TypeOK
  <2>6. /\ Len(log'[b]) = Len(log[b]) + 1
        /\ \A i \in 1..Len(log[b]) : log'[b][i] = log[b][i]
        /\ log'[b][Len(log[b]) + 1] = Line(buf)
      BY <1>1, <2>2, <2>5, AppendProperties
  <2>7. ASSUME NEW q \in Senders, NEW n \in Nat
        PROVE  Has(q, n)' <=> Has(q, n)
    <3>1. CASE q # b
        BY <2>1, <2>4, <3>1 DEF Has
    <3>2. CASE q = b
      <4>1. \A i \in 1..Len(log'[b]) : i \in 1..Len(log[b]) \/ i = Len(log[b]) + 1
          BY <1>1, <2>2, <2>6
      <4>2. Len(log[b]) + 1 \in 1..Len(log'[b]) /\ \A i \in 1..Len(log[b]) : i \in 1..Len(log'[b])
          BY <1>1, <2>2, <2>6
      <4>3. (\E i \in 1..Len(log'[b]) : log'[b][i] = n)
              <=> (\E i \in 1..Len(log[b]) : log[b][i] = n) \/ Line(buf) = n
          BY <2>6, <4>1, <4>2
      <4> QED  BY <2>1, <3>2, <4>3 DEF Has
    <3> QED  BY <3>1, <3>2
  <2>8. masterKills = 0 /\ mPc \notin {"done", "failed"}
      BY <2>1
  <2> QED  BY <1>4, <2>1, <2>3, <2>7, <2>8
<1>8. CASE RemoveOf
    BY <1>8 DEF RemoveOf
<1>9. CASE IdleOf
  <2>1. /\ UNCHANGED <<queue, log>> /\ (mPc' = "switch" => UNCHANGED <<mPc, buf>>)
        /\ masterKills = 0 /\ mPc \notin {"done", "failed"}
        /\ (mPc = "switch" => UNCHANGED <<mPc, buf>>)
        /\ \A q \in Senders : sPc'[q] \notin {"done", "failed", "killed"} =>
              sPc[q] \notin {"done", "failed", "killed"} /\ nextLine'[q] = nextLine[q]
      BY <1>9 DEF IdleOf
  <2>2. ASSUME NEW q \in Senders, NEW n \in Nat
        PROVE  Has(q, n)' <=> Has(q, n)
    <3>1. CASE mPc = "switch"
        BY <2>1, <3>1 DEF Has
    <3>2. CASE mPc # "switch"
        BY <2>1, <3>2 DEF Has
    <3> QED  BY <3>1, <3>2
  <2> QED  BY <1>4, <2>1, <2>2
<1> QED
  <2>1. ASSUME NoLineLost'
        PROVE  /\ \A s \in Senders : \A n, m \in Nat : Has(s, m)' /\ n < m => Has(s, n)'
               /\ \A s \in Senders : \A n \in Nat :
                    sPc'[s] \notin {"done", "failed", "killed"} /\ n < nextLine'[s] => Has(s, n)'
      BY <2>1 DEF NoLineLost
  <2> QED  BY <1>5, <1>6, <1>7, <1>8, <1>9, <2>1, StepOf

-----------------------------------------------------------------------------
\* The message the master holds is, while it was not killed, the next of its sender.
LEMMA HeldIsNext ==
    ASSUME TypeOK, OrderInv, NoLineLost, PrintedInv, masterKills = 0, mPc = "switch"
    PROVE  Line(buf) = Len(log[buf.pid])
<1> DEFINE b == buf.pid
<1>1. /\ buf \in Messages /\ b \in Senders /\ Line(buf) \in 0..(COUNT_MESSAGES + 1)
      /\ Len(log[b]) \in Nat
    BY LineRange, LenProperties DEF TypeOK
<1>2. Line(buf) \in Nat
    BY <1>1, MasterAssumption
<1>3. Has(b, Line(buf))
    BY Zenon DEF Has
<1>4. ASSUME NEW n \in Nat, n < Line(buf)
      PROVE  \E i \in 1..Len(log[b]) : log[b][i] = n
  <2>1. Has(b, n)
      BY <1>1, <1>2, <1>3, <1>4 DEF NoLineLost
  <2>2. Line(buf) # n
      BY <1>2, <1>4
  <2>3. \A j \in 1..Len(queue) : queue[j].pid = b => Line(queue[j]) # n
    <3> SUFFICES ASSUME NEW j \in 1..Len(queue), queue[j].pid = b PROVE Line(queue[j]) # n
        OBVIOUS
    <3>1. queue[j] \in Messages /\ Line(buf) < Line(queue[j])
        BY ElementOfSeq DEF TypeOK, OrderInv
    <3>2. Line(queue[j]) \in Int
        BY <3>1, LineRange
    <3> QED  BY <1>2, <1>4, <3>1, <3>2
  <2> QED  BY <2>1, <2>2, <2>3, Zenon DEF Has
<1>5. \A i \in 1..Len(log[b]) : log[b][i] = i - 1 /\ log[b][i] < Line(buf)
    BY <1>1 DEF PrintedInv, OrderInv
<1> HIDE DEF b
<1>6. Line(buf) <= Len(log[b])
  <2>1. CASE Line(buf) = 0
      BY <1>1, <2>1
  <2>2. CASE Line(buf) # 0
    <3>1. PICK i \in 1..Len(log[b]) : log[b][i] = Line(buf) - 1
        BY <1>2, <1>4, <2>2
    <3> QED  BY <1>1, <1>2, <1>5, <3>1
  <2> QED  BY <2>1, <2>2
<1>7. Len(log[b]) <= Line(buf)
  <2>1. CASE Len(log[b]) = 0
      BY <1>2, <2>1
  <2>2. CASE Len(log[b]) # 0
    <3>1. Len(log[b]) \in 1..Len(log[b])
        BY <1>1, <2>2
    <3> QED  BY <1>1, <1>2, <1>5, <3>1
  <2> QED  BY <2>1, <2>2
<1>8. Line(buf) = Len(log[b])
    BY <1>1, <1>2, <1>6, <1>7
<1> QED  BY <1>8 DEF b

\* Those the master has heard of and not heard the last of.
Active == {s \in Senders : Counted(s) /\ ~Left(s)}

\* In terms of the length of the log: the registration was printed, the leave not.
LEMMA ActiveByLength ==
    TypeOK /\ PrintedInv /\ masterKills = 0 =>
        /\ \A s \in Senders : s \in Active <=> Len(log[s]) \in 1..(COUNT_MESSAGES + 1)
        /\ \A s \in Senders : Len(log[s]) <= COUNT_MESSAGES + 2
<1> SUFFICES ASSUME TypeOK, PrintedInv, masterKills = 0, NEW s \in Senders
             PROVE  /\ s \in Active <=> Len(log[s]) \in 1..(COUNT_MESSAGES + 1)
                    /\ Len(log[s]) <= COUNT_MESSAGES + 2
    OBVIOUS
<1>1. log[s] \in Seq(0..(COUNT_MESSAGES + 1)) /\ Len(log[s]) \in Nat
    BY LenProperties DEF TypeOK
<1>2. log[s] = << >> <=> Len(log[s]) = 0
    BY <1>1, EmptySeq
<1>3. CASE Len(log[s]) = 0
    BY <1>2, <1>3, MasterAssumption DEF Active, Counted
<1>4. CASE Len(log[s]) # 0
  <2>1. Len(log[s]) \in 1..Len(log[s])
      BY <1>1, <1>4
  <2>2. log[s][Len(log[s])] = Len(log[s]) - 1 /\ log[s][Len(log[s])] \in 0..(COUNT_MESSAGES + 1)
      BY <1>1, <2>1, ElementOfSeq DEF PrintedInv
  <2>3. Left(s) <=> Len(log[s]) = COUNT_MESSAGES + 2
      BY <1>1, <1>2, <1>4, <2>2, MasterAssumption DEF Left, Counted
  <2>4. s \in Active <=> ~Left(s)
      BY <1>2, <1>4 DEF Active, Counted
  <2> QED  BY <1>1, <1>4, <2>2, <2>3, <2>4, MasterAssumption
<1> QED  BY <1>3, <1>4

\* The lines are printed from the first on, and the count follows them.
LEMMA CountStep ==
    ASSUME TypeOK, PlaceInv, OrderInv, NoLineLost, PrintedInv, CountIsActive, ClosedInv,
           TypeOK', [Next]_vars
    PROVE  PrintedInv' /\ CountIsActive' /\ ClosedInv'
<1> SUFFICES ASSUME masterKills' = 0 PROVE PrintedInv' /\ CountIsActive' /\ ClosedInv'
    BY DEF PrintedInv, CountIsActive, ClosedInv
<1> USE MasterAssumption
<1>1. ASSUME UNCHANGED log, masterKills = 0, UNCHANGED count,
             mPc' \in {"closeQueue", "done"} => mPc \in {"closeQueue", "done"}
      PROVE  PrintedInv' /\ CountIsActive' /\ ClosedInv'
  <2>1. PrintedInv' /\ ClosedInv'
      BY <1>1 DEF PrintedInv, ClosedInv
  <2>2. CountIsActive'
      BY <1>1 DEF CountIsActive, Counted, Left
  <2> QED  BY <2>1, <2>2
<1>2. CASE \E s \in Senders : \E m \in Messages : SendOf(s, m)
    BY <1>1, <1>2 DEF SendOf
<1>3. CASE TakeOf
    BY <1>1, <1>3 DEF TakeOf
<1>4. CASE RemoveOf
    BY <1>1, <1>4 DEF RemoveOf
<1>5. CASE IdleOf
    BY <1>1, <1>5 DEF IdleOf
<1>6. CASE PrintOf
  <2> DEFINE b == buf.pid
  <2>1. /\ mPc = "switch" /\ masterKills = 0
        /\ log' = [log EXCEPT ![b] = Append(@, Line(buf))]
        /\ mPc' = "closeQueue" => ~(count' > 0)
        /\ mPc' # "done"
        /\ count' = count + (IF buf.mtype = "MSG_TYPE_REG" THEN 1
                             ELSE IF buf.mtype = "MSG_TYPE_DEL" THEN -1 ELSE 0)
      BY <1>6 DEF PrintOf
  <2>2. buf \in Messages /\ b \in Senders /\ Line(buf) \in 0..(COUNT_MESSAGES + 1)
      BY <2>1, LineRange DEF TypeOK
  <2>3. Line(buf) = Len(log[b])
      BY <2>1, HeldIsNext
  <2>4. log[b] \in Seq(0..(COUNT_MESSAGES + 1)) /\ Len(log[b]) \in Nat
      BY <2>2, LenProperties DEF TypeOK
  <2>5. (\A q \in Senders \ {b} : log'[q] = log[q]) /\ log'[b] = Append(log[b], Line(buf))
      BY <2>1, <2>2 DEF TypeOK
  <2>6. /\ Len(log'[b]) = Len(log[b]) + 1
        /\ \A i \in 1..Len(log[b]) : log'[b][i] = log[b][i]
        /\ log'[b][Len(log[b]) + 1] = Line(buf)
      BY <2>2, <2>4, <2>5, AppendProperties
  <2>m. /\ buf.mtype \in {"MSG_TYPE_REG", "MSG_TYPE_DATA", "MSG_TYPE_DEL"}
        /\ buf.mtype = "MSG_TYPE_REG" => Line(buf) = 0
        /\ buf.mtype = "MSG_TYPE_DATA" => Line(buf) \in 1..COUNT_MESSAGES
        /\ buf.mtype = "MSG_TYPE_DEL" => Line(buf) = COUNT_MESSAGES + 1
      BY <2>2, LineRange
  <2> HIDE DEF b
  <2>7. PrintedInv'
    <3> SUFFICES ASSUME NEW q \in Senders, NEW i \in 1..Len(log'[q]) PROVE log'[q][i] = i - 1
        BY DEF PrintedInv
    <3>1. CASE q # b
        BY <2>1, <2>5, <3>1 DEF PrintedInv
    <3>2. CASE q = b /\ i \in 1..Len(log[b])
        BY <2>1, <2>2, <2>6, <3>2 DEF PrintedInv
    <3>3. CASE q = b /\ i = Len(log[b]) + 1
        BY <2>3, <2>4, <2>6, <3>3
    <3>4. q = b => i \in 1..Len(log[b]) \/ i = Len(log[b]) + 1
        BY <2>4, <2>6
    <3> QED  BY <3>1, <3>2, <3>3, <3>4
  <2>8. /\ \A q \in Senders : q \in Active <=> Len(log[q]) \in 1..(COUNT_MESSAGES + 1)
        /\ \A q \in Senders : q \in Active' <=> Len(log'[q]) \in 1..(COUNT_MESSAGES + 1)
    <3>1. \A q \in Senders : q \in Active <=> Len(log[q]) \in 1..(COUNT_MESSAGES + 1)
        BY <2>1, ActiveByLength
    <3>2. (TypeOK /\ PrintedInv /\ masterKills = 0 =>
             /\ \A s \in Senders : s \in Active <=> Len(log[s]) \in 1..(COUNT_MESSAGES + 1)
             /\ \A s \in Senders : Len(log[s]) <= COUNT_MESSAGES + 2)'
        BY ActiveByLength, PTL
    <3> QED  BY <2>7, <3>1, <3>2
  <2>9. Active \subseteq Senders /\ Active' \subseteq Senders
        /\ IsFiniteSet(Active) /\ Cardinality(Active) \in Nat /\ Cardinality(Active') \in Nat
    <3>1. Active \subseteq Senders /\ Active' \subseteq Senders
        BY DEF Active
    <3>2. IsFiniteSet(Active) /\ IsFiniteSet(Active')
        BY <3>1, FS_Subset
    <3> QED  BY <3>1, <3>2, FS_CardinalityType
  <2>a. /\ \A q \in Senders \ {b} : q \in Active' <=> q \in Active
        /\ b \in Active <=> Line(buf) \in 1..(COUNT_MESSAGES + 1)
        /\ b \in Active' <=> Line(buf) + 1 \in 1..(COUNT_MESSAGES + 1)
      BY <2>2, <2>3, <2>5, <2>6, <2>8
  <2>10. count = Cardinality(Active)
      BY <2>1 DEF CountIsActive, Active
  <2>11. count' = Cardinality(Active')
    <3>1. CASE buf.mtype = "MSG_TYPE_REG"
      <4>1. b \notin Active /\ Active' = Active \cup {b}
          BY <2>2, <2>m, <2>a, <2>9, <3>1
      <4>2. Cardinality(Active \cup {b}) = Cardinality(Active) + 1
          BY <2>9, <4>1, FS_AddElement
      <4> QED  BY <2>1, <2>10, <3>1, <4>1, <4>2
    <3>2. CASE buf.mtype = "MSG_TYPE_DEL"
      <4>1. b \in Active /\ Active' = Active \ {b}
          BY <2>2, <2>m, <2>a, <2>9, <3>2
      <4>2. Cardinality(Active \ {b}) = Cardinality(Active) - 1
          BY <2>9, <4>1, FS_RemoveElement
      <4> QED  BY <2>1, <2>9, <2>10, <3>2, <4>1, <4>2
    <3>3. CASE buf.mtype = "MSG_TYPE_DATA"
      <4>1. b \in Active /\ b \in Active'
          BY <2>2, <2>m, <2>a, <3>3
      <4>2. \A q \in Senders : q \in Active' <=> q \in Active
          BY <2>a, <4>1
      <4>3. Active' = Active
          BY <2>9, <4>2, Zenon
      <4> QED  BY <2>1, <2>9, <2>10, <3>3, <4>3
    <3> QED  BY <2>m, <3>1, <3>2, <3>3
  <2>12. CountIsActive'
      BY <2>11 DEF CountIsActive, Active
  <2>13. ClosedInv'
      BY <2>1, <2>9, <2>11 DEF ClosedInv
  <2> QED  BY <2>7, <2>12, <2>13
<1> QED  BY <1>2, <1>3, <1>4, <1>5, <1>6, StepOf

-----------------------------------------------------------------------------
\* The inductive invariant: what was sent, held and printed is one sequence per
\* sender, and while the master lives without a gap.
THEOREM CountedInvariant == Spec => []CountedInv
<1>1. CountedInv /\ [Next]_vars => CountedInv'
    BY TypeStep, PlaceStep, OrderStep, LossStep, CountStep DEF CountedInv
<1> QED  BY InitCounted, <1>1, PTL DEF Spec

\* A master that leaves its loop has printed all lines of everybody it knew.
LEMMA ClosedIsComplete == CountedInv => AllOrNothing
<1> SUFFICES ASSUME CountedInv, masterKills = 0, mPc \in {"closeQueue", "done"},
                    NEW s \in Senders
             PROVE  log[s] \in {<< >>, AllLines}
    BY DEF AllOrNothing
<1> USE MasterAssumption DEF CountedInv
<1>1. Cardinality(Active) = 0 /\ IsFiniteSet(Active)
  <2>1. Active \in SUBSET Senders
      BY DEF Active
  <2> QED  BY <2>1, FS_Subset DEF ClosedInv, CountIsActive, Active
<1>2. Active = {}
    BY <1>1, FS_EmptySet
<1>3. log[s] \in Seq(0..(COUNT_MESSAGES + 1)) /\ Len(log[s]) \in Nat
    BY LenProperties DEF TypeOK
<1>4. Len(log[s]) = 0 \/ Len(log[s]) = COUNT_MESSAGES + 2
    BY <1>2, <1>3, ActiveByLength
<1>5. CASE Len(log[s]) = 0
    BY <1>3, <1>5, EmptySeq
<1>6. CASE Len(log[s]) = COUNT_MESSAGES + 2
  <2>1. AllLines \in Seq(0..(COUNT_MESSAGES + 1)) /\ Len(AllLines) = COUNT_MESSAGES + 2
      BY DEF AllLines
  <2>2. \A i \in 1..Len(log[s]) : log[s][i] = AllLines[i]
      BY <1>6 DEF PrintedInv, AllLines
  <2>3. log[s] = AllLines
      BY <1>3, <1>6, <2>1, <2>2, SeqEqual
  <2> QED  BY <2>3
<1> QED  BY <1>4, <1>5, <1>6

\* The lines of a sender are printed once and in order, whoever is killed, and a
\* master that is not killed ends on the right count, never in the middle of a sender.
THEOREM LinesCounted == Spec => []LinesAreCounted
<1>1. CountedInv => LinesAreCounted
    BY ClosedIsComplete DEF CountedInv, OrderInv, LinesAreCounted
<1> QED  BY <1>1, CountedInvariant, PTL
=============================================================================
