---------------------------- MODULE QueueAnswer -----------------------------
(***************************************************************************)
(* Task 30: a sender puts lines into a message queue, then an end; the     *)
(* receiver that takes the end answers, and the sender removes the queue.  *)
(* The receiver takes messages of any type: a second one may take the      *)
(* answer meant for the sender, and then answers itself.                   *)
(*                                                                         *)
(* A line is its number.  Only a line has a length greater than 0.  The    *)
(* sender may be killed; the queue survives it and its next run goes on    *)
(* with it.                                                                *)
(***************************************************************************)
EXTENDS Naturals, Sequences, FiniteSets, SysVQueue

CONSTANTS Receivers,    \* the receiver processes that may be started
          MaxLines,     \* bound: lines read by all runs of the sender
          MaxKills      \* bound: kills of the sender

ASSUME AnswerAssumption ==
    /\ IsFiniteSet(Receivers) /\ MaxLines \in Nat /\ MaxKills \in Nat
    /\ ANY_TYPE \notin {"MSG_TYPE_DATA", "MSG_TYPE_END", "MSG_TYPE_ANSWER"}

VARIABLES
    exists, queue,  \* is there a queue; its messages
    sPc,            \* where the sender is
    lines, code,    \* lines read; what the last read returned, "data" or "eof"
    kills,          \* kills of the sender
    rPc,            \* where each receiver is
    taken           \* the lines each receiver has taken, the last one still in its buffer

senderVars == <<sPc, lines, code, kills>>
receiverVars == <<rPc, taken>>
vars == <<exists, queue, senderVars, receiverVars>>

Init ==
    /\ exists = FALSE /\ queue = << >>
    /\ sPc = "msgget" /\ lines = 0 /\ code = "data" /\ kills = 0
    /\ rPc = [r \in Receivers |-> "msgget"]
    /\ taken = [r \in Receivers |-> << >>]

-----------------------------------------------------------------------------
(* Seeded faults: the runs are repeated with each in the place of the      *)
(* action it is named after.                                               *)

\* The line sent a second time after a wait for room.
SendMessage_Twice ==
    /\ sPc = "msgsnd"
    /\ HasRoom(queue)
    /\ queue' = Append(queue, IF code = "eof"
                              THEN [mtype |-> "MSG_TYPE_END", mtext |-> 0]
                              ELSE [mtype |-> "MSG_TYPE_DATA", mtext |-> lines])
    /\ sPc' \in IF code = "eof" THEN {"waitAnswer"} ELSE {"read", "msgsnd"}
    /\ UNCHANGED <<exists, lines, code, kills, receiverVars>>

\* A receiver that ends without an answer.
SendEndAnswer_Forgotten(r) ==
    /\ rPc[r] = "sendEndAnswer"
    /\ rPc' = [rPc EXCEPT ![r] = "failure"]
    /\ UNCHANGED <<exists, queue, senderVars, taken>>

-----------------------------------------------------------------------------
(* The sender. *)

\* msgget with IPC_CREAT; the key is the user's id.
CreateQueue ==
    /\ sPc = "msgget"
    /\ \/ sPc' = "read" /\ exists' = TRUE
       \/ ~exists /\ sPc' = "failed" /\ UNCHANGED exists
    /\ UNCHANGED <<queue, lines, code, kills, receiverVars>>

\* sendMessages: a line, the end of the input, or an error of read.
ReadLine ==
    /\ sPc = "read"
    /\ \/ lines < MaxLines /\ lines' = lines + 1 /\ code' = "data" /\ sPc' = "msgsnd"
       \/ code' = "eof" /\ sPc' = "msgsnd" /\ UNCHANGED lines
       \/ sPc' = "abort" /\ UNCHANGED <<lines, code>>
    /\ UNCHANGED <<exists, queue, kills, receiverVars>>

\* msgsnd sleeps while the queue is full.
SendMessage ==
    /\ sPc = "msgsnd"
    /\ HasRoom(queue)
    /\ queue' = Append(queue, IF code = "eof"
                              THEN [mtype |-> "MSG_TYPE_END", mtext |-> 0]
                              ELSE [mtype |-> "MSG_TYPE_DATA", mtext |-> lines])
    /\ sPc' = IF code = "eof" THEN "waitAnswer" ELSE "read"
    /\ UNCHANGED <<exists, lines, code, kills, receiverVars>>

WaitAnswer ==
    /\ sPc = "waitAnswer"
    /\ Arrived(queue, "MSG_TYPE_ANSWER")
    /\ queue' = Rest(queue, "MSG_TYPE_ANSWER")
    /\ sPc' = "closeQueue"
    /\ UNCHANGED <<exists, lines, code, kills, receiverVars>>

\* IPC_RMID: messages not received are lost.
CloseQueue ==
    /\ sPc \in {"closeQueue", "abort"}
    /\ exists' = FALSE /\ queue' = << >>
    /\ sPc' = IF sPc = "abort" THEN "failed" ELSE "done"
    /\ UNCHANGED <<lines, code, kills, receiverVars>>

\* Ctrl+C, and a new start.
KillSender ==
    /\ sPc \in {"read", "msgsnd", "waitAnswer", "closeQueue", "abort"}
    /\ kills < MaxKills
    /\ kills' = kills + 1
    /\ sPc' = "msgget"
    /\ UNCHANGED <<exists, queue, lines, code, receiverVars>>

SenderStep == CreateQueue \/ ReadLine \/ SendMessage \/ WaitAnswer \/ CloseQueue

-----------------------------------------------------------------------------
(* A receiver. *)

Goto(r, to) == rPc' = [rPc EXCEPT ![r] = to]

GetQueue(r) ==
    /\ rPc[r] = "msgget"
    /\ Goto(r, IF exists THEN "getMessages" ELSE "failure")
    /\ UNCHANGED <<exists, queue, senderVars, taken>>

\* getMessages: the first message of any type is taken; any but a line has no text and
\* ends the loop ...
GetMessage(r) ==
    /\ rPc[r] = "getMessages"
    /\ Arrived(queue, ANY_TYPE)
    /\ queue' = Rest(queue, ANY_TYPE)
    /\ LET msg == Message(queue, ANY_TYPE)
       IN IF msg.mtype = "MSG_TYPE_DATA"
          THEN taken' = [taken EXCEPT ![r] = Append(@, msg.mtext)] /\ Goto(r, "print")
          ELSE Goto(r, "sendEndAnswer") /\ UNCHANGED taken
    /\ UNCHANGED <<exists, senderVars>>

\* ... and a line is printed, while other receivers take what comes behind it.
PrintMessage(r) ==
    /\ rPc[r] = "print"
    /\ Goto(r, "getMessages")
    /\ UNCHANGED <<exists, queue, senderVars, taken>>

\* So does the removal of the queue, which is not told from the end.
QueueGone(r) ==
    /\ rPc[r] = "getMessages"
    /\ ~exists
    /\ Goto(r, "sendEndAnswer")
    /\ UNCHANGED <<exists, queue, senderVars, taken>>

\* main inverts the test: an answer that was sent is EXIT_FAILURE, ...
SendEndAnswer(r) ==
    /\ rPc[r] = "sendEndAnswer"
    /\ exists /\ HasRoom(queue)
    /\ queue' = Append(queue, [mtype |-> "MSG_TYPE_ANSWER", mtext |-> 0])
    /\ Goto(r, "failure")
    /\ UNCHANGED <<exists, senderVars, taken>>

\* ... one that could not be sent EXIT_SUCCESS.
AnswerFails(r) ==
    /\ rPc[r] = "sendEndAnswer"
    /\ ~exists
    /\ Goto(r, "success")
    /\ UNCHANGED <<exists, queue, senderVars, taken>>

ReceiverStep(r) ==
    \/ GetMessage(r) \/ PrintMessage(r) \/ QueueGone(r)
    \/ SendEndAnswer(r) \/ AnswerFails(r)

-----------------------------------------------------------------------------
Next ==
    \/ SenderStep \/ KillSender
    \/ \E r \in Receivers : GetQueue(r) \/ ReceiverStep(r)

Spec == Init /\ [][Next]_vars

\* A process that can run does run, the user ends the input at last (at
\* MaxLines); nobody has to start a receiver.
FairSpec ==
    /\ Spec
    /\ WF_vars(SenderStep)
    /\ \A r \in Receivers : WF_vars(ReceiverStep(r))

-----------------------------------------------------------------------------
(* Properties. *)

Connected(r) == rPc[r] \in {"getMessages", "print", "sendEndAnswer"}
Printed(r) == IF rPc[r] = "print" THEN Front(taken[r]) ELSE taken[r]

\* No line is taken and printed twice, by whomever, and each receiver takes its lines in
\* the order they were typed, also when the sender is started again.
OnceInOrder ==
    /\ \A r \in Receivers : \A j, n \in 1..Len(taken[r]) :
         j < n => taken[r][j] < taken[r][n]
    /\ \A r, q \in Receivers : r # q => ToSet(taken[r]) \cap ToSet(taken[q]) = {}

\* A sender that was never killed and has its answer knows that every line was printed,
\* but for one per receiver that is in printf at that moment: neither the end nor an
\* answer overtakes a line in the queue.  The receiver that answered has none of those.
AnswerMeansPrinted ==
    kills = 0 /\ sPc \in {"closeQueue", "done"} =>
        \A n \in 1..lines : \E r \in Receivers :
            \/ n \in ToSet(Printed(r))
            \/ rPc[r] = "print" /\ n = Last(taken[r])

\* Every line goes to one receiver, which has at least taken it before the answer arrives.
LinesBeforeAnswer == OnceInOrder /\ AnswerMeansPrinted

\* The answer reaches the sender however many receivers take it for an end
\* on its way: each sends one of its own.  After a kill it need not: a receiver
\* may then hold the answer to the old end before a queue full of the new one.
AnswerArrives ==
    (sPc = "waitAnswer" /\ \E r \in Receivers : Connected(r))
        ~> sPc = "done" \/ kills > 0

\* No receiver is left behind when the sender has ended.
ReceiversTerminate ==
    sPc \in {"done", "failed"} ~> \A r \in Receivers : ~Connected(r)

\* In the end every line is printed that the sender had its answer for.
LinesArePrinted ==
    sPc = "done" /\ kills = 0 ~> 1..lines \subseteq UNION {ToSet(Printed(r)) : r \in Receivers}

\* Neither side waits for ever for the other one, and all is printed at last.
EverybodyTerminates == AnswerArrives /\ ReceiversTerminate /\ LinesArePrinted
=============================================================================
