--------------------------- MODULE QueueBroadcast ---------------------------
(***************************************************************************)
(* Task 31: a sender reads lines and sends each to all its listeners, over *)
(* one message queue for everything: registrations, answers, and per       *)
(* listener the lines, whose type is its pid.  At the end of the input an  *)
(* empty message goes to everybody and the sender waits for the answers.   *)
(*                                                                         *)
(* A line is its number, EMPTY the message without text.  A process may be *)
(* killed; the queue survives the sender and its next run goes on with it. *)
(***************************************************************************)
EXTENDS Integers, Sequences, FiniteSets, SysVQueue

CONSTANTS Receivers,        \* the receiver processes that may be started
          MaxLines,         \* bound: lines read by all runs of the sender
          MaxSenderKills, MaxReceiverKills  \* bounds: processes killed

\* pushBack grows its array by bytes, not by elements, and writes the seventh
\* pid behind the smallest block malloc gives out: up to six listeners fit.
ASSUME ListenersAssumption == IsFiniteSet(Receivers) /\ Cardinality(Receivers) <= 6
\* A pid is a type too: those below 5, which are the types of header.h, belong to
\* init and the kernel, and 0 asks for any type.
ASSUME TypesAssumption ==
    LET types == {"MSG_TYPE_REG", "MSG_TYPE_END", "MSG_TYPE_END_ANSWER"}
    IN  ANY_TYPE \notin types \cup Receivers /\ types \cap Receivers = {}
ASSUME BoundsAssumption == {MaxLines, MaxSenderKills, MaxReceiverKills} \subseteq Nat

EMPTY == 0

VARIABLES
    exists, queue,      \* is there a queue; its messages
    sPc,                \* where the sender is
    lines, atEof,       \* lines read; the last fgets returned NULL
    pids,               \* the array of listeners
    k,                  \* index in sendMessage's loop over it
    rPc,                \* where each receiver is
    printed,            \* the lines each receiver has printed
    served,             \* history: who was ever added to the listeners
    senderKills, receiverKills

senderVars == <<sPc, lines, atEof, pids, k, served>>
receiverVars == <<rPc, printed>>
killVars == <<senderKills, receiverKills>>
vars == <<exists, queue, senderVars, receiverVars, killVars>>

Init ==
    /\ exists = FALSE /\ queue = << >>
    /\ sPc = "msgget" /\ lines = 0 /\ atEof = FALSE /\ pids = << >> /\ k = 1
    /\ rPc = [r \in Receivers |-> "msgget"]
    /\ printed = [r \in Receivers |-> << >>]
    /\ served = {}
    /\ senderKills = 0 /\ receiverKills = 0

Text == IF atEof THEN EMPTY ELSE lines

-----------------------------------------------------------------------------
(* Seeded faults: the runs are repeated with each in the place of the      *)
(* action it is named after.                                               *)

\* A loop that starts with the second listener.
DelDone_SkipFirst ==
    /\ sPc = "delListeners"
    /\ sPc' = "sendMessage" /\ k' = 2
    /\ UNCHANGED <<exists, queue, lines, atEof, pids, served, receiverVars, killVars>>

\* The type set once, before the loop.
SendToListener_MtypeOnce ==
    /\ sPc = "sendMessage" /\ k <= Len(pids)
    /\ HasRoom(queue)
    /\ queue' = Append(queue, [mtype |-> pids[1], mtext |-> Text])
    /\ k' = k + 1
    /\ UNCHANGED <<exists, sPc, lines, atEof, pids, served, receiverVars, killVars>>

\* The answers not waited for.
AnswersDone_NoWait ==
    /\ sPc = "waitAnswers"
    /\ sPc' = "closeQueue"
    /\ UNCHANGED <<exists, queue, lines, atEof, pids, k, served, receiverVars, killVars>>

\* The queue left behind.
CloseQueue_Forgotten ==
    /\ sPc \in {"closeQueue", "abort"}
    /\ sPc' = IF sPc = "abort" THEN "failed" ELSE "done"
    /\ UNCHANGED <<exists, queue, lines, atEof, pids, k, served, receiverVars, killVars>>

-----------------------------------------------------------------------------
(* The sender. *)

\* msgget with IPC_CREAT.
CreateQueue ==
    /\ sPc = "msgget"
    /\ \/ sPc' = "fgets" /\ exists' = TRUE
       \/ ~exists /\ sPc' = "failed" /\ UNCHANGED exists
    /\ UNCHANGED <<queue, lines, atEof, pids, k, served, receiverVars, killVars>>

\* sendMessages: a line, or the end of the input.
ReadLine ==
    /\ sPc = "fgets"
    /\ \/ lines < MaxLines /\ lines' = lines + 1 /\ UNCHANGED atEof
       \/ atEof' = TRUE /\ UNCHANGED lines
    /\ sPc' = "addListeners"
    /\ UNCHANGED <<exists, queue, pids, k, served, receiverVars, killVars>>

\* updListeners: the registrations that arrived while the sender read are
\* taken one by one ...
AddListener ==
    /\ sPc = "addListeners"
    /\ Arrived(queue, "MSG_TYPE_REG")
    /\ LET pid == Message(queue, "MSG_TYPE_REG").pid
       IN pids' = Append(pids, pid) /\ served' = served \cup {pid}
    /\ queue' = Rest(queue, "MSG_TYPE_REG")
    /\ UNCHANGED <<exists, sPc, lines, atEof, k, receiverVars, killVars>>

AddDone ==
    /\ sPc = "addListeners"
    /\ ~Arrived(queue, "MSG_TYPE_REG")
    /\ sPc' = "delListeners"
    /\ UNCHANGED <<exists, queue, lines, atEof, pids, k, served, receiverVars, killVars>>

\* ... and those of type MSG_TYPE_END, which no program sends.
DelDone ==
    /\ sPc = "delListeners"
    /\ ~Arrived(queue, "MSG_TYPE_END")
    /\ sPc' = "sendMessage" /\ k' = 1
    /\ UNCHANGED <<exists, queue, lines, atEof, pids, served, receiverVars, killVars>>

\* sendMessage: msgsnd to the next listener sleeps while the queue is full.
SendToListener ==
    /\ sPc = "sendMessage" /\ k <= Len(pids)
    /\ HasRoom(queue)
    /\ queue' = Append(queue, [mtype |-> pids[k], mtext |-> Text])
    /\ k' = k + 1
    /\ UNCHANGED <<exists, sPc, lines, atEof, pids, served, receiverVars, killVars>>

SendDone ==
    /\ sPc = "sendMessage" /\ k > Len(pids)
    /\ sPc' = IF atEof THEN "waitAnswers" ELSE "fgets"
    /\ UNCHANGED <<exists, queue, lines, atEof, pids, k, served, receiverVars, killVars>>

\* waitAnswers: find and removeItem for the next answer; main aborts if it
\* comes from no listener.
TakeAnswer ==
    /\ sPc = "waitAnswers" /\ pids # << >>
    /\ Arrived(queue, "MSG_TYPE_END_ANSWER")
    /\ queue' = Rest(queue, "MSG_TYPE_END_ANSWER")
    /\ LET pid == Message(queue, "MSG_TYPE_END_ANSWER").pid
       IN IF Contains(pids, pid)
          THEN pids' = RemoveFirst(pids, pid) /\ UNCHANGED sPc
          ELSE sPc' = "abort" /\ UNCHANGED pids
    /\ UNCHANGED <<exists, lines, atEof, k, served, receiverVars, killVars>>

AnswersDone ==
    /\ sPc = "waitAnswers" /\ pids = << >>
    /\ sPc' = "closeQueue"
    /\ UNCHANGED <<exists, queue, lines, atEof, pids, k, served, receiverVars, killVars>>

\* IPC_RMID: messages not received are lost.
CloseQueue ==
    /\ sPc \in {"closeQueue", "abort"}
    /\ exists' = FALSE /\ queue' = << >>
    /\ sPc' = IF sPc = "abort" THEN "failed" ELSE "done"
    /\ UNCHANGED <<lines, atEof, pids, k, served, receiverVars, killVars>>

SenderStep ==
    \/ CreateQueue \/ ReadLine \/ AddListener \/ AddDone \/ DelDone
    \/ SendToListener \/ SendDone \/ TakeAnswer \/ AnswersDone \/ CloseQueue

-----------------------------------------------------------------------------
(* A receiver. *)

Goto(r, to) == rPc' = [rPc EXCEPT ![r] = to]

\* msgsnd of a message that only carries the pid.
SendPid(r, mtype) ==
    /\ exists /\ HasRoom(queue)
    /\ queue' = Append(queue, [mtype |-> mtype, pid |-> r])

\* main: msgget without IPC_CREAT.
GetQueue(r) ==
    /\ rPc[r] = "msgget"
    /\ Goto(r, IF exists THEN "regInQueue" ELSE "failed")
    /\ UNCHANGED <<exists, queue, senderVars, printed, killVars>>

Register(r) ==
    /\ rPc[r] = "regInQueue"
    /\ SendPid(r, "MSG_TYPE_REG")
    /\ Goto(r, "getMessages")
    /\ UNCHANGED <<exists, senderVars, printed, killVars>>

\* getMessages: the next message whose type is the receiver's pid.
GetMessage(r) ==
    /\ rPc[r] = "getMessages"
    /\ Arrived(queue, r)
    /\ queue' = Rest(queue, r)
    /\ LET msg == Message(queue, r)
       IN IF msg.mtext = EMPTY
          THEN Goto(r, "leaveQueue") /\ UNCHANGED printed
          ELSE printed' = [printed EXCEPT ![r] = Append(@, msg.mtext)] /\ UNCHANGED rPc
    /\ UNCHANGED <<exists, senderVars, killVars>>

LeaveQueue(r) ==
    /\ rPc[r] = "leaveQueue"
    /\ SendPid(r, "MSG_TYPE_END_ANSWER")
    /\ Goto(r, "done")
    /\ UNCHANGED <<exists, senderVars, printed, killVars>>

\* The queue was removed, also under a receiver that sleeps in the call.
ReceiverFails(r) ==
    /\ rPc[r] \in {"regInQueue", "getMessages", "leaveQueue"}
    /\ ~exists
    /\ Goto(r, "failed")
    /\ UNCHANGED <<exists, queue, senderVars, printed, killVars>>

ReceiverStep(r) == Register(r) \/ GetMessage(r) \/ LeaveQueue(r) \/ ReceiverFails(r)

-----------------------------------------------------------------------------
(* Ctrl+C: the default action of SIGINT. *)

\* The sender is killed and started again: the listeners are forgotten.
KillSender ==
    /\ sPc \in {"fgets", "addListeners", "delListeners", "sendMessage",
                "waitAnswers", "closeQueue", "abort"}
    /\ senderKills < MaxSenderKills
    /\ senderKills' = senderKills + 1
    /\ sPc' = "msgget" /\ pids' = << >> /\ k' = 1 /\ atEof' = FALSE
    /\ UNCHANGED <<exists, queue, lines, served, receiverVars, receiverKills>>

KillReceiver(r) ==
    /\ rPc[r] \in {"regInQueue", "getMessages", "leaveQueue"}
    /\ receiverKills < MaxReceiverKills
    /\ receiverKills' = receiverKills + 1
    /\ Goto(r, "killed")
    /\ UNCHANGED <<exists, queue, senderVars, printed, senderKills>>

Next ==
    \/ SenderStep \/ KillSender
    \/ \E r \in Receivers : GetQueue(r) \/ ReceiverStep(r) \/ KillReceiver(r)

Spec == Init /\ [][Next]_vars

\* A process that can run does run, the user ends the input at last (at
\* MaxLines); nobody has to start a receiver.
FairSpec ==
    /\ Spec
    /\ WF_vars(SenderStep)
    /\ \A r \in Receivers : WF_vars(ReceiverStep(r))

-----------------------------------------------------------------------------
(* Properties. *)

Exited(r) == rPc[r] \in {"done", "failed", "killed"}
LastPrinted(r) == printed[r][Len(printed[r])]
Listeners == ToSet(pids)
Answered == {queue[j].pid : j \in {n \in 1..Len(queue) : queue[n].mtype = "MSG_TYPE_END_ANSWER"}}

\* What a receiver prints is a gapless run of the lines, in order and each
\* once, although all receivers share the queue and the sender may have been
\* started again in between.
GaplessLines ==
    \A r \in Receivers : \A j \in 1..(Len(printed[r]) - 1) :
        printed[r][j + 1] = printed[r][j] + 1

\* When a sender that was never killed removes the queue, its listeners have
\* printed up to the last line and left; the others have printed nothing.
CompleteOrNothing ==
    senderKills = 0 /\ sPc \in {"closeQueue", "done"} =>
        \A r \in Receivers :
            IF r \in served
            THEN rPc[r] = "done" /\ (printed[r] # << >> => LastPrinted(r) = lines)
            ELSE printed[r] = << >>

\* Every answer under way comes from a listener that still counts: waitAnswers
\* cannot fail ("Del listener, which doesn't exits") before a restart.
AnswersAreExpected ==
    senderKills = 0 => Answered \subseteq Listeners /\ sPc # "abort"

\* The listeners, each in the array once, are those who are served, until they have answered.
ListenersServed ==
    CompleteOrNothing /\ AnswersAreExpected /\ Len(pids) = Cardinality(Listeners)

\* A sender that got the queue comes to its end, be it killed and started again.
SenderTerminates == sPc = "fgets" ~> sPc \in {"done", "failed"}

\* A receiver that got hold of the queue terminates, also one that registers
\* when nobody reads registrations any more, or whom a restart has forgotten.
ReceiversTerminate == \A r \in Receivers : rPc[r] = "regInQueue" ~> Exited(r)

\* Neither side waits for ever for the other one.
EverybodyTerminates == SenderTerminates /\ ReceiversTerminate

-----------------------------------------------------------------------------
(* Refinement of AtomicMulticast: a line counts as published once its      *)
(* listeners are known, and as in the inbox of those the loop of           *)
(* sendMessage has yet to reach.                                           *)

Deciding == sPc \in {"addListeners", "delListeners"}

Inbox(r) ==
    LET mine == {j \in 1..Len(queue) : queue[j].mtype = r}
        pending == sPc = "sendMessage" /\ \E j \in k..Len(pids) : pids[j] = r
    IN {queue[j].mtext : j \in mine} \cup (IF pending THEN {Text} ELSE {})

Multicast == INSTANCE AtomicMulticast WITH
    END <- EMPTY,
    published <- IF Deciding /\ ~atEof THEN lines - 1 ELSE lines,
    closed <- atEof /\ ~Deciding,
    members <- served,
    inbox <- [r \in Receivers |-> Inbox(r)],
    log <- printed,
    complete <- sPc \in {"closeQueue", "done"}

\* Without a restart the program implements the atomic multicast: although the
\* lines are sent listener by listener, all that are listeners then get each.
ImplementsMulticast == Multicast!Spec
=============================================================================
