---------------------------- MODULE QueueMaster -----------------------------
(***************************************************************************)
(* Task 32: a master prints what any number of senders put into one        *)
(* message queue.  A sender registers, sends COUNT_MESSAGES texts and      *)
(* leaves; the master counts the registered senders and removes the queue  *)
(* as soon as a message leaves that count at zero.                         *)
(*                                                                         *)
(* A text is its number.  Either program may be killed at any time; the    *)
(* queue survives the master and its next run goes on with it.             *)
(***************************************************************************)
EXTENDS Integers, Sequences, FiniteSets, SysVQueue

CONSTANTS Senders,          \* the sender processes that may be started
          COUNT_MESSAGES,   \* texts per sender (10 in header.h)
          MaxKills          \* bound: processes killed in a behaviour

ASSUME MasterAssumption ==
    /\ IsFiniteSet(Senders)
    /\ COUNT_MESSAGES \in Nat \ {0}
    /\ MaxKills \in Nat

VARIABLES
    exists, queue,  \* is there a queue; its messages
    mPc,            \* where the master is
    buf,            \* the message it received last
    count,          \* its count of registered senders
    log,            \* what it has printed of each sender, see Line
    sPc,            \* where each sender is
    sent,           \* texts each sender has sent
    masterKills, senderKills

masterVars == <<mPc, buf, count, log>>
senderVars == <<sPc, sent>>
killVars == <<masterKills, senderKills>>
vars == <<exists, queue, masterVars, senderVars, killVars>>

NoMessage == [mtype |-> ANY_TYPE, pid |-> ANY_TYPE, mtext |-> 0]

\* "New sender %d", "Process %d: %s" and "Del sender %d" as numbers.
Line(m) == IF m.mtype = "MSG_TYPE_REG" THEN 0
           ELSE IF m.mtype = "MSG_TYPE_DEL" THEN COUNT_MESSAGES + 1
           ELSE m.mtext
AllLines == [k \in 1..(COUNT_MESSAGES + 2) |-> k - 1]

Init ==
    /\ exists = FALSE /\ queue = << >>
    /\ mPc = "msgget" /\ buf = NoMessage /\ count = 0
    /\ log = [s \in Senders |-> << >>]
    /\ sPc = [s \in Senders |-> "msgget"]
    /\ sent = [s \in Senders |-> 0]
    /\ masterKills = 0 /\ senderKills = 0

-----------------------------------------------------------------------------
(* Seeded faults: the runs are repeated with each in the place of the      *)
(* action it is named after.                                               *)

\* "case MSG_TYPE_DEL" without its break: the message is lost on the count.
CountDel_Ignored ==
    /\ mPc = "switch" /\ buf.mtype = "MSG_TYPE_DEL"
    /\ log' = [log EXCEPT ![buf.pid] = Append(@, Line(buf))]
    /\ mPc' = "msgrcv"
    /\ UNCHANGED <<exists, queue, buf, count, senderVars, killVars>>

\* A registration counted before the switch and in it.
Switch_Twice(change) ==
    /\ count' = count + 2 * change
    /\ log' = [log EXCEPT ![buf.pid] = Append(@, Line(buf))]
    /\ mPc' = IF count' > 0 THEN "msgrcv" ELSE "closeQueue"
    /\ UNCHANGED <<exists, queue, buf, senderVars, killVars>>

-----------------------------------------------------------------------------
(* The master. *)

\* main: msgget with IPC_CREAT finds the queue or makes one; out of queue
\* identifiers it gives up.
CreateQueue ==
    /\ mPc = "msgget"
    /\ \/ /\ mPc' = "msgrcv"
          /\ exists' = TRUE
       \/ /\ ~exists
          /\ mPc' = "failed"
          /\ UNCHANGED exists
    /\ UNCHANGED <<queue, buf, count, log, senderVars, killVars>>

Receive ==
    /\ mPc = "msgrcv"
    /\ Arrived(queue, ANY_TYPE)
    /\ buf' = Message(queue, ANY_TYPE)
    /\ queue' = Rest(queue, ANY_TYPE)
    /\ mPc' = "switch"
    /\ UNCHANGED <<exists, count, log, senderVars, killVars>>

\* The end of each case: the line is printed and the loop's condition tested.
Switch(change) ==
    /\ count' = count + change
    /\ log' = [log EXCEPT ![buf.pid] = Append(@, Line(buf))]
    /\ mPc' = IF count' > 0 THEN "msgrcv" ELSE "closeQueue"
    /\ UNCHANGED <<exists, queue, buf, senderVars, killVars>>

CountReg  == mPc = "switch" /\ buf.mtype = "MSG_TYPE_REG" /\ Switch(1)
CountDel  == mPc = "switch" /\ buf.mtype = "MSG_TYPE_DEL" /\ Switch(-1)
PrintData == mPc = "switch" /\ buf.mtype = "MSG_TYPE_DATA" /\ Switch(0)

\* IPC_RMID: messages not received are lost.
CloseQueue ==
    /\ mPc = "closeQueue"
    /\ exists' = FALSE /\ queue' = << >>
    /\ mPc' = "done"
    /\ UNCHANGED <<buf, count, log, senderVars, killVars>>

MasterStep ==
    \/ CreateQueue \/ Receive \/ CountReg \/ CountDel \/ PrintData \/ CloseQueue

-----------------------------------------------------------------------------
(* A sender. *)

Goto(s, to) == sPc' = [sPc EXCEPT ![s] = to]

\* msgsnd: sleeps while the queue is full.
Send(s, mtype, mtext) ==
    /\ exists /\ HasRoom(queue)
    /\ queue' = Append(queue, [mtype |-> mtype, pid |-> s, mtext |-> mtext])

\* main: msgget without IPC_CREAT.
GetQueue(s) ==
    /\ sPc[s] = "msgget"
    /\ Goto(s, IF exists THEN "regInQueue" ELSE "failed")
    /\ UNCHANGED <<exists, queue, masterVars, sent, killVars>>

Register(s) ==
    /\ sPc[s] = "regInQueue"
    /\ Send(s, "MSG_TYPE_REG", 0)
    /\ Goto(s, "sendMessages")
    /\ UNCHANGED <<exists, masterVars, sent, killVars>>

SendText(s) ==
    /\ sPc[s] = "sendMessages"
    /\ Send(s, "MSG_TYPE_DATA", sent[s] + 1)
    /\ sent' = [sent EXCEPT ![s] = @ + 1]
    /\ Goto(s, IF sent[s] + 1 < COUNT_MESSAGES THEN "sendMessages" ELSE "delFromQueue")
    /\ UNCHANGED <<exists, masterVars, killVars>>

Leave(s) ==
    /\ sPc[s] = "delFromQueue"
    /\ Send(s, "MSG_TYPE_DEL", 0)
    /\ Goto(s, "done")
    /\ UNCHANGED <<exists, masterVars, sent, killVars>>

\* The queue was removed: the call fails, and so does the delFromQueue that
\* follows a failed text.
SenderFails(s) ==
    /\ sPc[s] \in {"regInQueue", "sendMessages", "delFromQueue"}
    /\ ~exists
    /\ Goto(s, "failed")
    /\ UNCHANGED <<exists, queue, masterVars, sent, killVars>>

SenderStep(s) == Register(s) \/ SendText(s) \/ Leave(s) \/ SenderFails(s)

-----------------------------------------------------------------------------
(* Ctrl+C: the default action of SIGINT. *)

\* The master is killed and started again; the message it holds is lost.
KillMaster ==
    /\ mPc \in {"msgrcv", "switch", "closeQueue"}
    /\ masterKills + senderKills < MaxKills
    /\ masterKills' = masterKills + 1
    /\ mPc' = "msgget" /\ count' = 0 /\ buf' = NoMessage
    /\ UNCHANGED <<exists, queue, log, senderVars, senderKills>>

KillSender(s) ==
    /\ sPc[s] \in {"regInQueue", "sendMessages", "delFromQueue"}
    /\ masterKills + senderKills < MaxKills
    /\ senderKills' = senderKills + 1
    /\ Goto(s, "killed")
    /\ UNCHANGED <<exists, queue, masterVars, sent, masterKills>>

Next ==
    \/ MasterStep \/ KillMaster
    \/ \E s \in Senders : GetQueue(s) \/ SenderStep(s) \/ KillSender(s)

Spec == Init /\ [][Next]_vars

\* A process that can run does run, msgsnd and msgrcv wake up who can go on;
\* nobody has to start a sender.
FairSpec ==
    /\ Spec
    /\ WF_vars(MasterStep)
    /\ \A s \in Senders : WF_vars(SenderStep(s))

-----------------------------------------------------------------------------
(* Properties. *)

Exited(s) == sPc[s] \in {"done", "failed", "killed"}
Counted(s) == log[s] # << >>
Left(s) == Counted(s) /\ log[s][Len(log[s])] = COUNT_MESSAGES + 1

\* Of each sender the registration, the texts and the leave are printed in the
\* order it sent them, none twice, whatever is killed in between.
PrintedInOrder ==
    \A s \in Senders : \A j, k \in 1..Len(log[s]) : j < k => log[s][j] < log[s][k]

\* A master that was never killed removes the queue when it has printed all
\* lines of every sender it knows: no sender is cut off in the middle.
AllOrNothing ==
    masterKills = 0 /\ mPc \in {"closeQueue", "done"} =>
        \A s \in Senders : log[s] \in {<< >>, AllLines}

\* The count is the number of senders whose registration, but not whose leave,
\* has been printed.
CountIsActive ==
    masterKills = 0 => count = Cardinality({s \in Senders : Counted(s) /\ ~Left(s)})

\* Lines are printed once and in order, and the master, which ends on its count of
\* senders, never ends in the middle of one.
LinesAreCounted == PrintedInOrder /\ AllOrNothing /\ CountIsActive

\* A master that has heard of a sender comes to its end, unless somebody is
\* killed: of a killed sender it expects the leave for ever, and a master
\* started again has forgotten whom it knew.
MasterTerminates == count > 0 ~> mPc = "done" \/ masterKills + senderKills > 0

\* A sender that got hold of the queue terminates: neither the full queue nor
\* its removal leaves it hanging, as long as a killed master is started again.
SendersTerminate == \A s \in Senders : sPc[s] = "regInQueue" ~> Exited(s)

\* Neither side waits for ever for the other one.
EverybodyTerminates == MasterTerminates /\ SendersTerminate
=============================================================================
