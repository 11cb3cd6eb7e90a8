---------------------------- MODULE SemBroadcast ----------------------------
(***************************************************************************)
(* Task 36: one producer hands every message to every registered consumer  *)
(* through one shared memory segment.  A message queue carries the         *)
(* registrations; two semaphores pace the rounds: SEM_CONSUMER holds one   *)
(* token per consumer that has yet to take the current message,            *)
(* SEM_PRODUCER one per consumer that is through with it.                  *)
(*                                                                         *)
(* A text is its number; the segment holds the number of the text written  *)
(* last, END_PRODUCE (the '\0' of a fresh segment is that very value).     *)
(* Registrations and confirmations are empty messages without a sender, so *)
(* the queue is the number of each.                                        *)
(*                                                                         *)
(* Every kernel object is reached by the same key.  The producer removes   *)
(* its own at the end; a consumer that calls semget or shmget (IPC_CREAT)  *)
(* after that gets a new, orphan object that nobody else uses.             *)
(***************************************************************************)
EXTENDS Integers, FiniteSets, Sequences, SysVSem

CONSTANTS Consumers,    \* the consumer processes that may be started
          MaxMessages   \* bound: largest count the user may type

ASSUME ConsumersAssumption == IsFiniteSet(Consumers)
ASSUME MaxMessagesAssumption == MaxMessages \in Nat \ {0}

END_PRODUCE == 0
Semaphores == {"SEM_PRODUCER", "SEM_CONSUMER"}
Objects == {"sem", "queue", "shm"}
MessageTypes == {"MSG_REG", "MSG_CONFIRM_REG"}

VARIABLES
    \* the producer
    pPc,            \* where it is in main, initIpc and produce
    countMessages,  \* what getMessageCount returned
    i,              \* messages sent and read so far
    countConsumers, \* registrations counted so far
    announced,      \* the last line "Send to %hd consumers: %s"
    cleanup,        \* objects it is about to remove, in this order
    \* the consumers
    cPc,            \* where each consumer is in main and consume
    semOf, shmOf,   \* which set and segment each consumer has opened
    seen,           \* the texts each consumer has printed
    \* the kernel
    bound,          \* what the key refers to, per kind of object
    queue,          \* messages in the queue, per type
    sharedMem,      \* contents of the shared segment
    semval,         \* semaphore values of the shared set
    adjP, adjC      \* SEM_UNDO adjustments of the producer and the consumers

producerVars == <<pPc, countMessages, i, countConsumers, announced, cleanup>>
consumerVars == <<cPc, semOf, shmOf, seen>>
semVars == <<semval, adjP, adjC>>
vars == <<producerVars, consumerVars, bound, queue, sharedMem, semVars>>

-----------------------------------------------------------------------------
(* The kernel: objects by key, and semop on the shared set. *)

Live(k) == bound[k] = "shared"

\* semget or shmget with IPC_CREAT: the object the key refers to, else a new one.
Opened(k) == IF bound[k] = "absent" THEN "shared"
             ELSE IF bound[k] = "gone" THEN "orphan"
             ELSE bound[k]

Remove(k) == bound' = [bound EXCEPT ![k] = "gone"]

\* A process's semop took effect / failed because of a limit.
ProducerApplies(s, op) ==
    /\ Applies(semval[s], adjP[s], op)
    /\ semval' = [semval EXCEPT ![s] = @ + op]
    /\ adjP' = [adjP EXCEPT ![s] = @ - op]
    /\ UNCHANGED adjC

ConsumerApplies(c, s, op) ==
    /\ semOf[c] = "shared" /\ Live("sem")
    /\ Applies(semval[s], adjC[c][s], op)
    /\ semval' = [semval EXCEPT ![s] = @ + op]
    /\ adjC' = [adjC EXCEPT ![c][s] = @ - op]
    /\ UNCHANGED adjP

\* EIDRM or EINVAL when the set is gone, ERANGE at a limit.  The values of an
\* orphan set are 0 for ever: the only operation tried on it, -1, sleeps.
ConsumerFails(c, s, op) ==
    /\ semOf[c] = "shared"
    /\ ~Live("sem") \/ OutOfRange(semval[s], adjC[c][s], op)

\* What a consumer reads: its segment may be a fresh orphan one.
Segment(c) == IF shmOf[c] = "shared" THEN sharedMem ELSE END_PRODUCE

-----------------------------------------------------------------------------
Init ==
    /\ pPc = "semget"
    /\ countMessages \in 1..MaxMessages
    /\ i = 0 /\ countConsumers = 0
    /\ announced = [consumers |-> 0, text |-> 0]
    /\ cleanup = << >>
    /\ cPc = [c \in Consumers |-> "semget"]
    /\ semOf = [c \in Consumers |-> "none"]
    /\ shmOf = [c \in Consumers |-> "none"]
    /\ seen = [c \in Consumers |-> << >>]
    /\ bound = [k \in Objects |-> "absent"]
    /\ queue = [t \in MessageTypes |-> 0]
    /\ sharedMem = END_PRODUCE
    /\ semval = [s \in Semaphores |-> 0]
    /\ adjP = [s \in Semaphores |-> 0]
    /\ adjC = [c \in Consumers |-> [s \in Semaphores |-> 0]]

-----------------------------------------------------------------------------
(* Seeded faults: an action with a plausible slip.  The runs of the project *)
(* are repeated with each in the place of the action it is named after.     *)

\* LOCK (-1) left in waitReading, as in task 34.
WaitReading_One ==
    /\ pPc = "waitReading"
    /\ ProducerApplies("SEM_PRODUCER", -1)
    /\ i' = i + 1
    /\ pPc' = IF i + 1 < countMessages THEN "updConsumers" ELSE "writeEnd"
    /\ UNCHANGED <<countMessages, countConsumers, announced, cleanup,
                   consumerVars, bound, queue, sharedMem>>

\* The last wait forgotten / the queue left behind.
WaitEnd_Forgotten ==
    /\ pPc = "waitEnd"
    /\ pPc' = "destroyIpc"
    /\ cleanup' = <<"shm", "queue", "sem">>
    /\ UNCHANGED <<countMessages, i, countConsumers, announced, consumerVars,
                   bound, queue, sharedMem, semVars>>

WaitEnd_QueueLeft ==
    /\ pPc = "waitEnd"
    /\ ProducerApplies("SEM_PRODUCER", -countConsumers)
    /\ pPc' = "destroyIpc"
    /\ cleanup' = <<"shm", "sem">>
    /\ UNCHANGED <<countMessages, i, countConsumers, announced, consumerVars,
                   bound, queue, sharedMem>>

\* The result of the confirmation's msgrcv ignored.
Confirmed_Unchecked(c) ==
    /\ cPc[c] = "awaitConfirm"
    /\ \/ /\ Live("queue")
          /\ queue["MSG_CONFIRM_REG"] > 0
          /\ queue' = [queue EXCEPT !["MSG_CONFIRM_REG"] = @ - 1]
       \/ /\ ~Live("queue")
          /\ UNCHANGED queue
    /\ cPc' = [cPc EXCEPT ![c] = "waitWriting"]
    /\ UNCHANGED <<producerVars, semOf, shmOf, seen, bound, sharedMem, semVars>>

\* No wait for the other consumers before the post.
ConsumerReset_NoWait(c) ==
    /\ cPc[c] = "consumerReset"
    /\ cPc' = [cPc EXCEPT ![c] = "consumed"]
    /\ UNCHANGED <<producerVars, semOf, shmOf, seen, bound, queue, sharedMem, semVars>>

-----------------------------------------------------------------------------
(* The producer. *)

\* Remove what is listed, then exit with EXIT_FAILURE ...
Abort(objects) ==
    /\ pPc' = "abort"
    /\ cleanup' = objects

\* initIpc opens the set, the queue and the segment in this order.  Each call
\* fails when the system is out of identifiers; what was opened is removed.
InitStep(from, k, to, undo) ==
    /\ pPc = from
    /\ \/ /\ pPc' = to
          /\ bound' = [bound EXCEPT ![k] = Opened(k)]
          /\ UNCHANGED cleanup
       \/ /\ ~Live(k)
          /\ Abort(undo)
          /\ UNCHANGED bound
    /\ UNCHANGED <<countMessages, i, countConsumers, announced, consumerVars,
                   queue, sharedMem, semVars>>

InitSem   == InitStep("semget", "sem", "msgget", << >>)
InitQueue == InitStep("msgget", "queue", "shmget", <<"sem">>)
InitShm   == InitStep("shmget", "shm", "updConsumers", <<"sem", "queue">>)

\* updConsumers: one registration is taken from the queue ...
TakeReg ==
    /\ pPc = "updConsumers"
    /\ queue["MSG_REG"] > 0
    /\ queue' = [queue EXCEPT !["MSG_REG"] = @ - 1]
    /\ pPc' = "confirm"
    /\ UNCHANGED <<countMessages, i, countConsumers, announced, cleanup,
                   consumerVars, bound, sharedMem, semVars>>

\* ... confirmed, and counted.
Confirm ==
    /\ pPc = "confirm"
    /\ queue' = [queue EXCEPT !["MSG_CONFIRM_REG"] = @ + 1]
    /\ countConsumers' = countConsumers + 1
    /\ pPc' = "updConsumers"
    /\ UNCHANGED <<countMessages, i, announced, cleanup, consumerVars, bound,
                   sharedMem, semVars>>

\* No registration is left; with nobody counted, the loop starts over.
UpdDone ==
    /\ pPc = "updConsumers"
    /\ queue["MSG_REG"] = 0
    /\ countConsumers > 0
    /\ pPc' = "reset"
    /\ UNCHANGED <<countMessages, i, countConsumers, announced, cleanup,
                   consumerVars, bound, queue, sharedMem, semVars>>

\* consumerReset: wait until SEM_CONSUMER is zero.
Reset ==
    /\ pPc = "reset"
    /\ ProducerApplies("SEM_CONSUMER", 0)
    /\ pPc' = "write"
    /\ UNCHANGED <<countMessages, i, countConsumers, announced, cleanup,
                   consumerVars, bound, queue, sharedMem>>

\* generateMessage into the segment, and the line that announces it.
WriteMessage ==
    /\ pPc = "write"
    /\ sharedMem' = i + 1
    /\ announced' = [consumers |-> countConsumers, text |-> i + 1]
    /\ pPc' = "produced"
    /\ UNCHANGED <<countMessages, i, countConsumers, cleanup, consumerVars,
                   bound, queue, semVars>>

\* produced: one token per counted consumer ...
Produced ==
    /\ pPc = "produced"
    /\ ProducerApplies("SEM_CONSUMER", countConsumers)
    /\ pPc' = "waitReading"
    /\ UNCHANGED <<countMessages, i, countConsumers, announced, cleanup,
                   consumerVars, bound, queue, sharedMem>>

\* ... and waitReading: take back one from each.
WaitReading ==
    /\ pPc = "waitReading"
    /\ ProducerApplies("SEM_PRODUCER", -countConsumers)
    /\ i' = i + 1
    /\ pPc' = IF i + 1 < countMessages THEN "updConsumers" ELSE "writeEnd"
    /\ UNCHANGED <<countMessages, countConsumers, announced, cleanup,
                   consumerVars, bound, queue, sharedMem>>

\* After the loop: END_PRODUCE, without a wait for SEM_CONSUMER.
WriteEnd ==
    /\ pPc = "writeEnd"
    /\ sharedMem' = END_PRODUCE
    /\ pPc' = "producedEnd"
    /\ UNCHANGED <<countMessages, i, countConsumers, announced, cleanup,
                   consumerVars, bound, queue, semVars>>

ProducedEnd ==
    /\ pPc = "producedEnd"
    /\ ProducerApplies("SEM_CONSUMER", countConsumers)
    /\ pPc' = "waitEnd"
    /\ UNCHANGED <<countMessages, i, countConsumers, announced, cleanup,
                   consumerVars, bound, queue, sharedMem>>

\* The last wait; then destroyIpc removes segment, queue and set.
WaitEnd ==
    /\ pPc = "waitEnd"
    /\ ProducerApplies("SEM_PRODUCER", -countConsumers)
    /\ pPc' = "destroyIpc"
    /\ cleanup' = <<"shm", "queue", "sem">>
    /\ UNCHANGED <<countMessages, i, countConsumers, announced, consumerVars,
                   bound, queue, sharedMem>>

\* A semop of produce hits a limit: main removes set, queue and segment.
ProducerSemFails ==
    /\ \/ /\ pPc \in {"produced", "producedEnd"}
          /\ OutOfRange(semval["SEM_CONSUMER"], adjP["SEM_CONSUMER"], countConsumers)
       \/ /\ pPc \in {"waitReading", "waitEnd"}
          /\ OutOfRange(semval["SEM_PRODUCER"], adjP["SEM_PRODUCER"], -countConsumers)
    /\ Abort(<<"sem", "queue", "shm">>)
    /\ UNCHANGED <<countMessages, i, countConsumers, announced, consumerVars,
                   bound, queue, sharedMem, semVars>>

\* One IPC_RMID, or the exit once none is left.
RemoveObject ==
    /\ pPc \in {"destroyIpc", "abort"}
    /\ cleanup # << >>
    /\ Remove(Head(cleanup))
    /\ cleanup' = Tail(cleanup)
    /\ UNCHANGED <<pPc, countMessages, i, countConsumers, announced,
                   consumerVars, queue, sharedMem, semVars>>

ProducerExit ==
    /\ pPc \in {"destroyIpc", "abort"}
    /\ cleanup = << >>
    /\ pPc' = IF pPc = "abort" THEN "failed" ELSE "done"
    /\ UNCHANGED <<countMessages, i, countConsumers, announced, cleanup,
                   consumerVars, bound, queue, sharedMem, semVars>>

ProducerStep ==
    \/ InitSem \/ InitQueue \/ InitShm
    \/ TakeReg \/ Confirm \/ UpdDone
    \/ Reset \/ WriteMessage \/ Produced \/ WaitReading
    \/ WriteEnd \/ ProducedEnd \/ WaitEnd
    \/ ProducerSemFails \/ RemoveObject \/ ProducerExit

-----------------------------------------------------------------------------
(* A consumer. *)

Goto(c, to) == cPc' = [cPc EXCEPT ![c] = to]

\* main opens the set (IPC_CREAT); without an identifier left it exits.
OpenSem(c) ==
    /\ cPc[c] = "semget"
    /\ \/ /\ Goto(c, "msgget")
          /\ bound' = [bound EXCEPT !["sem"] = Opened("sem")]
          /\ semOf' = [semOf EXCEPT ![c] = Opened("sem")]
       \/ /\ bound["sem"] \in {"absent", "gone"}
          /\ Goto(c, "failed")
          /\ UNCHANGED <<bound, semOf>>
    /\ UNCHANGED <<producerVars, shmOf, seen, queue, sharedMem, semVars>>

\* msgget without IPC_CREAT: only the producer's queue will do.
OpenQueue(c) ==
    /\ cPc[c] = "msgget"
    /\ Goto(c, IF Live("queue") THEN "shmget" ELSE "failed")
    /\ UNCHANGED <<producerVars, semOf, shmOf, seen, bound, queue, sharedMem, semVars>>

OpenShm(c) ==
    /\ cPc[c] = "shmget"
    /\ \/ /\ Goto(c, "register")
          /\ bound' = [bound EXCEPT !["shm"] = Opened("shm")]
          /\ shmOf' = [shmOf EXCEPT ![c] = Opened("shm")]
       \/ /\ bound["shm"] \in {"absent", "gone"}
          /\ Goto(c, "failed")
          /\ UNCHANGED <<bound, shmOf>>
    /\ UNCHANGED <<producerVars, semOf, seen, queue, sharedMem, semVars>>

\* regInProducer: send a registration, fail if the queue is gone ...
Register(c) ==
    /\ cPc[c] = "register"
    /\ IF Live("queue")
       THEN /\ queue' = [queue EXCEPT !["MSG_REG"] = @ + 1]
            /\ Goto(c, "awaitConfirm")
       ELSE /\ Goto(c, "abort")
            /\ UNCHANGED queue
    /\ UNCHANGED <<producerVars, semOf, shmOf, seen, bound, sharedMem, semVars>>

\* ... then take a confirmation: any one, it names nobody.
Confirmed(c) ==
    /\ cPc[c] = "awaitConfirm"
    /\ \/ /\ Live("queue")
          /\ queue["MSG_CONFIRM_REG"] > 0
          /\ queue' = [queue EXCEPT !["MSG_CONFIRM_REG"] = @ - 1]
          /\ Goto(c, "waitWriting")
       \/ /\ ~Live("queue")
          /\ Goto(c, "abort")
          /\ UNCHANGED queue
    /\ UNCHANGED <<producerVars, semOf, shmOf, seen, bound, sharedMem, semVars>>

\* waitWriting: take one token of SEM_CONSUMER.
WaitWriting(c) ==
    /\ cPc[c] = "waitWriting"
    /\ ConsumerApplies(c, "SEM_CONSUMER", -1)
    /\ Goto(c, "test")
    /\ UNCHANGED <<producerVars, semOf, shmOf, seen, bound, queue, sharedMem>>

\* Is it the end?
TestEnd(c) ==
    /\ cPc[c] = "test"
    /\ Goto(c, IF Segment(c) = END_PRODUCE THEN "consumedEnd" ELSE "print")
    /\ UNCHANGED <<producerVars, semOf, shmOf, seen, bound, queue, sharedMem, semVars>>

PrintMessage(c) ==
    /\ cPc[c] = "print"
    /\ seen' = [seen EXCEPT ![c] = Append(@, Segment(c))]
    /\ Goto(c, "consumerReset")
    /\ UNCHANGED <<producerVars, semOf, shmOf, bound, queue, sharedMem, semVars>>

\* consumerReset: wait until every token of the round is taken.
ConsumerReset(c) ==
    /\ cPc[c] = "consumerReset"
    /\ ConsumerApplies(c, "SEM_CONSUMER", 0)
    /\ Goto(c, "consumed")
    /\ UNCHANGED <<producerVars, semOf, shmOf, seen, bound, queue, sharedMem>>

\* consumed: one token of SEM_PRODUCER, in the loop and after it.
Consumed(c) ==
    /\ cPc[c] \in {"consumed", "consumedEnd"}
    /\ ConsumerApplies(c, "SEM_PRODUCER", 1)
    /\ Goto(c, IF cPc[c] = "consumed" THEN "waitWriting" ELSE "detach")
    /\ UNCHANGED <<producerVars, semOf, shmOf, seen, bound, queue, sharedMem>>

ConsumerSemFails(c) ==
    /\ \/ cPc[c] = "waitWriting" /\ ConsumerFails(c, "SEM_CONSUMER", -1)
       \/ cPc[c] = "consumerReset" /\ ConsumerFails(c, "SEM_CONSUMER", 0)
       \/ cPc[c] \in {"consumed", "consumedEnd"} /\ ConsumerFails(c, "SEM_PRODUCER", 1)
    /\ Goto(c, "abort")
    /\ UNCHANGED <<producerVars, semOf, shmOf, seen, bound, queue, sharedMem, semVars>>

\* Detach the segment and exit; the kernel undoes every semop of the process.
ConsumerExit(c) ==
    /\ cPc[c] \in {"detach", "abort"}
    /\ Goto(c, IF cPc[c] = "detach" THEN "done" ELSE "failed")
    /\ semval' = IF semOf[c] = "shared" /\ Live("sem")
                 THEN [s \in Semaphores |-> Undone(semval[s], adjC[c][s])]
                 ELSE semval
    /\ UNCHANGED <<producerVars, semOf, shmOf, seen, bound, queue, sharedMem, adjP, adjC>>

ConsumerStep(c) ==
    \/ OpenQueue(c) \/ OpenShm(c) \/ Register(c) \/ Confirmed(c)
    \/ WaitWriting(c) \/ TestEnd(c) \/ PrintMessage(c) \/ ConsumerReset(c)
    \/ Consumed(c) \/ ConsumerSemFails(c) \/ ConsumerExit(c)

-----------------------------------------------------------------------------
Next ==
    \/ ProducerStep
    \/ \E c \in Consumers : OpenSem(c) \/ ConsumerStep(c)

\* A process that can run does run; nobody has to start a consumer.
Fairness ==
    /\ WF_vars(ProducerStep)
    /\ \A c \in Consumers : WF_vars(ConsumerStep(c))

Spec == Init /\ [][Next]_vars
FairSpec == Spec /\ Fairness

-----------------------------------------------------------------------------
(* Properties. *)

InLoop(c) == cPc[c] \in {"waitWriting", "test", "print", "consumerReset", "consumed"}
AtEnd(c) == cPc[c] \in {"consumedEnd", "detach", "done"}
Exited(c) == cPc[c] \in {"done", "failed"}
LastSeen(c) == seen[c][Len(seen[c])]

ProducerPlaces ==
    {"semget", "msgget", "shmget", "updConsumers", "confirm", "reset", "write",
     "produced", "waitReading", "writeEnd", "producedEnd", "waitEnd",
     "destroyIpc", "abort", "done", "failed"}
ConsumerPlaces ==
    {"semget", "msgget", "shmget", "register", "awaitConfirm", "waitWriting",
     "test", "print", "consumerReset", "consumed", "consumedEnd", "detach",
     "abort", "done", "failed"}

\* Every variable has its type; in particular no semaphore value and no
\* adjustment ever leaves the kernel's range.
TypeOK ==
    /\ pPc \in ProducerPlaces
    /\ countMessages \in 1..MaxMessages
    /\ i \in 0..MaxMessages
    /\ countConsumers \in Nat
    /\ announced \in [consumers : Nat, text : 0..MaxMessages]
    /\ cleanup \in Seq(Objects)
    /\ cPc \in [Consumers -> ConsumerPlaces]
    /\ semOf \in [Consumers -> {"none", "shared", "orphan"}]
    /\ shmOf \in [Consumers -> {"none", "shared", "orphan"}]
    /\ seen \in [Consumers -> Seq(Nat)]
    /\ bound \in [Objects -> {"absent", "shared", "gone", "orphan"}]
    /\ queue \in [MessageTypes -> Nat]
    /\ sharedMem \in 0..MaxMessages
    /\ semval \in [Semaphores -> 0..SEMVMX]
    /\ adjP \in [Semaphores -> SemAdjustments]
    /\ adjC \in [Consumers -> [Semaphores -> SemAdjustments]]

\* While the producer writes the segment (generateMessage, or END_PRODUCE) no
\* consumer is between its token and the end of its reading.
NoOverwrite ==
    pPc \in {"write", "writeEnd"} =>
        \A c \in Consumers : cPc[c] \notin {"test", "print"}

\* The producer removes the objects for good only when as many consumers as
\* it counted have seen the end, and none is left in its loop.
SuccessMeansDelivered ==
    pPc \in {"destroyIpc", "done"} =>
        /\ Cardinality({c \in Consumers : AtEnd(c)}) = countConsumers
        /\ \A c \in Consumers : ~InLoop(c)

\* A confirmed consumer uses the producer's set and segment, although each is
\* opened by key and may be created anew; only an aborting producer, which
\* removes the set before the queue, leaves room for anything else.
ConfirmedSharesObjects ==
    \A c \in Consumers : InLoop(c) /\ pPc \notin {"abort", "failed"} =>
        semOf[c] = "shared" /\ shmOf[c] = "shared"

\* The exit of a consumer undoes its posts to SEM_PRODUCER, the last one too:
\* a producer that is in its last wait when that happens stays there for ever.
FirstExitStrandsProducer ==
    [][ pPc = "waitEnd" /\ (\E c \in Consumers : cPc[c] = "done")
          => pPc' = "waitEnd" ]_vars

\* A consumer has left its loop at the limit of its adjustment: its exit gives all tokens
\* it ever took back, and there are more of them than anybody will take.
LimitMet == \E c \in Consumers :
    cPc[c] \in {"abort", "failed"} /\ adjC[c]["SEM_CONSUMER"] = SEMVMX

\* It took the confirmation of a registration whose owner's producer has aborted, removed
\* the set and not yet the queue, and waits on a set of its own.
Orphaned(c) == pPc \in {"abort", "failed"} /\ cPc[c] = "waitWriting" /\ semOf[c] = "orphan"

\* Every confirmed consumer terminates, also when the producer does not, unless a consumer
\* met the limit or it is orphaned.
ConfirmedTerminates ==
    \A c \in Consumers : cPc[c] = "waitWriting" ~> Exited(c) \/ LimitMet \/ Orphaned(c)

\* With a consumer registered the producer gets through all its messages, unless a
\* consumer met the limit: the only semop it can sleep in for ever otherwise is the last one.
ProducerReachesLastWait ==
    countConsumers > 0 ~> pPc \in {"waitEnd", "done", "failed"} \/ LimitMet

\* Once the producer has exited no consumer keeps waiting, the unconfirmed
\* ones included; but one that is orphaned does.
NobodyOutlivesProducer ==
    pPc \in {"done", "failed"} ~>
        \A c \in Consumers : cPc[c] = "semget" \/ Exited(c) \/ Orphaned(c)

\* How everybody ends: consumers always but for limits and orphans, the producer unless
\* one of them was quicker, whose exit took its token back.
EverybodyEnds ==
    /\ ConfirmedTerminates /\ ProducerReachesLastWait
    /\ NobodyOutlivesProducer /\ FirstExitStrandsProducer

-----------------------------------------------------------------------------
(* Refinement of LockstepBroadcast. *)

Got == {c \in Consumers : seen[c] # << >> /\ LastSeen(c) = announced.text}

Lockstep == INSTANCE LockstepBroadcast WITH
    round <- announced.text,
    seats <- announced.consumers,
    got <- Got,
    log <- seen,
    closed <- announced.text > 0 /\ sharedMem = END_PRODUCE,
    finished <- {c \in Consumers : AtEnd(c)},
    complete <- pPc \in {"destroyIpc", "done"}

\* The program implements the broadcast in rounds: a text goes to as many
\* consumers as the producer announced with it, to those of the round before among
\* them, and is not replaced before all have printed it.
ImplementsLockstep == Lockstep!Spec

-----------------------------------------------------------------------------
(* The inductive invariant behind the safety properties. *)

\* Number of consumers at one of the places ps, by the program counter f.
Count(f, ps) == Cardinality({c \in Consumers : f[c] \in ps})

Waiting   == Count(cPc, {"waitWriting"})
Reading   == Count(cPc, {"test", "print", "consumerReset"})
Through   == Count(cPc, {"consumed"})
Aborting  == Count(cPc, {"abort"})
Leaving   == Count(cPc, {"detach", "done"})
Ending    == Count(cPc, {"waitWriting", "test", "consumedEnd"})
Confirmations == queue["MSG_CONFIRM_REG"]

Unregistered == {"semget", "msgget", "shmget", "register", "awaitConfirm", "failed"}

Before == {"semget", "msgget", "shmget"}
Between == {"updConsumers", "confirm", "reset", "write", "produced",
            "writeEnd", "producedEnd"}
Working == Between \cup {"waitReading", "waitEnd"}

\* The producer's counter, and what the segment holds.
ProgressInv ==
    /\ pPc \in Before => i = 0 /\ countConsumers = 0
    /\ pPc \in {"updConsumers", "confirm", "reset", "write", "produced", "waitReading"}
         => i < countMessages
    /\ pPc \in {"reset", "write", "produced", "waitReading"} => countConsumers > 0
    /\ pPc \in {"writeEnd", "producedEnd", "waitEnd"} =>
         i = countMessages /\ countConsumers > 0
    /\ pPc \in {"produced", "waitReading"} => sharedMem = i + 1
    /\ pPc \in {"producedEnd", "waitEnd"} => sharedMem = END_PRODUCE

\* Until the producer cleans up, the key has only referred to its objects.
ObjectsInv == pPc \in Before \cup Working =>
    /\ \A k \in Objects : bound[k] \in {"absent", "shared"}
    /\ pPc # "semget" => Live("sem")
    /\ pPc \notin {"semget", "msgget"} => Live("queue")
    /\ pPc \in Working => Live("shm")
    /\ \A c \in Consumers :
        /\ cPc[c] \notin {"semget", "failed"} => semOf[c] = "shared" /\ Live("sem")
        /\ cPc[c] \notin {"semget", "msgget", "failed"} => Live("queue")
        /\ cPc[c] \notin {"semget", "msgget", "shmget", "failed"} => shmOf[c] = "shared"

\* A consumer has posted as often as it has taken a token, or once less.
AdjustmentInv == \A c \in Consumers :
    /\ adjC[c]["SEM_CONSUMER"] >= 0 /\ adjC[c]["SEM_PRODUCER"] <= 0
    /\ cPc[c] \in {"test", "print", "consumerReset", "consumed", "consumedEnd"} =>
         adjC[c]["SEM_CONSUMER"] + adjC[c]["SEM_PRODUCER"] = 1
    /\ cPc[c] \in {"semget", "msgget", "shmget", "register", "awaitConfirm",
                   "waitWriting", "detach"} =>
         adjC[c]["SEM_CONSUMER"] + adjC[c]["SEM_PRODUCER"] = 0

\* Between two rounds both semaphores are zero and every consumer waits.
BetweenInv == pPc \in Before \cup Between =>
    /\ semval["SEM_CONSUMER"] = 0 /\ semval["SEM_PRODUCER"] = 0
    /\ \A c \in Consumers : cPc[c] \in Unregistered \cup {"waitWriting"}
    /\ Waiting + Confirmations <= countConsumers
    /\ pPc \in {"writeEnd", "producedEnd"} => Confirmations = 0

\* A round: as long as tokens may be left nobody is through ...
TakingInv ==
    /\ Through = 0 /\ semval["SEM_PRODUCER"] = 0
    /\ semval["SEM_CONSUMER"] >= Waiting + Confirmations + Aborting
    /\ Waiting + Reading + Confirmations <= countConsumers

\* ... and once all are taken, who waits has posted.
PostingInv ==
    /\ Confirmations = 0 /\ Aborting = 0
    /\ semval["SEM_CONSUMER"] = 0 /\ semval["SEM_PRODUCER"] = Waiting
    /\ Waiting + Reading + Through <= countConsumers

RoundInv == pPc = "waitReading" =>
    /\ \A c \in Consumers :
        cPc[c] \in Unregistered \cup {"abort"} \/ InLoop(c)
    /\ countConsumers <= SEMVMX
    /\ TakingInv \/ PostingInv

\* The last round has no wait between taking and posting.
EndInv == pPc = "waitEnd" =>
    /\ \A c \in Consumers : cPc[c] \in Unregistered \cup
        {"waitWriting", "test", "consumedEnd", "detach", "abort", "done"}
    /\ Confirmations = 0
    /\ semval["SEM_PRODUCER"] <= Leaving
    /\ Ending + Leaving <= countConsumers

DestroyInv == pPc \in {"destroyIpc", "done"} =>
    /\ Confirmations = 0
    /\ Leaving = countConsumers
    /\ \A c \in Consumers : ~InLoop(c) /\ cPc[c] # "consumedEnd"

TokenInv ==
    /\ ProgressInv /\ ObjectsInv /\ AdjustmentInv
    /\ BetweenInv /\ RoundInv /\ EndInv /\ DestroyInv

\* The semaphore discipline as a whole, which the theorems of
\* SemBroadcast_proofs show to be inductive.
SemInv == TypeOK /\ TokenInv
=============================================================================
