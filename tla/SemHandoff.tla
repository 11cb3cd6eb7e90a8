----------------------------- MODULE SemHandoff -----------------------------
(***************************************************************************)
(* Task 34: a producer hands COUNT_MESSAGES texts over through one shared  *)
(* memory segment, paced by two semaphores with SEM_UNDO: SEM_CONSUMER is  *)
(* one when a text waits to be taken, SEM_PRODUCER when it was consumed.   *)
(* The program is meant for one consumer; nothing keeps a second one from  *)
(* being started.  A text is its number.                                   *)
(***************************************************************************)
EXTENDS Integers, Sequences, SysVSem

CONSTANTS Consumers,        \* the consumer processes that may be started
          COUNT_MESSAGES    \* texts, and rounds of a consumer (10 in header.h)

\* Adjustments stay inside the kernel's limit: 10 against 32767.
ASSUME CountAssumption == COUNT_MESSAGES \in 1..SEMVMX

Semaphores == {"SEM_PRODUCER", "SEM_CONSUMER"}

VARIABLES
    pPc,            \* where the producer is
    pI,             \* its loop counter
    cleanup,        \* objects it is about to remove, in this order
    cPc, cI,        \* where each consumer is, and its loop counter
    printed,        \* the texts printed so far: who, which
    exists,         \* the objects the key refers to
    sharedMem,      \* the text in the segment, 0 when fresh
    semval,         \* semaphore values
    adjP, adjC      \* SEM_UNDO adjustments

producerVars == <<pPc, pI, cleanup>>
consumerVars == <<cPc, cI, printed>>
semVars == <<semval, adjP, adjC>>
vars == <<producerVars, consumerVars, exists, sharedMem, semVars>>

Init ==
    /\ pPc = "semget" /\ pI = 0 /\ cleanup = << >>
    /\ cPc = [c \in Consumers |-> "semget"]
    /\ cI = [c \in Consumers |-> 0]
    /\ printed = << >>
    /\ exists = {}
    /\ sharedMem = 0
    /\ semval = [s \in Semaphores |-> 0]
    /\ adjP = [s \in Semaphores |-> 0]
    /\ adjC = [c \in Consumers |-> [s \in Semaphores |-> 0]]

-----------------------------------------------------------------------------
(* The kernel: semop by the producer and by a consumer. *)

ProducerSemop(s, op) ==
    /\ Applies(semval[s], adjP[s], op)
    /\ semval' = [semval EXCEPT ![s] = @ + op]
    /\ adjP' = [adjP EXCEPT ![s] = @ - op]
    /\ UNCHANGED adjC

ConsumerSemop(c, s, op) ==
    /\ "sem" \in exists
    /\ Applies(semval[s], adjC[c][s], op)
    /\ semval' = [semval EXCEPT ![s] = @ + op]
    /\ adjC' = [adjC EXCEPT ![c][s] = @ - op]
    /\ UNCHANGED adjP

-----------------------------------------------------------------------------
(* Seeded faults: an action with a plausible slip.  The runs are repeated    *)
(* with each in the place of the action it is named after.                  *)

\* The producer does not wait for the text to be consumed.
WaitReading_NoWait ==
    /\ pPc = "waitReading"
    /\ pI' = pI + 1
    /\ IF pI + 1 < COUNT_MESSAGES
       THEN pPc' = "write" /\ UNCHANGED cleanup
       ELSE pPc' = "remove" /\ cleanup' = <<"shm", "sem">>
    /\ UNCHANGED <<consumerVars, exists, sharedMem, semVars>>

\* The post to the producer forgotten.
Consumed_NoPost(c) ==
    /\ cPc[c] = "consumed"
    /\ cI' = [cI EXCEPT ![c] = @ + 1]
    /\ cPc' = [cPc EXCEPT ![c] = IF cI[c] + 1 < COUNT_MESSAGES THEN "waitWriting" ELSE "detach"]
    /\ UNCHANGED <<producerVars, printed, exists, sharedMem, semVars>>

\* SEM_UNDO forgotten.
ConsumerExit_NoUndo(c) ==
    /\ cPc[c] \in {"detach", "abort"}
    /\ cPc' = [cPc EXCEPT ![c] = IF cPc[c] = "detach" THEN "done" ELSE "failed"]
    /\ UNCHANGED <<producerVars, cI, printed, exists, sharedMem, semVars>>

-----------------------------------------------------------------------------
(* The producer. *)

\* main opens set and segment; out of identifiers, it removes what it has.
OpenSem ==
    /\ pPc = "semget"
    /\ \/ pPc' = "shmget" /\ exists' = exists \cup {"sem"}
       \/ pPc' = "failed" /\ UNCHANGED exists
    /\ UNCHANGED <<pI, cleanup, consumerVars, sharedMem, semVars>>

OpenShm ==
    /\ pPc = "shmget"
    /\ \/ pPc' = "write" /\ exists' = exists \cup {"shm"} /\ UNCHANGED cleanup
       \/ pPc' = "abort" /\ cleanup' = <<"sem">> /\ UNCHANGED exists
    /\ UNCHANGED <<pI, consumerVars, sharedMem, semVars>>

Write ==
    /\ pPc = "write"
    /\ sharedMem' = pI + 1
    /\ pPc' = "produced"
    /\ UNCHANGED <<pI, cleanup, consumerVars, exists, semVars>>

Produced ==
    /\ pPc = "produced"
    /\ ProducerSemop("SEM_CONSUMER", 1)
    /\ pPc' = "waitReading"
    /\ UNCHANGED <<pI, cleanup, consumerVars, exists, sharedMem>>

\* After the last text main removes the segment, then the set.
WaitReading ==
    /\ pPc = "waitReading"
    /\ ProducerSemop("SEM_PRODUCER", -1)
    /\ pI' = pI + 1
    /\ IF pI + 1 < COUNT_MESSAGES
       THEN pPc' = "write" /\ UNCHANGED cleanup
       ELSE pPc' = "remove" /\ cleanup' = <<"shm", "sem">>
    /\ UNCHANGED <<consumerVars, exists, sharedMem>>

RemoveObject ==
    /\ pPc \in {"remove", "abort"} /\ cleanup # << >>
    /\ exists' = exists \ {Head(cleanup)}
    /\ cleanup' = Tail(cleanup)
    /\ UNCHANGED <<pPc, pI, consumerVars, sharedMem, semVars>>

ProducerExit ==
    /\ pPc \in {"remove", "abort"} /\ cleanup = << >>
    /\ pPc' = IF pPc = "abort" THEN "failed" ELSE "done"
    /\ UNCHANGED <<pI, cleanup, consumerVars, exists, sharedMem, semVars>>

ProducerStep ==
    \/ OpenSem \/ OpenShm \/ Write \/ Produced \/ WaitReading
    \/ RemoveObject \/ ProducerExit

-----------------------------------------------------------------------------
(* A consumer. *)

Goto(c, to) == cPc' = [cPc EXCEPT ![c] = to]

\* Without IPC_CREAT: the producer must have been there, and still be.
GetSem(c) ==
    /\ cPc[c] = "semget"
    /\ Goto(c, IF "sem" \in exists THEN "shmget" ELSE "failed")
    /\ UNCHANGED <<producerVars, cI, printed, exists, sharedMem, semVars>>

GetShm(c) ==
    /\ cPc[c] = "shmget"
    /\ Goto(c, IF "shm" \in exists THEN "waitWriting" ELSE "failed")
    /\ UNCHANGED <<producerVars, cI, printed, exists, sharedMem, semVars>>

WaitWriting(c) ==
    /\ cPc[c] = "waitWriting"
    /\ ConsumerSemop(c, "SEM_CONSUMER", -1)
    /\ Goto(c, "print")
    /\ UNCHANGED <<producerVars, cI, printed, exists, sharedMem>>

\* After a second of sleep.
PrintText(c) ==
    /\ cPc[c] = "print"
    /\ printed' = Append(printed, <<c, sharedMem>>)
    /\ Goto(c, "consumed")
    /\ UNCHANGED <<producerVars, cI, exists, sharedMem, semVars>>

Consumed(c) ==
    /\ cPc[c] = "consumed"
    /\ ConsumerSemop(c, "SEM_PRODUCER", 1)
    /\ cI' = [cI EXCEPT ![c] = @ + 1]
    /\ Goto(c, IF cI[c] + 1 < COUNT_MESSAGES THEN "waitWriting" ELSE "detach")
    /\ UNCHANGED <<producerVars, printed, exists, sharedMem>>

\* The set is gone.
SemFails(c) ==
    /\ cPc[c] \in {"waitWriting", "consumed"}
    /\ "sem" \notin exists
    /\ Goto(c, "abort")
    /\ UNCHANGED <<producerVars, cI, printed, exists, sharedMem, semVars>>

\* The exit undoes every semop of the consumer.
ConsumerExit(c) ==
    /\ cPc[c] \in {"detach", "abort"}
    /\ Goto(c, IF cPc[c] = "detach" THEN "done" ELSE "failed")
    /\ semval' = IF "sem" \in exists
                 THEN [s \in Semaphores |-> Undone(semval[s], adjC[c][s])]
                 ELSE semval
    /\ UNCHANGED <<producerVars, cI, printed, exists, sharedMem, adjP, adjC>>

ConsumerStep(c) ==
    \/ GetShm(c) \/ WaitWriting(c) \/ PrintText(c) \/ Consumed(c)
    \/ SemFails(c) \/ ConsumerExit(c)

-----------------------------------------------------------------------------
Next == ProducerStep \/ \E c \in Consumers : GetSem(c) \/ ConsumerStep(c)

Spec == Init /\ [][Next]_vars

\* A process that can run does run; nobody has to start a consumer.
FairSpec ==
    /\ Spec
    /\ WF_vars(ProducerStep)
    /\ \A c \in Consumers : WF_vars(ConsumerStep(c))

-----------------------------------------------------------------------------
(* Properties. *)

Texts == [k \in 1..Len(printed) |-> printed[k][2]]
Exited(c) == cPc[c] \in {"done", "failed"}
NobodyRuns == \A c \in Consumers : cPc[c] = "semget" \/ Exited(c)

\* The segment is not written between the take of a text and its print, however
\* long the consumer sleeps.
NoOverwrite ==
    pPc = "write" => \A c \in Consumers : cPc[c] # "print"

\* As long as no consumer has finished, the texts are printed in order, each by
\* exactly one consumer: a second consumer shares them, it does not see them all.
EachTextOnce ==
    /\ NoOverwrite
    /\ (\A c \in Consumers : cPc[c] # "done") => \A k \in 1..Len(printed) : Texts[k] = k

\* What a consumer prints after another one has finished (whose exit gave its
\* tokens back) is the last text again, never an earlier or a torn one.
OnlyLastTextRepeats ==
    [][ (\E c \in Consumers : cPc[c] = "done") /\ printed' # printed
          => printed'[Len(printed')][2] = COUNT_MESSAGES ]_vars

\* The exit of a consumer takes its posts back: with nobody left who runs, a
\* producer that has not come back from its last wait by then never will.
ExitStrandsProducer ==
    [][ pPc = "waitReading" /\ NobodyRuns /\ (\E c \in Consumers : cPc[c] = "done")
          => pPc' = "waitReading" ]_vars

\* What the tokens given back at an exit can do: they strand the producer, or give
\* the last text to another consumer again.
AfterFirstExit == OnlyLastTextRepeats /\ ExitStrandsProducer

\* A consumer that got hold of the objects terminates.
ConsumersTerminate ==
    \A c \in Consumers : cPc[c] = "waitWriting" ~> Exited(c)
=============================================================================
