------------------------ MODULE SemBroadcast_proofs -------------------------
(***************************************************************************)
(* Proofs about SemBroadcast, for every finite set of consumers, every     *)
(* number of messages and every limit of the kernel.                       *)
(***************************************************************************)
EXTENDS SemBroadcast, FiniteSetTheorems, TLAPS

-----------------------------------------------------------------------------
(* Counting consumers by their place. *)

\* A count is a natural number; it is zero exactly when nobody is there.
LEMMA CountNat ==
    ASSUME NEW f, NEW ps
    PROVE  /\ Count(f, ps) \in Nat
           /\ Count(f, ps) = 0 <=> \A c \in Consumers : f[c] \notin ps
<1> DEFINE S == {c \in Consumers : f[c] \in ps}
<1>1. IsFiniteSet(S)
  BY FS_Subset, ConsumersAssumption
<1>2. Cardinality(S) \in Nat
  BY <1>1, FS_CardinalityType
<1>3. Cardinality(S) = 0 <=> S = {}
  BY <1>1, FS_EmptySet
<1>4. S = {} <=> \A c \in Consumers : f[c] \notin ps
  OBVIOUS
<1> QED
  BY <1>2, <1>3, <1>4 DEF Count

\* One consumer moves: the counts of the places it leaves and enters change by
\* one, unless the same count covers both.
LEMMA CountMove ==
    ASSUME NEW f, NEW g, NEW ps, NEW c \in Consumers,
           \A d \in Consumers : d # c => g[d] = f[d]
    PROVE  /\ f[c] \in ps /\ g[c] \notin ps => Count(g, ps) = Count(f, ps) - 1
           /\ f[c] \notin ps /\ g[c] \in ps => Count(g, ps) = Count(f, ps) + 1
           /\ (f[c] \in ps <=> g[c] \in ps) => Count(g, ps) = Count(f, ps)
<1> DEFINE S == {d \in Consumers : f[d] \in ps}
           T == {d \in Consumers : g[d] \in ps}
<1>1. IsFiniteSet(S) /\ IsFiniteSet(T)
  BY FS_Subset, ConsumersAssumption
<1>2. CASE f[c] \in ps /\ g[c] \notin ps
  <2>1. T = S \ {c}
    BY <1>2
  <2>2. c \in S
    BY <1>2
  <2> QED
    BY <1>1, <1>2, <2>1, <2>2, FS_RemoveElement DEF Count
<1>3. CASE f[c] \notin ps /\ g[c] \in ps
  <2>1. T = S \cup {c}
    BY <1>3
  <2>2. c \notin S
    BY <1>3
  <2> QED
    BY <1>1, <1>3, <2>1, <2>2, FS_AddElement DEF Count
<1>4. CASE f[c] \in ps <=> g[c] \in ps
  <2>1. T = S
    BY <1>4
  <2> QED
    BY <1>4, <2>1 DEF Count
<1> QED
  BY <1>2, <1>3, <1>4

-----------------------------------------------------------------------------
(* Type correctness. *)

\* An applied semop keeps the values and the adjustments of the caller in range.
LEMMA ProducerSemopTyping ==
    ASSUME TypeOK, NEW s \in Semaphores, NEW op \in Int, ProducerApplies(s, op)
    PROVE  /\ semval' \in [Semaphores -> 0..SEMVMX]
           /\ adjP' \in [Semaphores -> SemAdjustments]
           /\ adjC' = adjC
<1>1. semval[s] + op \in 0..SEMVMX /\ adjP[s] - op \in SemAdjustments
  <2>1. semval[s] \in 0..SEMVMX
    BY DEF TypeOK
  <2>2. Applies(semval[s], adjP[s], op)
    BY DEF ProducerApplies
  <2>3. semval[s] + op >= 0
    BY <2>1, <2>2 DEF Applies, Blocks
  <2> QED
    BY <2>1, <2>2, <2>3, SEMVMXAssumption DEF Applies
<1>2. semval \in [Semaphores -> 0..SEMVMX] /\ adjP \in [Semaphores -> SemAdjustments]
  BY DEF TypeOK
<1>3. /\ semval' = [semval EXCEPT ![s] = @ + op] /\ adjP' = [adjP EXCEPT ![s] = @ - op]
      /\ adjC' = adjC
  BY DEF ProducerApplies
<1> QED
  BY <1>1, <1>2, <1>3

\* ... and so does one of a consumer.
LEMMA ConsumerSemopTyping ==
    ASSUME TypeOK, NEW c \in Consumers, NEW s \in Semaphores, NEW op \in Int,
           ConsumerApplies(c, s, op)
    PROVE  /\ semval' \in [Semaphores -> 0..SEMVMX]
           /\ adjC' \in [Consumers -> [Semaphores -> SemAdjustments]]
           /\ adjP' = adjP
<1>1. semval[s] + op \in 0..SEMVMX /\ adjC[c][s] - op \in SemAdjustments
  <2>1. semval[s] \in 0..SEMVMX
    BY DEF TypeOK
  <2>2. Applies(semval[s], adjC[c][s], op)
    BY DEF ConsumerApplies
  <2>3. semval[s] + op >= 0
    BY <2>1, <2>2 DEF Applies, Blocks
  <2> QED
    BY <2>1, <2>2, <2>3, SEMVMXAssumption DEF Applies
<1> QED
  BY <1>1 DEF TypeOK, ConsumerApplies

\* The exit of a process leaves a value in range.
LEMMA UndoneTyping ==
    ASSUME NEW v \in 0..SEMVMX, NEW adj \in Int
    PROVE  Undone(v, adj) \in 0..SEMVMX
BY SEMVMXAssumption DEF Undone

\* The lists of objects to remove.
LEMMA CleanupTyping ==
    /\ << >> \in Seq(Objects) /\ <<"sem">> \in Seq(Objects)
    /\ <<"sem", "queue">> \in Seq(Objects)
    /\ <<"sem", "queue", "shm">> \in Seq(Objects)
    /\ <<"shm", "queue", "sem">> \in Seq(Objects)
BY DEF Objects

\* One call of initIpc keeps the types, whether it opens the object or gives up.
LEMMA InitStepTyping ==
    ASSUME TypeOK, NEW from, NEW k \in Objects, NEW to \in ProducerPlaces, NEW undo \in Seq(Objects),
           InitStep(from, k, to, undo)
    PROVE  TypeOK'
<1>1. Opened(k) \in {"absent", "shared", "gone", "orphan"}
  BY DEF TypeOK, Opened
<1>2. pPc' \in ProducerPlaces /\ cleanup' \in Seq(Objects)
  BY DEF TypeOK, InitStep, Abort, ProducerPlaces
<1>3. bound' \in [Objects -> {"absent", "shared", "gone", "orphan"}]
  BY <1>1 DEF TypeOK, InitStep
<1>4. UNCHANGED <<countMessages, i, countConsumers, announced, consumerVars, queue, sharedMem, semVars>>
  BY DEF InitStep
<1> QED
  BY <1>2, <1>3, <1>4 DEF TypeOK, consumerVars, semVars

\* A consumer's step keeps the type of every variable.
LEMMA ConsumerTyping ==
    ASSUME TypeOK, NEW c \in Consumers, OpenSem(c) \/ ConsumerStep(c)
    PROVE  TypeOK'
<1>1. cPc' \in [Consumers -> ConsumerPlaces]
  BY ZenonT(30) DEF TypeOK, ConsumerPlaces, ConsumerStep, Goto, OpenSem, OpenQueue, OpenShm,
         Register, Confirmed, WaitWriting, TestEnd, PrintMessage, ConsumerReset,
         Consumed, ConsumerSemFails, ConsumerExit
<1>2. producerVars' = producerVars /\ sharedMem' = sharedMem
  BY DEF ConsumerStep, OpenSem, OpenQueue, OpenShm, Register, Confirmed, WaitWriting,
         TestEnd, PrintMessage, ConsumerReset, Consumed, ConsumerSemFails, ConsumerExit
<1> SUFFICES /\ semOf' \in [Consumers -> {"none", "shared", "orphan"}]
             /\ shmOf' \in [Consumers -> {"none", "shared", "orphan"}]
             /\ bound' \in [Objects -> {"absent", "shared", "gone", "orphan"}]
             /\ seen' \in [Consumers -> Seq(Nat)]
             /\ queue' \in [MessageTypes -> Nat]
             /\ semval' \in [Semaphores -> 0..SEMVMX]
             /\ adjP' \in [Semaphores -> SemAdjustments]
             /\ adjC' \in [Consumers -> [Semaphores -> SemAdjustments]]
  BY <1>1, <1>2 DEF TypeOK, producerVars
<1>3. \A k \in Objects : Opened(k) \in {"shared", "orphan"}
  BY DEF TypeOK, Opened
<1>4. CASE OpenSem(c)
  <2>1. Opened("sem") \in {"none", "shared", "orphan"}
    BY <1>3 DEF Objects
  <2>2. semOf' \in [Consumers -> {"none", "shared", "orphan"}]
    BY <1>4, <2>1 DEF OpenSem, TypeOK
  <2>3. bound' \in [Objects -> {"absent", "shared", "gone", "orphan"}]
    BY <1>3, <1>4 DEF OpenSem, TypeOK, Objects
  <2>4. UNCHANGED <<shmOf, seen, queue, semVars>>
    BY <1>4 DEF OpenSem
  <2> QED
    BY <2>2, <2>3, <2>4 DEF TypeOK, semVars
<1>5. CASE OpenShm(c)
  <2>1. Opened("shm") \in {"none", "shared", "orphan"}
    BY <1>3 DEF Objects
  <2>2. shmOf' \in [Consumers -> {"none", "shared", "orphan"}]
    BY <1>5, <2>1 DEF OpenShm, TypeOK
  <2>3. bound' \in [Objects -> {"absent", "shared", "gone", "orphan"}]
    BY <1>3, <1>5 DEF OpenShm, TypeOK, Objects
  <2>4. UNCHANGED <<semOf, seen, queue, semVars>>
    BY <1>5 DEF OpenShm
  <2> QED
    BY <2>2, <2>3, <2>4 DEF TypeOK, semVars
<1>6. CASE Register(c) \/ Confirmed(c)
  BY <1>6 DEF Register, Confirmed, TypeOK, MessageTypes, semVars
<1>7. CASE WaitWriting(c)
  BY <1>7, ConsumerSemopTyping DEF WaitWriting, TypeOK, Semaphores
<1>8. CASE ConsumerReset(c)
  BY <1>8, ConsumerSemopTyping DEF ConsumerReset, TypeOK, Semaphores
<1>9. CASE Consumed(c)
  BY <1>9, ConsumerSemopTyping DEF Consumed, TypeOK, Semaphores
<1>10. CASE PrintMessage(c)
  <2>1. Segment(c) \in Nat
    BY DEF Segment, TypeOK, END_PRODUCE
  <2> QED
    BY <1>10, <2>1 DEF PrintMessage, TypeOK, semVars
<1>11. CASE OpenQueue(c) \/ TestEnd(c) \/ ConsumerSemFails(c)
  BY <1>11 DEF OpenQueue, TestEnd, ConsumerSemFails, TypeOK, semVars
<1>12. CASE ConsumerExit(c)
  <2>1. \A s \in Semaphores : Undone(semval[s], adjC[c][s]) \in 0..SEMVMX
    <3> TAKE s \in Semaphores
    <3>1. semval[s] \in 0..SEMVMX /\ adjC[c][s] \in Int
      BY SEMVMXAssumption DEF TypeOK, SemAdjustments
    <3> QED
      BY <3>1, UndoneTyping
  <2> QED
    BY <1>12, <2>1 DEF ConsumerExit, TypeOK
<1> QED
  BY <1>4, <1>5, <1>6, <1>7, <1>8, <1>9, <1>10, <1>11, <1>12 DEF ConsumerStep

\* Every step keeps the type of every variable.
LEMMA TypingStep == TypeOK /\ TokenInv /\ [Next]_vars => TypeOK'
<1> SUFFICES ASSUME TypeOK, TokenInv, [Next]_vars PROVE TypeOK'
  OBVIOUS
<1> USE MaxMessagesAssumption DEF TypeOK, ProducerPlaces,
        consumerVars, semVars
<1>1. ASSUME InitSem PROVE TypeOK'
  <2> HIDE DEF TypeOK, ProducerPlaces, consumerVars, semVars
  <2>1. "sem" \in Objects /\ "msgget" \in ProducerPlaces
    BY DEF Objects, ProducerPlaces
  <2> QED
    BY <1>1, <2>1, CleanupTyping, InitStepTyping DEF InitSem
<1>2. ASSUME InitQueue PROVE TypeOK'
  <2> HIDE DEF TypeOK, ProducerPlaces, consumerVars, semVars
  <2>1. "queue" \in Objects /\ "shmget" \in ProducerPlaces
    BY DEF Objects, ProducerPlaces
  <2> QED
    BY <1>2, <2>1, CleanupTyping, InitStepTyping DEF InitQueue
<1>3. ASSUME InitShm PROVE TypeOK'
  <2> HIDE DEF TypeOK, ProducerPlaces, consumerVars, semVars
  <2>1. "shm" \in Objects /\ "updConsumers" \in ProducerPlaces
    BY DEF Objects, ProducerPlaces
  <2> QED
    BY <1>3, <2>1, CleanupTyping, InitStepTyping DEF InitShm
<1>4. ASSUME TakeReg PROVE TypeOK'
  BY <1>4 DEF TakeReg, MessageTypes
<1>5. ASSUME Confirm PROVE TypeOK'
  BY <1>5 DEF Confirm, MessageTypes
<1>6. ASSUME UpdDone PROVE TypeOK'
  BY <1>6 DEF UpdDone
<1>7. ASSUME Reset PROVE TypeOK'
  BY ProducerSemopTyping, <1>7 DEF Reset, Semaphores
<1>8. ASSUME WriteMessage PROVE TypeOK'
  BY <1>8 DEF WriteMessage, ProgressInv, TokenInv
<1>9. ASSUME Produced PROVE TypeOK'
  BY ProducerSemopTyping, <1>9 DEF Produced, Semaphores
<1>10. ASSUME WaitReading PROVE TypeOK'
  BY ProducerSemopTyping, <1>10 DEF WaitReading, ProgressInv, TokenInv, Semaphores
<1>11. ASSUME WriteEnd PROVE TypeOK'
  BY <1>11 DEF WriteEnd, END_PRODUCE
<1>12. ASSUME ProducedEnd PROVE TypeOK'
  BY ProducerSemopTyping, <1>12 DEF ProducedEnd, Semaphores
<1>13. ASSUME WaitEnd PROVE TypeOK'
  BY CleanupTyping, ProducerSemopTyping, <1>13 DEF WaitEnd, Objects, Semaphores
<1>14. ASSUME ProducerSemFails PROVE TypeOK'
  BY CleanupTyping, <1>14 DEF ProducerSemFails, Abort, Objects
<1>15. ASSUME RemoveObject PROVE TypeOK'
  BY <1>15 DEF RemoveObject, Remove, Objects
<1>16. ASSUME ProducerExit PROVE TypeOK'
  BY <1>16 DEF ProducerExit
<1>17. ASSUME NEW c \in Consumers, OpenSem(c) \/ ConsumerStep(c) PROVE TypeOK'
  BY <1>17, ConsumerTyping
<1>18. ASSUME UNCHANGED vars PROVE TypeOK'
  BY <1>18 DEF vars, producerVars
<1> QED
  BY <1>1, <1>2, <1>3, <1>4, <1>5, <1>6, <1>7, <1>8, <1>9, <1>10, <1>11, <1>12, <1>13, <1>14, <1>15, <1>16, <1>17, <1>18 DEF Next, ProducerStep

-----------------------------------------------------------------------------
(* The token invariant: steps of a consumer. *)

\* The counts are natural numbers ...
LEMMA CountsNat ==
    /\ Waiting \in Nat /\ Reading \in Nat /\ Through \in Nat
    /\ Aborting \in Nat /\ Leaving \in Nat /\ Ending \in Nat
BY CountNat DEF Waiting, Reading, Through, Aborting, Leaving, Ending

\* ... and zero when nobody is there.
LEMMA CountsZero ==
    /\ Waiting = 0 <=> \A c \in Consumers : cPc[c] # "waitWriting"
    /\ Reading = 0 <=> \A c \in Consumers : cPc[c] \notin {"test", "print", "consumerReset"}
    /\ Through = 0 <=> \A c \in Consumers : cPc[c] # "consumed"
    /\ Aborting = 0 <=> \A c \in Consumers : cPc[c] # "abort"
    /\ Leaving = 0 <=> \A c \in Consumers : cPc[c] \notin {"detach", "done"}
    /\ Ending = 0 <=> \A c \in Consumers : cPc[c] \notin {"waitWriting", "test", "consumedEnd"}
BY CountNat DEF Waiting, Reading, Through, Aborting, Leaving, Ending

\* A step of a consumer moves no other one, and no producer.
LEMMA ConsumerMoves ==
    ASSUME TypeOK, NEW c \in Consumers, OpenSem(c) \/ ConsumerStep(c)
    PROVE  /\ \A d \in Consumers : d # c => cPc'[d] = cPc[d]
           /\ UNCHANGED <<producerVars, sharedMem>>
BY DEF TypeOK, Goto, ConsumerStep, OpenSem, OpenQueue, OpenShm, Register,
       Confirmed, WaitWriting, TestEnd, PrintMessage, ConsumerReset, Consumed,
       ConsumerSemFails, ConsumerExit

\* 1 at a place of the set, 0 elsewhere.
Is(place, ps) == IF place \in ps THEN 1 ELSE 0

\* The counts follow a consumer from place to place.
LEMMA CountsMove ==
    ASSUME NEW c \in Consumers, \A d \in Consumers : d # c => cPc'[d] = cPc[d]
    PROVE  /\ Waiting' = Waiting - Is(cPc[c], {"waitWriting"}) + Is(cPc'[c], {"waitWriting"})
           /\ Reading' = Reading - Is(cPc[c], {"test", "print", "consumerReset"})
                                 + Is(cPc'[c], {"test", "print", "consumerReset"})
           /\ Through' = Through - Is(cPc[c], {"consumed"}) + Is(cPc'[c], {"consumed"})
           /\ Aborting' = Aborting - Is(cPc[c], {"abort"}) + Is(cPc'[c], {"abort"})
           /\ Leaving' = Leaving - Is(cPc[c], {"detach", "done"})
                                 + Is(cPc'[c], {"detach", "done"})
           /\ Ending' = Ending - Is(cPc[c], {"waitWriting", "test", "consumedEnd"})
                               + Is(cPc'[c], {"waitWriting", "test", "consumedEnd"})
<1>1. ASSUME NEW ps
      PROVE  Count(cPc', ps) = Count(cPc, ps) - Is(cPc[c], ps) + Is(cPc'[c], ps)
  <2>1. Count(cPc, ps) \in Nat
    BY CountNat
  <2>2. /\ cPc[c] \in ps /\ cPc'[c] \notin ps => Count(cPc', ps) = Count(cPc, ps) - 1
        /\ cPc[c] \notin ps /\ cPc'[c] \in ps => Count(cPc', ps) = Count(cPc, ps) + 1
        /\ (cPc[c] \in ps <=> cPc'[c] \in ps) => Count(cPc', ps) = Count(cPc, ps)
    BY CountMove
  <2> QED
    BY <2>1, <2>2 DEF Is
<1> QED
  BY <1>1 DEF Waiting, Reading, Through, Aborting, Leaving, Ending

\* Consumers do not touch what ProgressInv is about.
LEMMA ConsumerProgress ==
    ASSUME ProgressInv, NEW c \in Consumers, OpenSem(c) \/ ConsumerStep(c)
    PROVE  ProgressInv'
BY DEF ProgressInv, producerVars, ConsumerStep, OpenSem, OpenQueue, OpenShm, Register,
       Confirmed, WaitWriting, TestEnd, PrintMessage, ConsumerReset, Consumed,
       ConsumerSemFails, ConsumerExit

\* Opening by key finds the producer's objects as long as they are there.
LEMMA ConsumerObjects ==
    ASSUME TypeOK, ObjectsInv, NEW c \in Consumers, OpenSem(c) \/ ConsumerStep(c)
    PROVE  ObjectsInv'
<1> SUFFICES ASSUME pPc \in Before \cup Working PROVE ObjectsInv'
  BY DEF ObjectsInv, producerVars, ConsumerStep, OpenSem, OpenQueue, OpenShm, Register,
         Confirmed, WaitWriting, TestEnd, PrintMessage, ConsumerReset, Consumed,
         ConsumerSemFails, ConsumerExit
<1>1. pPc' = pPc
  BY DEF producerVars, ConsumerStep, OpenSem, OpenQueue, OpenShm, Register,
         Confirmed, WaitWriting, TestEnd, PrintMessage, ConsumerReset, Consumed,
         ConsumerSemFails, ConsumerExit
<1>2. \A k \in Objects : bound[k] \in {"absent", "shared"} /\ Opened(k) = "shared"
  BY DEF ObjectsInv, Opened
<1>3. /\ cPc \in [Consumers -> ConsumerPlaces]
      /\ semOf \in [Consumers -> {"none", "shared", "orphan"}]
      /\ shmOf \in [Consumers -> {"none", "shared", "orphan"}]
      /\ bound \in [Objects -> {"absent", "shared", "gone", "orphan"}]
  BY DEF TypeOK
<1>4. CASE OpenSem(c)
  <2>1. \/ UNCHANGED <<bound, semOf>> /\ cPc'[c] = "failed"
        \/ /\ bound' = [bound EXCEPT !["sem"] = "shared"]
           /\ semOf' = [semOf EXCEPT ![c] = "shared"]
           /\ cPc'[c] = "msgget"
    BY <1>2, <1>3, <1>4 DEF OpenSem, Goto, Objects
  <2>2. shmOf' = shmOf /\ \A d \in Consumers \ {c} : cPc'[d] = cPc[d]
    BY <1>3, <1>4 DEF OpenSem, Goto
  <2>3. \A k \in Objects : bound'[k] \in {"absent", "shared"} /\ (Live(k) => Live(k)')
    BY <1>2, <1>3, <2>1 DEF Live
  <2>4. \A d \in Consumers :
          /\ cPc'[d] \notin {"semget", "failed"} => semOf'[d] = "shared" /\ Live("sem")'
          /\ cPc'[d] \notin {"semget", "msgget", "failed"} => Live("queue")'
          /\ cPc'[d] \notin {"semget", "msgget", "shmget", "failed"} => shmOf'[d] = "shared"
    <3>1. \A k \in {"sem", "queue"} : Live(k) => Live(k)'
      BY <2>3 DEF Objects
    <3>2. CASE UNCHANGED <<bound, semOf>> /\ cPc'[c] = "failed"
      BY <1>3, <2>2, <3>1, <3>2 DEF ObjectsInv
    <3>3. CASE /\ bound' = [bound EXCEPT !["sem"] = "shared"]
               /\ semOf' = [semOf EXCEPT ![c] = "shared"] /\ cPc'[c] = "msgget"
      <4>1. Live("sem")'
        BY <1>3, <3>3 DEF Live, Objects
      <4> QED
        BY <1>3, <2>2, <3>1, <3>3, <4>1 DEF ObjectsInv
    <3> QED
      BY <2>1, <3>2, <3>3
  <2> QED
    BY <1>1, <2>3, <2>4 DEF ObjectsInv, Objects
<1>5. CASE OpenShm(c)
  <2>1. \/ UNCHANGED <<bound, shmOf>> /\ cPc'[c] = "failed"
        \/ /\ bound' = [bound EXCEPT !["shm"] = "shared"]
           /\ shmOf' = [shmOf EXCEPT ![c] = "shared"]
           /\ cPc'[c] = "register"
    BY <1>2, <1>3, <1>5 DEF OpenShm, Goto, Objects
  <2>2. /\ semOf' = semOf /\ cPc[c] = "shmget"
        /\ \A d \in Consumers \ {c} : cPc'[d] = cPc[d]
    BY <1>3, <1>5 DEF OpenShm, Goto
  <2>3. \A k \in Objects : bound'[k] \in {"absent", "shared"} /\ (Live(k) => Live(k)')
    BY <1>2, <1>3, <2>1 DEF Live
  <2>4. \A d \in Consumers :
          /\ cPc'[d] \notin {"semget", "failed"} => semOf'[d] = "shared" /\ Live("sem")'
          /\ cPc'[d] \notin {"semget", "msgget", "failed"} => Live("queue")'
          /\ cPc'[d] \notin {"semget", "msgget", "shmget", "failed"} => shmOf'[d] = "shared"
    <3>1. semOf[c] = "shared" /\ Live("sem") /\ Live("queue")
      BY <2>2 DEF ObjectsInv
    <3>2. Live("sem")' /\ Live("queue")'
      BY <2>3, <3>1 DEF Objects
    <3>3. CASE UNCHANGED <<bound, shmOf>> /\ cPc'[c] = "failed"
      BY <1>3, <2>2, <3>1, <3>2, <3>3 DEF ObjectsInv
    <3>4. CASE shmOf' = [shmOf EXCEPT ![c] = "shared"] /\ cPc'[c] = "register"
      BY <1>3, <2>2, <3>1, <3>2, <3>4 DEF ObjectsInv
    <3> QED
      BY <2>1, <3>3, <3>4
  <2> QED
    BY <1>1, <2>3, <2>4 DEF ObjectsInv, Objects
<1>6. CASE OpenQueue(c)
  BY <1>1, <1>3, <1>6 DEF OpenQueue, Goto, ObjectsInv, Live
<1>7. CASE ConsumerStep(c) /\ ~OpenShm(c) /\ ~OpenQueue(c)
  <2>1. UNCHANGED <<semOf, shmOf, bound>>
    BY <1>7 DEF ConsumerStep, Register, Confirmed, WaitWriting, TestEnd, PrintMessage,
                ConsumerReset, Consumed, ConsumerSemFails, ConsumerExit
  <2>2. /\ cPc[c] \notin {"semget", "msgget", "shmget", "failed"}
        /\ \A d \in Consumers : d # c => cPc'[d] = cPc[d]
    BY <1>3, <1>7 DEF ConsumerStep, Register, Confirmed, WaitWriting, TestEnd, PrintMessage,
                ConsumerReset, Consumed, ConsumerSemFails, ConsumerExit, Goto
  <2> QED
    BY <1>1, <2>1, <2>2 DEF ObjectsInv, Live
<1> QED
  BY <1>4, <1>5, <1>6, <1>7

\* Takes and posts keep step.
LEMMA ConsumerAdjustments ==
    ASSUME TypeOK, AdjustmentInv, NEW c \in Consumers, OpenSem(c) \/ ConsumerStep(c)
    PROVE  AdjustmentInv'
<1>1. /\ cPc \in [Consumers -> ConsumerPlaces]
      /\ adjC \in [Consumers -> [Semaphores -> SemAdjustments]]
      /\ \A d \in Consumers, s \in Semaphores : adjC[d][s] \in Int
  BY SEMVMXAssumption DEF TypeOK, SemAdjustments
<1>2. \A d \in Consumers : d # c => cPc'[d] = cPc[d] /\ adjC'[d] = adjC[d]
  BY <1>1 DEF ConsumerStep, OpenSem, OpenQueue, OpenShm, Register, Confirmed,
         WaitWriting, TestEnd, PrintMessage, ConsumerReset, Consumed,
         ConsumerSemFails, ConsumerExit, Goto, ConsumerApplies, semVars
<1> SUFFICES
      /\ adjC'[c]["SEM_CONSUMER"] >= 0 /\ adjC'[c]["SEM_PRODUCER"] <= 0
      /\ cPc'[c] \in {"test", "print", "consumerReset", "consumed", "consumedEnd"} =>
           adjC'[c]["SEM_CONSUMER"] + adjC'[c]["SEM_PRODUCER"] = 1
      /\ cPc'[c] \in {"semget", "msgget", "shmget", "register", "awaitConfirm",
                      "waitWriting", "detach"} =>
           adjC'[c]["SEM_CONSUMER"] + adjC'[c]["SEM_PRODUCER"] = 0
  BY <1>2 DEF AdjustmentInv
<1>3. CASE WaitWriting(c)
  <2>1. /\ cPc[c] = "waitWriting" /\ cPc'[c] = "test"
        /\ adjC'[c]["SEM_CONSUMER"] = adjC[c]["SEM_CONSUMER"] + 1
        /\ adjC'[c]["SEM_PRODUCER"] = adjC[c]["SEM_PRODUCER"]
    BY <1>1, <1>3 DEF WaitWriting, Goto, ConsumerApplies, Semaphores
  <2> QED
    BY <1>1, <2>1 DEF AdjustmentInv, Semaphores
<1>4. CASE Consumed(c)
  <2>1. /\ cPc[c] \in {"consumed", "consumedEnd"}
        /\ cPc'[c] \in {"waitWriting", "detach"}
        /\ adjC'[c]["SEM_CONSUMER"] = adjC[c]["SEM_CONSUMER"]
        /\ adjC'[c]["SEM_PRODUCER"] = adjC[c]["SEM_PRODUCER"] - 1
    BY <1>1, <1>4 DEF Consumed, Goto, ConsumerApplies, Semaphores
  <2> QED
    BY <1>1, <2>1 DEF AdjustmentInv, Semaphores
<1>5. CASE ConsumerReset(c)
  <2>1. /\ cPc[c] = "consumerReset" /\ cPc'[c] = "consumed"
        /\ adjC'[c]["SEM_CONSUMER"] = adjC[c]["SEM_CONSUMER"]
        /\ adjC'[c]["SEM_PRODUCER"] = adjC[c]["SEM_PRODUCER"]
    BY <1>1, <1>5 DEF ConsumerReset, Goto, ConsumerApplies, Semaphores
  <2> QED
    BY <1>1, <2>1 DEF AdjustmentInv
<1>6. CASE OpenSem(c) \/ (ConsumerStep(c) /\ ~WaitWriting(c) /\ ~Consumed(c) /\ ~ConsumerReset(c))
  <2>1. adjC' = adjC
    BY <1>6 DEF ConsumerStep, OpenSem, OpenQueue, OpenShm, Register, Confirmed, TestEnd,
                PrintMessage, ConsumerSemFails, ConsumerExit, semVars
  <2>2. \/ cPc'[c] \in {"abort", "done", "failed"}
        \/ /\ cPc'[c] \in {"msgget", "shmget", "register", "awaitConfirm", "waitWriting"}
           /\ cPc[c] \in {"semget", "msgget", "shmget", "register", "awaitConfirm"}
        \/ cPc'[c] \in {"print", "consumedEnd", "consumerReset"} /\ cPc[c] \in {"test", "print"}
    BY <1>1, <1>6 DEF ConsumerStep, OpenSem, OpenQueue, OpenShm, Register, Confirmed,
                TestEnd, PrintMessage, ConsumerSemFails, ConsumerExit, Goto
  <2> QED
    BY <1>1, <2>1, <2>2 DEF AdjustmentInv
<1> QED
  BY <1>3, <1>4, <1>5, <1>6

\* Between two rounds a consumer can only register; its first operation sleeps.
LEMMA ConsumerBetween ==
    ASSUME TypeOK, ObjectsInv, BetweenInv,
           NEW c \in Consumers, OpenSem(c) \/ ConsumerStep(c)
    PROVE  BetweenInv'
<1> USE DEF Unregistered
<1>1. pPc' = pPc /\ countConsumers' = countConsumers
  BY ConsumerMoves DEF producerVars
<1> SUFFICES ASSUME pPc \in Before \cup Between PROVE BetweenInv'
  BY <1>1 DEF BetweenInv
<1>2. /\ cPc \in [Consumers -> ConsumerPlaces] /\ cPc[c] \in Unregistered \cup {"waitWriting"}
      /\ semval["SEM_CONSUMER"] = 0 /\ semval["SEM_PRODUCER"] = 0
      /\ Waiting \in Nat /\ Confirmations \in Nat /\ countConsumers \in Nat
      /\ Waiting + Confirmations <= countConsumers
  BY CountsNat DEF BetweenInv, TypeOK, Confirmations, MessageTypes
<1>3. ~WaitWriting(c) /\ ~ConsumerSemFails(c)
  <2>1. Blocks(semval["SEM_CONSUMER"], -1)
    BY <1>2 DEF Blocks
  <2>2. cPc[c] = "waitWriting" => semOf[c] = "shared" /\ Live("sem")
    BY DEF ObjectsInv, Before, Working
  <2> QED
    BY <1>2, <2>1, <2>2 DEF WaitWriting, ConsumerApplies, Applies, ConsumerSemFails,
                            ConsumerFails, OutOfRange
<1>4. CASE OpenSem(c) \/ OpenQueue(c) \/ OpenShm(c) \/ Register(c)
  <2>1. cPc[c] \in Unregistered /\ cPc'[c] \in Unregistered
    BY <1>2, <1>4 DEF OpenSem, OpenQueue, OpenShm, Register, Goto, ObjectsInv, Before,
                      Working, Live
  <2>2. Waiting' = Waiting
    BY <1>2, <2>1, CountsMove, ConsumerMoves DEF Is
  <2>3. Confirmations' = Confirmations /\ semval' = semval
    BY <1>4 DEF OpenSem, OpenQueue, OpenShm, Register, Confirmations, semVars, TypeOK,
                MessageTypes
  <2> QED
    BY <1>1, <1>2, <2>1, <2>2, <2>3, ConsumerMoves DEF BetweenInv
<1>5. CASE Confirmed(c)
  <2>1. Live("queue")
    BY <1>5 DEF Confirmed, ObjectsInv, Before, Working
  <2>2. /\ cPc[c] = "awaitConfirm" /\ cPc'[c] = "waitWriting"
        /\ Confirmations > 0 /\ Confirmations' = Confirmations - 1 /\ semval' = semval
    BY <1>2, <1>5, <2>1 DEF Confirmed, Goto, Confirmations, TypeOK, MessageTypes, semVars
  <2>3. Waiting' = Waiting + 1
    BY <1>2, <2>2, CountsMove, ConsumerMoves DEF Is
  <2> QED
    BY <1>1, <1>2, <2>2, <2>3, ConsumerMoves DEF BetweenInv
<1> QED
  BY <1>2, <1>3, <1>4, <1>5 DEF ConsumerStep, TestEnd, PrintMessage, ConsumerReset,
       Consumed, ConsumerExit

\* A round: tokens are taken while any is left, posts follow when none is.
LEMMA ConsumerRound ==
    ASSUME TypeOK, ProgressInv, ObjectsInv, AdjustmentInv, RoundInv,
           NEW c \in Consumers, OpenSem(c) \/ ConsumerStep(c)
    PROVE  RoundInv'
<1> USE DEF Unregistered, InLoop
<1>1. pPc' = pPc /\ countConsumers' = countConsumers
  BY ConsumerMoves DEF producerVars
<1> SUFFICES ASSUME pPc = "waitReading" PROVE RoundInv'
  BY <1>1 DEF RoundInv
<1>2. /\ cPc \in [Consumers -> ConsumerPlaces]
      /\ cPc[c] \in Unregistered \cup {"abort"} \/ InLoop(c)
      /\ countConsumers <= SEMVMX
      /\ TakingInv \/ PostingInv
      /\ countConsumers \in Nat /\ Confirmations \in Nat
      /\ semval["SEM_CONSUMER"] \in 0..SEMVMX /\ semval["SEM_PRODUCER"] \in 0..SEMVMX
      /\ \A s \in Semaphores : adjC[c][s] \in SemAdjustments /\ adjC[c][s] \in Int
      /\ semval \in [Semaphores -> 0..SEMVMX]
  <2>1. /\ cPc[c] \in Unregistered \cup {"abort"} \/ InLoop(c)
        /\ countConsumers <= SEMVMX
        /\ TakingInv \/ PostingInv
    BY DEF RoundInv
  <2>2. cPc \in [Consumers -> ConsumerPlaces] /\ countConsumers \in Nat
    BY DEF TypeOK
  <2>3. Confirmations \in Nat
    BY DEF TypeOK, Confirmations, MessageTypes
  <2>4. /\ semval["SEM_CONSUMER"] \in 0..SEMVMX /\ semval["SEM_PRODUCER"] \in 0..SEMVMX
        /\ semval \in [Semaphores -> 0..SEMVMX]
    BY DEF TypeOK, Semaphores
  <2>5. \A s \in Semaphores : adjC[c][s] \in SemAdjustments /\ adjC[c][s] \in Int
    BY SEMVMXAssumption DEF TypeOK, SemAdjustments
  <2> QED
    BY <2>1, <2>2, <2>3, <2>4, <2>5
<1>3. /\ Live("sem") /\ Live("queue")
      /\ cPc[c] \notin {"semget", "failed"} => semOf[c] = "shared"
      /\ InLoop(c) => shmOf[c] = "shared"
      /\ InLoop(c) => Segment(c) # END_PRODUCE
  <2>1. /\ Live("sem") /\ Live("queue")
        /\ cPc[c] \notin {"semget", "failed"} => semOf[c] = "shared"
        /\ InLoop(c) => shmOf[c] = "shared"
    BY DEF ObjectsInv, Working
  <2>2. sharedMem = i + 1 /\ i \in 0..MaxMessages
    BY DEF ProgressInv, TypeOK
  <2>3. sharedMem # END_PRODUCE
    BY <2>2, MaxMessagesAssumption DEF END_PRODUCE
  <2> QED
    BY <2>1, <2>3 DEF Segment
<1>4. \A d \in Consumers : d # c => cPc'[d] = cPc[d]
  BY ConsumerMoves
<1>5. SUFFICES /\ cPc'[c] \in Unregistered \cup {"abort"} \/ InLoop(c)'
               /\ TakingInv' \/ PostingInv'
  BY <1>1, <1>2, <1>4 DEF RoundInv
<1>6. CASE OpenSem(c) \/ OpenQueue(c) \/ OpenShm(c) \/ Register(c)
  <2>1. cPc[c] \in Unregistered /\ cPc'[c] \in Unregistered
    BY <1>2, <1>3, <1>6 DEF OpenSem, OpenQueue, OpenShm, Register, Goto
  <2>2. /\ Waiting' = Waiting /\ Reading' = Reading /\ Through' = Through
        /\ Aborting' = Aborting
    BY <2>1, <1>4, CountsMove, CountsNat DEF Is
  <2>3. Confirmations' = Confirmations /\ semval' = semval
    BY <1>6 DEF OpenSem, OpenQueue, OpenShm, Register, Confirmations, semVars, TypeOK,
                MessageTypes
  <2> QED
    BY <1>1, <1>2, <2>1, <2>2, <2>3 DEF TakingInv, PostingInv
<1>7. CASE Confirmed(c)
  <2>1. /\ cPc[c] = "awaitConfirm" /\ cPc'[c] = "waitWriting"
        /\ Confirmations > 0 /\ Confirmations' = Confirmations - 1 /\ semval' = semval
    BY <1>2, <1>3, <1>7 DEF Confirmed, Goto, Confirmations, TypeOK, MessageTypes, semVars
  <2>2. /\ Waiting' = Waiting + 1 /\ Reading' = Reading /\ Through' = Through
        /\ Aborting' = Aborting
    BY <2>1, <1>4, CountsMove, CountsNat DEF Is
  <2> QED
    BY <1>1, <1>2, <2>1, <2>2, CountsNat DEF TakingInv, PostingInv
<1>8. CASE WaitWriting(c)
  <2>1. /\ cPc[c] = "waitWriting" /\ cPc'[c] = "test" /\ Confirmations' = Confirmations
        /\ semval["SEM_CONSUMER"] > 0
        /\ semval'["SEM_CONSUMER"] = semval["SEM_CONSUMER"] - 1
        /\ semval'["SEM_PRODUCER"] = semval["SEM_PRODUCER"]
    BY <1>2, <1>8 DEF WaitWriting, Goto, ConsumerApplies, Applies, Blocks, Semaphores,
                      Confirmations
  <2>2. /\ Waiting' = Waiting - 1 /\ Reading' = Reading + 1 /\ Through' = Through
        /\ Aborting' = Aborting
    BY <2>1, <1>4, CountsMove, CountsNat DEF Is
  <2> QED
    BY <1>1, <1>2, <2>1, <2>2, CountsNat DEF TakingInv, PostingInv
<1>9. CASE TestEnd(c) \/ PrintMessage(c)
  <2>1. /\ cPc[c] \in {"test", "print"} /\ cPc'[c] \in {"print", "consumerReset"}
        /\ Confirmations' = Confirmations /\ semval' = semval
    BY <1>2, <1>3, <1>9 DEF TestEnd, PrintMessage, Goto, Confirmations, semVars
  <2>2. /\ Waiting' = Waiting /\ Reading' = Reading /\ Through' = Through
        /\ Aborting' = Aborting
    BY <2>1, <1>4, CountsMove, CountsNat DEF Is
  <2> QED
    BY <1>1, <1>2, <2>1, <2>2 DEF TakingInv, PostingInv
<1>10. CASE ConsumerReset(c)
  <2>1. /\ cPc[c] = "consumerReset" /\ cPc'[c] = "consumed" /\ Confirmations' = Confirmations
        /\ semval["SEM_CONSUMER"] = 0 /\ semval' = semval
    BY <1>2, <1>10 DEF ConsumerReset, Goto, ConsumerApplies, Applies, Blocks, Semaphores,
                       Confirmations
  <2>2. /\ Waiting' = Waiting /\ Reading' = Reading - 1 /\ Through' = Through + 1
        /\ Aborting' = Aborting
    BY <2>1, <1>4, CountsMove, CountsNat DEF Is
  <2>3. PostingInv'
    BY <1>1, <1>2, <2>1, <2>2, CountsNat DEF TakingInv, PostingInv
  <2> QED
    BY <2>1, <2>3
<1>11. CASE Consumed(c)
  <2>1. cPc[c] = "consumed"
    BY <1>2, <1>11 DEF Consumed
  <2>2. /\ cPc'[c] = "waitWriting" /\ Confirmations' = Confirmations
        /\ semval'["SEM_PRODUCER"] = semval["SEM_PRODUCER"] + 1
        /\ semval'["SEM_CONSUMER"] = semval["SEM_CONSUMER"]
    BY <1>2, <1>11, <2>1 DEF Consumed, Goto, ConsumerApplies, Semaphores, Confirmations
  <2>3. PostingInv
    BY <1>2, <2>1, CountsNat, CountsZero DEF TakingInv
  <2>4. /\ Waiting' = Waiting + 1 /\ Reading' = Reading /\ Through' = Through - 1
        /\ Aborting' = Aborting
    BY <2>1, <2>2, <1>4, CountsMove, CountsNat DEF Is
  <2>5. PostingInv'
    BY <1>1, <1>2, <2>2, <2>3, <2>4, CountsNat DEF PostingInv
  <2> QED
    BY <2>2, <2>5
<1>12. CASE ConsumerSemFails(c)
  \* Only the take can fail: with a full adjustment, and a token left.
  <2>1. /\ semval' = semval /\ Confirmations' = Confirmations /\ cPc'[c] = "abort"
        /\ cPc[c] \in {"waitWriting", "consumerReset", "consumed"}
    BY <1>2, <1>12 DEF ConsumerSemFails, Goto, semVars, Confirmations
  <2>2. cPc[c] # "consumerReset"
    BY <1>2, <1>3, <1>12, SEMVMXAssumption
       DEF ConsumerSemFails, ConsumerFails, OutOfRange, Applies, Blocks, Semaphores
  <2>3. ASSUME cPc[c] = "consumed" PROVE FALSE
    <3>1. PostingInv /\ Through > 0
      BY <1>2, <2>3, CountsNat, CountsZero DEF TakingInv
    <3>2. semval["SEM_PRODUCER"] + 1 <= SEMVMX
      BY <1>2, <3>1, CountsNat, SEMVMXAssumption DEF PostingInv
    <3>3. adjC[c]["SEM_PRODUCER"] - 1 \in SemAdjustments
      BY <1>2, <2>3, SEMVMXAssumption DEF AdjustmentInv, SemAdjustments, Semaphores
    <3> QED
      BY <1>2, <1>3, <1>12, <2>3, <3>2, <3>3
         DEF ConsumerSemFails, ConsumerFails, OutOfRange, Applies, Blocks, Semaphores
  <2>4. cPc[c] = "waitWriting"
    BY <2>1, <2>2, <2>3
  <2>5. semval["SEM_CONSUMER"] > 0
    BY <1>2, <1>3, <1>12, <2>4
       DEF ConsumerSemFails, ConsumerFails, OutOfRange, Blocks, Semaphores
  <2>6. TakingInv
    BY <1>2, <2>5 DEF PostingInv
  <2>7. /\ Waiting' = Waiting - 1 /\ Reading' = Reading /\ Through' = Through
        /\ Aborting' = Aborting + 1
    BY <2>1, <2>4, <1>4, CountsMove, CountsNat DEF Is
  <2>8. TakingInv'
    BY <1>1, <1>2, <2>1, <2>6, <2>7, CountsNat DEF TakingInv
  <2> QED
    BY <2>1, <2>8
<1>13. CASE ConsumerExit(c)
  \* A process that failed gives its takes back: tokens only become more.
  <2>1. /\ cPc[c] = "abort" /\ cPc'[c] = "failed" /\ Confirmations' = Confirmations
        /\ semval' = [s \in Semaphores |-> Undone(semval[s], adjC[c][s])]
    BY <1>2, <1>3, <1>13 DEF ConsumerExit, Goto, Confirmations
  <2>2. TakingInv
    BY <1>2, <2>1, CountsNat, CountsZero DEF PostingInv
  <2>3. /\ semval'["SEM_CONSUMER"] >= semval["SEM_CONSUMER"]
        /\ semval'["SEM_PRODUCER"] = 0
    BY <1>2, <2>1, <2>2, SEMVMXAssumption DEF Undone, AdjustmentInv, Semaphores, TakingInv
  <2>4. semval'["SEM_CONSUMER"] \in Int
    BY <1>2, <2>1, UndoneTyping, SEMVMXAssumption DEF Semaphores, Undone
  <2>5. /\ Waiting' = Waiting /\ Reading' = Reading /\ Through' = Through
        /\ Aborting' = Aborting - 1
    BY <2>1, <1>4, CountsMove, CountsNat DEF Is
  <2>6. TakingInv'
    BY <1>1, <1>2, <2>1, <2>2, <2>3, <2>4, <2>5, CountsNat DEF TakingInv
  <2> QED
    BY <2>1, <2>6
<1> QED
  BY <1>6, <1>7, <1>8, <1>9, <1>10, <1>11, <1>12, <1>13 DEF ConsumerStep

\* The last round: a consumer that has posted leaves, and its exit can only
\* take away from SEM_PRODUCER.
LEMMA ConsumerEnd ==
    ASSUME TypeOK, ProgressInv, ObjectsInv, AdjustmentInv, EndInv,
           NEW c \in Consumers, OpenSem(c) \/ ConsumerStep(c)
    PROVE  EndInv'
<1> USE DEF Unregistered
<1>1. pPc' = pPc /\ countConsumers' = countConsumers
  BY ConsumerMoves DEF producerVars
<1> SUFFICES ASSUME pPc = "waitEnd" PROVE EndInv'
  BY <1>1 DEF EndInv
<1>2. /\ cPc \in [Consumers -> ConsumerPlaces]
      /\ cPc[c] \in Unregistered \cup
           {"waitWriting", "test", "consumedEnd", "detach", "abort", "done"}
      /\ countConsumers \in Nat /\ Confirmations = 0
      /\ Ending + Leaving <= countConsumers
      /\ semval["SEM_PRODUCER"] <= Leaving
      /\ semval["SEM_CONSUMER"] \in 0..SEMVMX /\ semval["SEM_PRODUCER"] \in 0..SEMVMX
      /\ \A s \in Semaphores : adjC[c][s] \in Int
      /\ semval \in [Semaphores -> 0..SEMVMX]
  <2>1. /\ cPc[c] \in Unregistered \cup
             {"waitWriting", "test", "consumedEnd", "detach", "abort", "done"}
        /\ Confirmations = 0
        /\ Ending + Leaving <= countConsumers
        /\ semval["SEM_PRODUCER"] <= Leaving
    BY DEF EndInv
  <2>2. /\ cPc \in [Consumers -> ConsumerPlaces] /\ countConsumers \in Nat
        /\ semval \in [Semaphores -> 0..SEMVMX]
        /\ \A s \in Semaphores : adjC[c][s] \in SemAdjustments
    BY DEF TypeOK
  <2>3. \A s \in Semaphores : adjC[c][s] \in Int
    BY <2>2, SEMVMXAssumption DEF SemAdjustments
  <2> QED
    BY <2>1, <2>2, <2>3 DEF Semaphores
<1>3. /\ Live("sem") /\ Live("queue")
      /\ cPc[c] = "test" => shmOf[c] = "shared"
      /\ sharedMem = END_PRODUCE
  BY DEF ObjectsInv, Working, ProgressInv
<1>4. \A d \in Consumers : d # c => cPc'[d] = cPc[d]
  BY ConsumerMoves
<1>5. SUFFICES /\ cPc'[c] \in Unregistered \cup
                    {"waitWriting", "test", "consumedEnd", "detach", "abort", "done"}
               /\ Confirmations' = 0
               /\ semval'["SEM_PRODUCER"] <= Leaving'
               /\ Ending' + Leaving' <= countConsumers
  BY <1>1, <1>2, <1>4 DEF EndInv
<1>6. CASE OpenSem(c) \/ OpenQueue(c) \/ OpenShm(c) \/ Register(c)
  <2>1. cPc[c] \in Unregistered /\ cPc'[c] \in Unregistered \cup {"abort"}
    BY <1>2, <1>6 DEF OpenSem, OpenQueue, OpenShm, Register, Goto
  <2>2. Leaving' = Leaving /\ Ending' = Ending
    BY <2>1, <1>4, CountsMove, CountsNat DEF Is
  <2>3. Confirmations' = Confirmations /\ semval' = semval
    BY <1>6 DEF OpenSem, OpenQueue, OpenShm, Register, Confirmations, semVars, TypeOK,
                MessageTypes
  <2> QED
    BY <1>2, <2>1, <2>2, <2>3
<1>7. ~Confirmed(c)
  BY <1>2, <1>3 DEF Confirmed, Confirmations
<1>8. CASE WaitWriting(c) \/ TestEnd(c)
  <2>1. /\ cPc[c] \in {"waitWriting", "test"} /\ cPc'[c] \in {"test", "consumedEnd"}
        /\ Confirmations' = Confirmations
        /\ semval'["SEM_PRODUCER"] = semval["SEM_PRODUCER"]
    BY <1>2, <1>3, <1>8 DEF WaitWriting, TestEnd, Goto, Segment, ConsumerApplies, Semaphores,
                            Confirmations, semVars
  <2>2. Leaving' = Leaving /\ Ending' = Ending
    BY <2>1, <1>4, CountsMove, CountsNat DEF Is
  <2> QED
    BY <1>2, <2>1, <2>2
<1>9. CASE Consumed(c)
  <2>1. /\ cPc[c] = "consumedEnd" /\ cPc'[c] = "detach" /\ Confirmations' = Confirmations
        /\ semval'["SEM_PRODUCER"] = semval["SEM_PRODUCER"] + 1
    BY <1>2, <1>9 DEF Consumed, Goto, ConsumerApplies, Semaphores, Confirmations
  <2>2. Leaving' = Leaving + 1 /\ Ending' = Ending - 1
    BY <2>1, <1>4, CountsMove, CountsNat DEF Is
  <2> QED
    BY <1>2, <2>1, <2>2, CountsNat
<1>10. CASE ConsumerSemFails(c)
  <2>1. /\ cPc[c] \in {"waitWriting", "consumedEnd"} /\ cPc'[c] = "abort"
        /\ Confirmations' = Confirmations /\ semval' = semval
    BY <1>2, <1>10 DEF ConsumerSemFails, Goto, Confirmations, semVars
  <2>2. Leaving' = Leaving /\ Ending' = Ending - 1
    BY <2>1, <1>4, CountsMove, CountsNat DEF Is
  <2> QED
    BY <1>2, <2>1, <2>2, CountsNat
<1>11. CASE ConsumerExit(c)
  <2>1. /\ \/ cPc[c] = "detach" /\ cPc'[c] = "done"
           \/ cPc[c] = "abort" /\ cPc'[c] = "failed"
        /\ Confirmations' = Confirmations
        /\ \/ semval' = [s \in Semaphores |-> Undone(semval[s], adjC[c][s])]
           \/ semval' = semval
    BY <1>2, <1>11 DEF ConsumerExit, Goto, Confirmations
  <2>2. Leaving' = Leaving /\ Ending' = Ending
    BY <2>1, <1>4, CountsMove, CountsNat DEF Is
  <2>3. semval'["SEM_PRODUCER"] <= semval["SEM_PRODUCER"]
    BY <1>2, <2>1, SEMVMXAssumption DEF Undone, AdjustmentInv, Semaphores
  <2>4. semval'["SEM_PRODUCER"] \in Int
    BY <1>2, <2>1, SEMVMXAssumption DEF Undone, Semaphores
  <2> QED
    BY <1>2, <2>1, <2>2, <2>3, <2>4, CountsNat
<1> QED
  BY <1>2, <1>6, <1>7, <1>8, <1>9, <1>10, <1>11
     DEF ConsumerStep, PrintMessage, ConsumerReset

\* After the last wait nobody enters the loop any more.
LEMMA ConsumerDestroy ==
    ASSUME TypeOK, DestroyInv, NEW c \in Consumers, OpenSem(c) \/ ConsumerStep(c)
    PROVE  DestroyInv'
<1> USE DEF InLoop
<1>1. pPc' = pPc /\ countConsumers' = countConsumers
  BY ConsumerMoves DEF producerVars
<1> SUFFICES ASSUME pPc \in {"destroyIpc", "done"} PROVE DestroyInv'
  BY <1>1 DEF DestroyInv
<1>2. /\ cPc \in [Consumers -> ConsumerPlaces]
      /\ ~InLoop(c) /\ cPc[c] # "consumedEnd"
      /\ Confirmations = 0 /\ Leaving = countConsumers
  BY DEF DestroyInv, TypeOK
<1>3. \A d \in Consumers : d # c => cPc'[d] = cPc[d]
  BY ConsumerMoves
<1>4. /\ ~InLoop(c)' /\ cPc'[c] # "consumedEnd" /\ Confirmations' = 0
      /\ cPc[c] \in {"detach", "done"} <=> cPc'[c] \in {"detach", "done"}
  <2>1. CASE OpenSem(c) \/ OpenQueue(c) \/ OpenShm(c)
    BY <1>2, <2>1 DEF OpenSem, OpenQueue, OpenShm, Goto, Confirmations
  <2>2. CASE Register(c) \/ Confirmed(c)
    BY <1>2, <2>2 DEF Register, Confirmed, Goto, Confirmations, TypeOK, MessageTypes
  <2>3. CASE ConsumerExit(c)
    BY <1>2, <2>3 DEF ConsumerExit, Goto, Confirmations
  <2> QED
    BY <1>2, <2>1, <2>2, <2>3 DEF ConsumerStep, WaitWriting, TestEnd, PrintMessage,
       ConsumerReset, Consumed, ConsumerSemFails
<1>5. Leaving' = Leaving
  BY <1>3, <1>4, CountsMove, CountsNat DEF Is
<1> QED
  BY <1>1, <1>2, <1>3, <1>4, <1>5 DEF DestroyInv

\* A step of a consumer keeps every part of the token discipline.
LEMMA ConsumerTokenInv ==
    ASSUME TypeOK, TokenInv, NEW c \in Consumers, OpenSem(c) \/ ConsumerStep(c)
    PROVE  TokenInv'
BY ConsumerProgress, ConsumerObjects, ConsumerAdjustments, ConsumerBetween, ConsumerRound,
   ConsumerEnd, ConsumerDestroy DEF TokenInv

-----------------------------------------------------------------------------
(* The token invariant: steps of the producer. *)

\* The producer moves no consumer: the counts stay, and so do the adjustments.
LEMMA ProducerStays ==
    ASSUME TypeOK, ProducerStep
    PROVE  /\ consumerVars' = consumerVars /\ adjC' = adjC /\ countMessages' = countMessages
           /\ Waiting' = Waiting /\ Reading' = Reading /\ Through' = Through
           /\ Aborting' = Aborting /\ Leaving' = Leaving /\ Ending' = Ending
<1>1. consumerVars' = consumerVars /\ adjC' = adjC /\ countMessages' = countMessages
  BY DEF ProducerStep, InitSem, InitQueue, InitShm, InitStep, TakeReg, Confirm, UpdDone,
         Reset, WriteMessage, Produced, WaitReading, WriteEnd, ProducedEnd, WaitEnd,
         ProducerSemFails, RemoveObject, ProducerExit, ProducerApplies, semVars
<1> QED
  BY <1>1 DEF consumerVars, Waiting, Reading, Through, Aborting, Leaving, Ending

\* Where the program counter goes, and what stays with it.
LEMMA ProducerProgress ==
    ASSUME TypeOK, ProgressInv, ProducerStep
    PROVE  ProgressInv'
<1> USE ProducerStays, MaxMessagesAssumption DEF ProgressInv, TypeOK, Before
<1>1. CASE InitSem \/ InitQueue \/ InitShm
  BY <1>1 DEF InitSem, InitQueue, InitShm, InitStep, Abort
<1>2. CASE TakeReg \/ UpdDone \/ WriteEnd \/ RemoveObject \/ ProducerExit
  BY <1>2 DEF TakeReg, UpdDone, WriteEnd, RemoveObject, ProducerExit, END_PRODUCE
<1>3. CASE Confirm
  BY <1>3 DEF Confirm
<1>4. CASE Reset \/ Produced \/ WriteMessage
  BY <1>4 DEF Reset, Produced, WriteMessage
<1>5. CASE WaitReading
  BY <1>5 DEF WaitReading
<1>6. CASE ProducedEnd \/ WaitEnd
  BY <1>6 DEF ProducedEnd, WaitEnd
<1>7. CASE ProducerSemFails
  BY <1>7 DEF ProducerSemFails, Abort
<1> QED
  BY <1>1, <1>2, <1>3, <1>4, <1>5, <1>6, <1>7 DEF ProducerStep

\* The producer opens its objects before it uses them, and removes them only
\* after its last wait or its failure.
LEMMA ProducerObjects ==
    ASSUME TypeOK, ObjectsInv, ProducerStep
    PROVE  ObjectsInv'
<1> USE DEF ObjectsInv, Before, Between, Working, Live
<1>1. UNCHANGED <<cPc, semOf, shmOf>>
  BY ProducerStays DEF consumerVars
<1>2. CASE InitSem \/ InitQueue \/ InitShm
  <2>1. SUFFICES ASSUME pPc' # "abort" PROVE ObjectsInv'
    OBVIOUS
  <2>2. bound \in [Objects -> {"absent", "shared", "gone", "orphan"}]
    BY DEF TypeOK
  <2>3. CASE InitSem
    BY <1>1, <2>1, <2>2, <2>3 DEF InitSem, InitStep, Abort, Opened, Objects
  <2>4. CASE InitQueue
    BY <1>1, <2>1, <2>2, <2>4 DEF InitQueue, InitStep, Abort, Opened, Objects
  <2>5. CASE InitShm
    BY <1>1, <2>1, <2>2, <2>5 DEF InitShm, InitStep, Abort, Opened, Objects
  <2> QED
    BY <1>2, <2>3, <2>4, <2>5
<1>3. CASE \/ TakeReg \/ Confirm \/ UpdDone \/ Reset \/ WriteMessage \/ Produced
           \/ WaitReading \/ WriteEnd \/ ProducedEnd
  <2>1. bound' = bound /\ pPc \in Working
    BY <1>3 DEF TakeReg, Confirm, UpdDone, Reset, WriteMessage, Produced, WaitReading,
                WriteEnd, ProducedEnd
  <2> QED
    BY <1>1, <2>1
<1>4. CASE WaitEnd \/ ProducerSemFails \/ RemoveObject \/ ProducerExit
  BY <1>4 DEF WaitEnd, ProducerSemFails, Abort, RemoveObject, ProducerExit
<1> QED
  BY <1>2, <1>3, <1>4 DEF ProducerStep

\* The producer's semops change no consumer's takes and posts.
LEMMA ProducerAdjustments ==
    ASSUME TypeOK, AdjustmentInv, ProducerStep
    PROVE  AdjustmentInv'
BY ProducerStays DEF AdjustmentInv, consumerVars

\* The rounds: each starts and ends with both semaphores at zero.
LEMMA ProducerRounds ==
    ASSUME TypeOK, ProgressInv, BetweenInv, RoundInv, EndInv, DestroyInv, ProducerStep
    PROVE  BetweenInv' /\ RoundInv' /\ EndInv' /\ DestroyInv'
<1> USE DEF Before, Between, Unregistered, InLoop
<1>1. /\ cPc' = cPc
      /\ Waiting' = Waiting /\ Reading' = Reading /\ Through' = Through
      /\ Aborting' = Aborting /\ Leaving' = Leaving /\ Ending' = Ending
  BY ProducerStays DEF consumerVars
<1>2. /\ countConsumers \in Nat /\ Confirmations \in Nat
      /\ semval["SEM_CONSUMER"] \in 0..SEMVMX /\ semval["SEM_PRODUCER"] \in 0..SEMVMX
      /\ semval \in [Semaphores -> 0..SEMVMX]
  BY DEF TypeOK, Confirmations, MessageTypes, Semaphores
<1>3. CASE InitSem \/ InitQueue \/ InitShm \/ UpdDone \/ WriteMessage \/ WriteEnd
  <2>1. /\ pPc \in Before \cup Between
        /\ pPc' \in (Before \cup Between \cup {"abort"}) \ {"writeEnd"}
        /\ pPc' = "producedEnd" => pPc = "writeEnd"
        /\ UNCHANGED <<countConsumers, semval>> /\ Confirmations' = Confirmations
    BY <1>3 DEF InitSem, InitQueue, InitShm, InitStep, Abort, UpdDone, WriteMessage,
                WriteEnd, semVars, Confirmations
  <2> QED
    BY <1>1, <2>1 DEF BetweenInv, RoundInv, EndInv, DestroyInv
<1>4. CASE TakeReg
  <2>1. /\ pPc = "updConsumers" /\ pPc' = "confirm"
        /\ UNCHANGED <<countConsumers, semval>> /\ Confirmations' = Confirmations
    BY <1>4 DEF TakeReg, semVars, Confirmations, TypeOK, MessageTypes
  <2> QED
    BY <1>1, <2>1 DEF BetweenInv, RoundInv, EndInv, DestroyInv
<1>5. CASE Confirm
  <2>1. /\ pPc = "confirm" /\ pPc' = "updConsumers" /\ semval' = semval
        /\ countConsumers' = countConsumers + 1 /\ Confirmations' = Confirmations + 1
    BY <1>5 DEF Confirm, semVars, Confirmations, TypeOK, MessageTypes
  <2> QED
    BY <1>1, <1>2, <2>1, CountsNat DEF BetweenInv, RoundInv, EndInv, DestroyInv
<1>6. CASE Reset
  <2>1. /\ pPc = "reset" /\ pPc' = "write" /\ semval' = semval
        /\ countConsumers' = countConsumers /\ Confirmations' = Confirmations
    BY <1>2, <1>6 DEF Reset, ProducerApplies, Applies, Semaphores, Confirmations
  <2> QED
    BY <1>1, <2>1 DEF BetweenInv, RoundInv, EndInv, DestroyInv
<1>7. CASE Produced \/ ProducedEnd
  <2>1. /\ \/ pPc = "produced" /\ pPc' = "waitReading"
           \/ pPc = "producedEnd" /\ pPc' = "waitEnd"
        /\ countConsumers' = countConsumers /\ Confirmations' = Confirmations
        /\ semval' = [semval EXCEPT !["SEM_CONSUMER"] = @ + countConsumers]
        /\ semval["SEM_CONSUMER"] + countConsumers <= SEMVMX
    BY <1>7 DEF Produced, ProducedEnd, ProducerApplies, Applies, Confirmations
  <2>2. /\ semval["SEM_CONSUMER"] = 0 /\ semval["SEM_PRODUCER"] = 0
        /\ \A c \in Consumers : cPc[c] \in Unregistered \cup {"waitWriting"}
        /\ Waiting + Confirmations <= countConsumers
        /\ pPc = "producedEnd" => Confirmations = 0
    BY <2>1 DEF BetweenInv
  <2>3. /\ semval'["SEM_CONSUMER"] = countConsumers /\ semval'["SEM_PRODUCER"] = 0
        /\ countConsumers <= SEMVMX
    BY <1>2, <2>1, <2>2 DEF Semaphores
  <2>4. Reading = 0 /\ Through = 0 /\ Aborting = 0 /\ Leaving = 0
    BY <2>2, CountsZero
  <2>5. Ending = Waiting
    <3>1. \A c \in Consumers : cPc[c] \in {"waitWriting", "test", "consumedEnd"}
                                 <=> cPc[c] \in {"waitWriting"}
      BY <2>2
    <3> QED
      BY <3>1 DEF Ending, Waiting, Count
  <2>6. pPc = "produced" => TakingInv'
    BY <1>1, <1>2, <2>1, <2>2, <2>3, <2>4, CountsNat DEF TakingInv
  <2>7. RoundInv'
    BY <1>1, <2>1, <2>2, <2>3, <2>6 DEF RoundInv
  <2>8. EndInv'
    BY <1>1, <1>2, <2>1, <2>2, <2>3, <2>4, <2>5, CountsNat DEF EndInv
  <2> QED
    BY <2>1, <2>7, <2>8 DEF BetweenInv, DestroyInv
<1>8. CASE WaitReading
  <2>1. /\ pPc = "waitReading" /\ pPc' \in {"updConsumers", "writeEnd"}
        /\ countConsumers' = countConsumers /\ Confirmations' = Confirmations
        /\ countConsumers > 0
    BY <1>8 DEF WaitReading, Confirmations, ProgressInv
  <2>2. /\ semval'["SEM_PRODUCER"] = semval["SEM_PRODUCER"] - countConsumers
        /\ semval'["SEM_CONSUMER"] = semval["SEM_CONSUMER"]
        /\ semval["SEM_PRODUCER"] >= countConsumers
    BY <1>2, <1>8, <2>1
       DEF WaitReading, ProducerApplies, Applies, Blocks, Semaphores
  <2>3. PostingInv /\ \A c \in Consumers : cPc[c] \in Unregistered \cup {"abort"} \/ InLoop(c)
    BY <1>2, <2>1, <2>2 DEF RoundInv, TakingInv
  <2>4. Reading = 0 /\ Through = 0 /\ Aborting = 0 /\ Waiting = countConsumers
    BY <1>2, <2>1, <2>3, <2>2, CountsNat DEF PostingInv
  <2>5. \A c \in Consumers : cPc[c] \in Unregistered \cup {"waitWriting"}
    BY <2>3, <2>4, CountsZero
  <2>6. semval'["SEM_CONSUMER"] = 0 /\ semval'["SEM_PRODUCER"] = 0
    BY <1>2, <2>3, <2>4, <2>2 DEF PostingInv
  <2>7. Confirmations = 0
    BY <2>3 DEF PostingInv
  <2> QED
    BY <1>1, <1>2, <2>1, <2>4, <2>5, <2>6, <2>7 DEF BetweenInv, RoundInv, EndInv, DestroyInv
<1>9. CASE WaitEnd
  <2>1. /\ pPc = "waitEnd" /\ pPc' = "destroyIpc"
        /\ countConsumers' = countConsumers /\ Confirmations' = Confirmations
        /\ semval["SEM_PRODUCER"] >= countConsumers
    BY <1>2, <1>9 DEF WaitEnd, ProducerApplies, Applies, Blocks, Confirmations
  <2>2. /\ Ending + Leaving <= countConsumers /\ semval["SEM_PRODUCER"] <= Leaving
        /\ Confirmations = 0
        /\ \A c \in Consumers : cPc[c] \in Unregistered \cup
             {"waitWriting", "test", "consumedEnd", "detach", "abort", "done"}
    BY <2>1 DEF EndInv
  <2>3. Leaving = countConsumers /\ Ending = 0
    BY <1>2, <2>1, <2>2, CountsNat
  <2>4. \A c \in Consumers : ~InLoop(c) /\ cPc[c] # "consumedEnd"
    BY <2>2, <2>3, CountsZero
  <2> QED
    BY <1>1, <2>1, <2>2, <2>3, <2>4 DEF BetweenInv, RoundInv, EndInv, DestroyInv
<1>10. CASE ProducerSemFails
  BY <1>10 DEF ProducerSemFails, Abort, BetweenInv, RoundInv, EndInv, DestroyInv
<1>11. CASE RemoveObject \/ ProducerExit
  <2>1. /\ pPc \in {"destroyIpc", "abort"} /\ pPc' \in {pPc, "done", "failed"}
        /\ pPc = "abort" => pPc' \in {"abort", "failed"}
        /\ countConsumers' = countConsumers /\ Confirmations' = Confirmations
    BY <1>11 DEF RemoveObject, ProducerExit, Confirmations
  <2> QED
    BY <1>1, <2>1 DEF BetweenInv, RoundInv, EndInv, DestroyInv
<1> QED
  BY <1>3, <1>4, <1>5, <1>6, <1>7, <1>8, <1>9, <1>10, <1>11 DEF ProducerStep

\* A step of the producer keeps every part of the token discipline.
LEMMA ProducerTokenInv ==
    ASSUME TypeOK, TokenInv, ProducerStep
    PROVE  TokenInv'
BY ProducerProgress, ProducerObjects, ProducerAdjustments, ProducerRounds DEF TokenInv

-----------------------------------------------------------------------------
(* The invariant, and what it implies. *)

\* The invariant holds before any process has opened anything ...
LEMMA InitSemInv == Init => SemInv
<1> SUFFICES ASSUME Init PROVE SemInv
  OBVIOUS
<1> USE SEMVMXAssumption, MaxMessagesAssumption DEF Init
<1>1. TypeOK
  BY DEF TypeOK, ProducerPlaces, ConsumerPlaces, SemAdjustments, END_PRODUCE
<1>2. ProgressInv /\ ObjectsInv /\ AdjustmentInv
  BY DEF ProgressInv, ObjectsInv, AdjustmentInv, Before, Working, Between, Semaphores
<1>3. Waiting = 0 /\ Confirmations = 0
  BY CountsZero DEF Confirmations, MessageTypes
<1>4. BetweenInv
  BY <1>3 DEF BetweenInv, Semaphores, Unregistered
<1>5. RoundInv /\ EndInv /\ DestroyInv
  BY DEF RoundInv, EndInv, DestroyInv
<1> QED
  BY <1>1, <1>2, <1>4, <1>5 DEF SemInv, TokenInv

\* ... and every step of either program keeps it.
LEMMA SemInvStep == SemInv /\ [Next]_vars => SemInv'
<1> SUFFICES ASSUME SemInv, [Next]_vars PROVE SemInv'
  OBVIOUS
<1>1. TypeOK /\ TokenInv
  BY DEF SemInv
<1>2. TypeOK'
  BY <1>1, TypingStep
<1>3. CASE ProducerStep
  BY <1>1, <1>2, <1>3, ProducerTokenInv DEF SemInv
<1>4. ASSUME NEW c \in Consumers, OpenSem(c) \/ ConsumerStep(c) PROVE SemInv'
  BY <1>1, <1>2, <1>4, ConsumerTokenInv DEF SemInv
<1>5. CASE UNCHANGED vars
  <2>1. TokenInv'
    BY <1>1, <1>5 DEF vars, producerVars, consumerVars, semVars, TokenInv, ProgressInv,
       ObjectsInv, AdjustmentInv, BetweenInv, RoundInv, TakingInv, PostingInv, EndInv,
       DestroyInv, Waiting, Reading, Through, Aborting, Leaving, Ending, Confirmations,
       Live, InLoop
  <2> QED
    BY <1>2, <2>1 DEF SemInv
<1> QED
  BY <1>3, <1>4, <1>5 DEF Next

\* The semaphore discipline of task 36 is an invariant.
THEOREM SemInvariant == Spec => []SemInv
<1>1. Init => SemInv
  BY InitSemInv
<1>2. SemInv /\ [Next]_vars => SemInv'
  BY SemInvStep
<1> QED
  BY <1>1, <1>2, PTL DEF Spec

\* Every variable keeps its type: no value of a semaphore and no adjustment ever
\* leaves the kernel's range, at any limit.
THEOREM TypeCorrect == Spec => []TypeOK
<1>1. SemInv => TypeOK
  BY DEF SemInv
<1> QED
  BY <1>1, SemInvariant, PTL

\* The producer never writes the segment while a consumer reads it.
THEOREM ExclusiveWriting == Spec => []NoOverwrite
<1>1. SemInv => NoOverwrite
  BY DEF SemInv, TokenInv, BetweenInv, NoOverwrite, Between, Unregistered
<1> QED
  BY <1>1, SemInvariant, PTL

\* When the producer is content as many consumers as it counted have seen the
\* end, and none is left in its loop.
THEOREM DeliveredOnSuccess == Spec => []SuccessMeansDelivered
<1>1. SemInv => SuccessMeansDelivered
  <2> SUFFICES ASSUME SemInv, pPc \in {"destroyIpc", "done"}
               PROVE  /\ Cardinality({c \in Consumers : AtEnd(c)}) = countConsumers
                      /\ \A c \in Consumers : ~InLoop(c)
    BY DEF SuccessMeansDelivered
  <2>1. Leaving = countConsumers /\ \A c \in Consumers : ~InLoop(c) /\ cPc[c] # "consumedEnd"
    BY DEF SemInv, TokenInv, DestroyInv
  <2>2. {c \in Consumers : AtEnd(c)} = {c \in Consumers : cPc[c] \in {"detach", "done"}}
    BY <2>1 DEF AtEnd
  <2> QED
    BY <2>1, <2>2 DEF Leaving, Count
<1> QED
  BY <1>1, SemInvariant, PTL

\* Until the producer fails, a confirmed consumer shares its set and segment.
THEOREM SharedObjects == Spec => []ConfirmedSharesObjects
<1>1. SemInv => ConfirmedSharesObjects
  BY DEF SemInv, TokenInv, TypeOK, ProducerPlaces, ObjectsInv, DestroyInv, Before, Between,
         Working, InLoop, ConfirmedSharesObjects
<1> QED
  BY <1>1, SemInvariant, PTL

-----------------------------------------------------------------------------
(***************************************************************************)
(* SemBroadcast implements LockstepBroadcast.  The semaphore discipline    *)
(* SemInv says who may act when; what is added here is who has which text  *)
(* at that moment, up to the exit of a producer that failed.               *)
(***************************************************************************)

-----------------------------------------------------------------------------
(* The invariant about registrations, announcements and texts. *)

\* Nobody registers twice: who is counted, or about to be, is no newcomer.
Newcomers == Count(cPc, {"semget", "msgget", "shmget", "register"})

RegistrationInv ==
    countConsumers + queue["MSG_REG"] + (IF pPc = "confirm" THEN 1 ELSE 0) + Newcomers
        <= Cardinality(Consumers)

\* The announcement, next to the producer's counters and the segment.
AnnounceInv ==
    /\ pPc \in Before => announced.text = 0 /\ announced.consumers = 0
    /\ pPc \in {"updConsumers", "confirm", "reset", "write"} => announced.text = i
    /\ pPc \in {"produced", "waitReading"} => announced.text = i + 1
    /\ pPc \in {"writeEnd", "producedEnd", "waitEnd"} => announced.text = i
    /\ pPc \in {"produced", "waitReading", "writeEnd", "producedEnd", "waitEnd"} =>
         announced.consumers = countConsumers
    /\ pPc \in {"updConsumers", "confirm", "reset", "write"} =>
         announced.consumers <= countConsumers
    /\ pPc \in (Before \cup Working) \ {"producedEnd", "waitEnd"} =>
         sharedMem = announced.text
    /\ pPc \in {"destroyIpc", "done"} => sharedMem = END_PRODUCE /\ announced.text > 0
    /\ pPc = "waitEnd" => countConsumers <= SEMVMX

\* Who has the current text, and who is next to get it.
Due(c) == seen[c] = << >> \/ LastSeen(c) + 1 = announced.text
Members == Got \cup {c \in Consumers : InLoop(c) \/ AtEnd(c)}

\* There is room for everybody who has the text or may still ask for it.
SeatInv == pPc \in Before \cup Working =>
    Cardinality(Members) + Confirmations <= countConsumers

\* An aborting producer leaves no consumer with a token, and none to be taken.
AbortInv == pPc \in {"abort", "failed"} =>
    /\ \A c \in Consumers :
         cPc[c] \notin {"test", "print", "consumerReset", "consumed", "consumedEnd"}
    /\ \/ bound["sem"] \in {"gone", "orphan"}
       \/ Waiting = 0 /\ Confirmations = 0
       \/ /\ pPc = "abort" /\ cleanup = <<"sem", "queue", "shm">>
          /\ Live("sem") /\ Live("queue")
          /\ semval["SEM_CONSUMER"] = 0
          /\ \A c \in Consumers : cPc[c] \notin {"abort", "detach"}

\* Which consumers have the current text, by their place.
FreshInv ==
    /\ \A c \in Consumers :
         cPc[c] \in {"semget", "msgget", "shmget", "register", "awaitConfirm"} => seen[c] = << >>
    /\ announced.text = 0 => \A c \in Consumers : seen[c] = << >>
    /\ \A c \in Consumers : seen[c] # << >> => LastSeen(c) <= announced.text

GatherInv ==
    /\ pPc \in {"updConsumers", "confirm", "reset", "write"} =>
         \A c \in Consumers : cPc[c] = "waitWriting" => c \in Got \/ seen[c] = << >>
    /\ pPc = "produced" => \A c \in Consumers : cPc[c] = "waitWriting" => Due(c)
    /\ pPc \in {"writeEnd", "producedEnd", "waitEnd"} =>
         \A c \in Consumers : cPc[c] = "waitWriting" \/ cPc[c] = "test" \/ AtEnd(c) => c \in Got
    /\ pPc \in Working \ {"produced", "waitReading"} => Cardinality(Got) = announced.consumers

RoundSeenInv == pPc = "waitReading" =>
    /\ \A c \in Consumers : cPc[c] \in {"consumerReset", "consumed"} => c \in Got
    /\ \A c \in Consumers : cPc[c] \in {"test", "print"} => Due(c)
    /\ semval["SEM_CONSUMER"] > 0 \/ Aborting > 0 =>
         \A c \in Consumers : cPc[c] = "waitWriting" => Due(c)
    /\ semval["SEM_PRODUCER"] > 0 \/ Through > 0 =>
         \A c \in Consumers : cPc[c] = "waitWriting" => c \in Got

LockInv == /\ RegistrationInv /\ AnnounceInv /\ SeatInv /\ AbortInv
           /\ FreshInv /\ GatherInv /\ RoundSeenInv

-----------------------------------------------------------------------------
(* What a step does to the texts. *)

\* Every member is a consumer: the sets of the invariant are finite.
LEMMA MembersFinite ==
    /\ Got \subseteq Members /\ Members \subseteq Consumers
    /\ IsFiniteSet(Got) /\ IsFiniteSet(Members)
    /\ Cardinality(Got) \in Nat /\ Cardinality(Members) \in Nat
<1>1. Got \subseteq Members /\ Members \subseteq Consumers
  BY DEF Got, Members
<1>2. IsFiniteSet(Got) /\ IsFiniteSet(Members)
  BY <1>1, FS_Subset, ConsumersAssumption DEF Got
<1> QED
  BY <1>1, <1>2, FS_CardinalityType

\* A consumer prints in a round only, and prints the text that is announced.
LEMMA PrintsInRound ==
    ASSUME SemInv, LockInv, NEW c \in Consumers, PrintMessage(c)
    PROVE  /\ pPc = "waitReading" /\ cPc[c] = "print"
           /\ Segment(c) = announced.text /\ announced.text \in Nat \ {0}
           /\ Due(c) /\ c \notin Got
<1>1. cPc[c] = "print"
  BY DEF PrintMessage
<1>2. pPc = "waitReading"
  BY <1>1 DEF SemInv, TypeOK, ProducerPlaces, TokenInv, BetweenInv, EndInv, DestroyInv, LockInv,
     AbortInv, Before, Between, Unregistered, InLoop
<1>3. shmOf[c] = "shared"
  BY <1>1, <1>2 DEF SemInv, TokenInv, ObjectsInv, Working
<1>4. sharedMem = i + 1 /\ announced.text = i + 1 /\ i \in 0..MaxMessages
  BY <1>2 DEF SemInv, TypeOK, TokenInv, ProgressInv, LockInv, AnnounceInv
<1>5. Due(c)
  BY <1>1, <1>2 DEF LockInv, RoundSeenInv
<1>6. c \notin Got
  <2> SUFFICES ASSUME c \in Got PROVE FALSE
    OBVIOUS
  <2>1. LastSeen(c) = announced.text /\ LastSeen(c) + 1 = announced.text
    BY <1>5 DEF Got, Due
  <2> QED
    BY <1>4, <2>1, MaxMessagesAssumption
<1> QED
  BY <1>1, <1>2, <1>3, <1>4, <1>5, <1>6, MaxMessagesAssumption DEF Segment

\* Who prints has the text, and nobody else's list changes.
LEMMA PrintedNext ==
    ASSUME SemInv, LockInv, NEW c \in Consumers, PrintMessage(c)
    PROVE  /\ Got' = Got \cup {c}
           /\ seen' = [seen EXCEPT ![c] = Append(@, announced.text)]
           /\ seen'[c] # << >> /\ LastSeen(c)' = announced.text
           /\ \A d \in Consumers : d # c => seen'[d] = seen[d]
<1>1. /\ seen \in [Consumers -> Seq(Nat)] /\ announced.text \in Nat
      /\ seen' = [seen EXCEPT ![c] = Append(@, announced.text)]
  BY PrintsInRound DEF PrintMessage, SemInv, TypeOK
<1>2. seen'[c] = Append(seen[c], announced.text) /\ seen[c] \in Seq(Nat)
  BY <1>1
<1>3. seen'[c] # << >> /\ seen'[c][Len(seen'[c])] = announced.text
  BY <1>1, <1>2
<1>4. announced' = announced
  BY DEF PrintMessage, producerVars
<1> QED
  BY <1>1, <1>3, <1>4 DEF Got, LastSeen

\* No other step of a consumer changes what anybody has.
LEMMA ConsumerTexts ==
    ASSUME NEW c \in Consumers, OpenSem(c) \/ ConsumerStep(c), ~PrintMessage(c)
    PROVE  /\ seen' = seen /\ announced' = announced
           /\ Got' = Got /\ \A d \in Consumers : Due(d)' <=> Due(d)
<1>1. seen' = seen /\ announced' = announced
  BY DEF ConsumerStep, OpenSem, OpenQueue, OpenShm, Register, Confirmed, WaitWriting,
         TestEnd, ConsumerReset, Consumed, ConsumerSemFails, ConsumerExit, producerVars
<1> QED
  BY <1>1 DEF Got, Due, LastSeen

\* A step of the producer other than WriteMessage announces nothing.
LEMMA ProducerTexts ==
    ASSUME TypeOK, ProducerStep, ~WriteMessage
    PROVE  /\ seen' = seen /\ announced' = announced /\ cPc' = cPc
           /\ Got' = Got /\ Members' = Members
           /\ \A d \in Consumers : Due(d)' <=> Due(d)
<1>1. seen' = seen /\ cPc' = cPc
  BY ProducerStays DEF consumerVars
<1>2. announced' = announced
  BY DEF ProducerStep, InitSem, InitQueue, InitShm, InitStep, TakeReg, Confirm, UpdDone,
         Reset, Produced, WaitReading, WriteEnd, ProducedEnd, WaitEnd,
         ProducerSemFails, RemoveObject, ProducerExit
<1> QED
  BY <1>1, <1>2 DEF Got, Members, Due, LastSeen, InLoop, AtEnd

\* The new text is one that nobody has; who has the one before is due.
LEMMA WriteTexts ==
    ASSUME SemInv, LockInv, WriteMessage
    PROVE  /\ Got' = {} /\ cPc' = cPc /\ seen' = seen
           /\ announced.text = i /\ i \in Nat
           /\ announced' = [consumers |-> countConsumers, text |-> i + 1]
           /\ \A c \in Consumers : c \in Got \/ seen[c] = << >> => Due(c)'
<1>1. /\ announced' = [consumers |-> countConsumers, text |-> i + 1]
      /\ cPc' = cPc /\ seen' = seen /\ pPc = "write"
  BY DEF WriteMessage, consumerVars
<1>2. announced.text = i /\ i \in Nat
  BY <1>1 DEF LockInv, AnnounceInv, SemInv, TypeOK
<1>3. \A c \in Consumers : seen[c] # << >> => LastSeen(c) \in Nat /\ LastSeen(c) <= i
  <2> SUFFICES ASSUME NEW c \in Consumers, seen[c] # << >>
               PROVE  LastSeen(c) \in Nat /\ LastSeen(c) <= i
    OBVIOUS
  <2>1. seen[c] \in Seq(Nat)
    BY DEF SemInv, TypeOK
  <2> QED
    BY <1>2, <2>1 DEF LockInv, FreshInv, LastSeen
<1>4. Got' = {}
  BY <1>1, <1>2, <1>3 DEF Got, LastSeen
<1>5. \A c \in Consumers : c \in Got \/ seen[c] = << >> => Due(c)'
  BY <1>1, <1>2 DEF Got, Due, LastSeen
<1> QED
  BY <1>1, <1>2, <1>4, <1>5

-----------------------------------------------------------------------------
(* Registrations and announcements. *)

\* The newcomers follow a consumer from place to place.
LEMMA NewcomersMove ==
    ASSUME NEW c \in Consumers, \A d \in Consumers : d # c => cPc'[d] = cPc[d]
    PROVE  /\ Newcomers \in Nat
           /\ Newcomers' = Newcomers - Is(cPc[c], {"semget", "msgget", "shmget", "register"})
                                     + Is(cPc'[c], {"semget", "msgget", "shmget", "register"})
<1> DEFINE ps == {"semget", "msgget", "shmget", "register"}
<1>1. Count(cPc, ps) \in Nat
  BY CountNat
<1>2. /\ cPc[c] \in ps /\ cPc'[c] \notin ps => Count(cPc', ps) = Count(cPc, ps) - 1
      /\ cPc[c] \notin ps /\ cPc'[c] \in ps => Count(cPc', ps) = Count(cPc, ps) + 1
      /\ (cPc[c] \in ps <=> cPc'[c] \in ps) => Count(cPc', ps) = Count(cPc, ps)
  BY CountMove
<1> QED
  BY <1>1, <1>2 DEF Newcomers, Is

\* A consumer that registers is a newcomer no more.
LEMMA ConsumerRegistration ==
    ASSUME TypeOK, RegistrationInv, NEW c \in Consumers, OpenSem(c) \/ ConsumerStep(c)
    PROVE  RegistrationInv'
<1>1. /\ pPc' = pPc /\ countConsumers' = countConsumers
      /\ \A d \in Consumers : d # c => cPc'[d] = cPc[d]
  BY ConsumerMoves DEF producerVars
<1>2. /\ cPc \in [Consumers -> ConsumerPlaces] /\ queue \in [MessageTypes -> Nat]
      /\ queue["MSG_REG"] \in Nat /\ countConsumers \in Nat /\ Newcomers \in Nat
      /\ Cardinality(Consumers) \in Nat
  BY <1>1, NewcomersMove, ConsumersAssumption, FS_CardinalityType DEF TypeOK, MessageTypes
<1>3. CASE Register(c)
  <2>1. /\ cPc[c] = "register" /\ cPc'[c] \in {"awaitConfirm", "abort"}
        /\ queue'["MSG_REG"] \in {queue["MSG_REG"], queue["MSG_REG"] + 1}
    BY <1>2, <1>3 DEF Register, Goto, MessageTypes
  <2>2. Newcomers' = Newcomers - 1
    BY <1>1, <1>2, <2>1, NewcomersMove DEF Is
  <2> QED
    BY <1>1, <1>2, <2>1, <2>2 DEF RegistrationInv
<1>4. CASE (OpenSem(c) \/ ConsumerStep(c)) /\ ~Register(c)
  <2>1. queue'["MSG_REG"] = queue["MSG_REG"]
    BY <1>2, <1>4 DEF ConsumerStep, OpenSem, OpenQueue, OpenShm, Confirmed, WaitWriting,
       TestEnd, PrintMessage, ConsumerReset, Consumed, ConsumerSemFails, ConsumerExit,
       MessageTypes
  <2>2. cPc[c] \in {"semget", "msgget", "shmget", "register"} \/
        cPc'[c] \notin {"semget", "msgget", "shmget", "register"}
    BY <1>2, <1>4 DEF ConsumerStep, OpenSem, OpenQueue, OpenShm, Confirmed, WaitWriting,
       TestEnd, PrintMessage, ConsumerReset, Consumed, ConsumerSemFails, ConsumerExit, Goto
  <2>3. Newcomers' <= Newcomers /\ Newcomers' \in Int
    BY <1>1, <1>2, <2>2, NewcomersMove DEF Is
  <2> QED
    BY <1>1, <1>2, <2>1, <2>3 DEF RegistrationInv
<1> QED
  BY <1>3, <1>4

\* The producer counts a registration it has taken.
LEMMA ProducerRegistration ==
    ASSUME TypeOK, RegistrationInv, ProducerStep
    PROVE  RegistrationInv'
<1>1. Newcomers' = Newcomers
  BY ProducerStays DEF consumerVars, Newcomers
<1>2. /\ queue \in [MessageTypes -> Nat]
      /\ queue["MSG_REG"] \in Nat /\ countConsumers \in Nat
      /\ Newcomers \in Nat /\ Cardinality(Consumers) \in Nat
  BY CountNat, ConsumersAssumption, FS_CardinalityType DEF TypeOK, MessageTypes, Newcomers
<1>3. CASE TakeReg
  BY <1>1, <1>2, <1>3 DEF TakeReg, RegistrationInv, MessageTypes
<1>4. CASE Confirm
  BY <1>1, <1>2, <1>4 DEF Confirm, RegistrationInv, MessageTypes
<1>5. CASE ProducerStep /\ ~TakeReg /\ ~Confirm
  <2>1. /\ pPc # "confirm" /\ pPc' # "confirm"
        /\ queue' = queue /\ countConsumers' = countConsumers
    BY <1>5 DEF ProducerStep, InitSem, InitQueue, InitShm, InitStep, Abort, UpdDone, Reset,
       WriteMessage, Produced, WaitReading, WriteEnd, ProducedEnd, WaitEnd,
       ProducerSemFails, RemoveObject, ProducerExit
  <2> QED
    BY <1>1, <2>1 DEF RegistrationInv
<1> QED
  BY <1>3, <1>4, <1>5

\* What is announced is what the segment holds, until the end is written.
LEMMA ProducerAnnounce ==
    ASSUME SemInv, AnnounceInv, ProducerStep
    PROVE  AnnounceInv'
<1> USE MaxMessagesAssumption DEF AnnounceInv, Before, Between, Working, END_PRODUCE
<1>1. /\ countConsumers \in Nat /\ i \in 0..MaxMessages /\ countMessages \in 1..MaxMessages
      /\ announced \in [consumers : Nat, text : 0..MaxMessages]
      /\ ProgressInv /\ TypeOK
  BY DEF SemInv, TypeOK, TokenInv
<1>2. CASE InitSem \/ InitQueue \/ InitShm
  BY <1>1, <1>2 DEF InitSem, InitQueue, InitShm, InitStep, Abort, ProgressInv
<1>3. CASE TakeReg \/ UpdDone \/ Reset
  BY <1>1, <1>3 DEF TakeReg, UpdDone, Reset
<1>4. CASE Confirm
  BY <1>1, <1>4 DEF Confirm
<1>5. CASE WriteMessage
  BY <1>1, <1>5 DEF WriteMessage
<1>6. CASE Produced
  BY <1>1, <1>6 DEF Produced
<1>7. CASE WaitReading
  BY <1>1, <1>7 DEF WaitReading
<1>8. CASE WriteEnd
  BY <1>1, <1>8 DEF WriteEnd
<1>9. CASE ProducedEnd
  <2>1. countConsumers <= SEMVMX
    <3>1. semval["SEM_CONSUMER"] \in Nat
      BY SEMVMXAssumption DEF SemInv, TypeOK, Semaphores
    <3> QED
      BY <1>1, <1>9, <3>1, SEMVMXAssumption DEF ProducedEnd, ProducerApplies, Applies
  <2> QED
    BY <1>1, <1>9, <2>1 DEF ProducedEnd
<1>10. CASE WaitEnd
  BY <1>1, <1>10 DEF WaitEnd, ProgressInv
<1>11. CASE ProducerSemFails \/ RemoveObject \/ ProducerExit
  BY <1>1, <1>11 DEF ProducerSemFails, Abort, RemoveObject, ProducerExit
<1> QED
  BY <1>2, <1>3, <1>4, <1>5, <1>6, <1>7, <1>8, <1>9, <1>10, <1>11 DEF ProducerStep

\* A consumer changes nothing of it.
LEMMA ConsumerAnnounce ==
    ASSUME TypeOK, AnnounceInv, NEW c \in Consumers, OpenSem(c) \/ ConsumerStep(c)
    PROVE  AnnounceInv'
BY ConsumerMoves DEF AnnounceInv, producerVars

-----------------------------------------------------------------------------
(* Seats, and the producer that gives up. *)

\* A consumer takes a seat with its confirmation only.
LEMMA ConsumerSeats ==
    ASSUME SemInv, LockInv, NEW c \in Consumers, OpenSem(c) \/ ConsumerStep(c)
    PROVE  SeatInv'
<1>1. /\ pPc' = pPc /\ countConsumers' = countConsumers
      /\ \A d \in Consumers : d # c => cPc'[d] = cPc[d]
  BY ConsumerMoves DEF SemInv, producerVars
<1> SUFFICES ASSUME pPc \in Before \cup Working PROVE SeatInv'
  BY <1>1 DEF SeatInv
<1>2. /\ cPc \in [Consumers -> ConsumerPlaces] /\ queue \in [MessageTypes -> Nat]
      /\ Confirmations \in Nat /\ countConsumers \in Nat
      /\ Cardinality(Members) + Confirmations <= countConsumers
  BY DEF SemInv, TypeOK, MessageTypes, Confirmations, LockInv, SeatInv
<1>3. CASE Confirmed(c)
  <2>1. cPc[c] = "awaitConfirm"
    BY <1>3 DEF Confirmed
  <2>2. Live("queue")
    BY <2>1 DEF SemInv, TokenInv, ObjectsInv
  <2>3. Confirmations > 0 /\ Confirmations' = Confirmations - 1
    BY <1>2, <1>3, <2>2 DEF Confirmed, Confirmations, MessageTypes
  <2>4. Members' \subseteq Members \cup {c}
    BY <1>1, <1>3, ConsumerTexts DEF Members, InLoop, AtEnd, ConsumerStep, Confirmed,
       PrintMessage
  <2>5. Cardinality(Members \cup {c}) \in Nat /\ IsFiniteSet(Members \cup {c})
        /\ Cardinality(Members \cup {c}) <= Cardinality(Members) + 1
    <3>1. CASE c \in Members
      <4>1. Members \cup {c} = Members
        BY <3>1
      <4> QED
        BY <4>1, MembersFinite
    <3>2. CASE c \notin Members
      BY <3>2, MembersFinite, FS_AddElement
    <3> QED
      BY <3>1, <3>2
  <2>6. Cardinality(Members') \in Nat /\ Cardinality(Members') <= Cardinality(Members) + 1
    BY <2>4, <2>5, MembersFinite, FS_Subset, FS_CardinalityType
  <2> QED
    BY <1>1, <1>2, <2>3, <2>6, MembersFinite DEF SeatInv
<1>4. CASE (OpenSem(c) \/ ConsumerStep(c)) /\ ~Confirmed(c)
  <2>1. Confirmations' = Confirmations
    BY <1>2, <1>4 DEF ConsumerStep, OpenSem, OpenQueue, OpenShm, Register, WaitWriting,
       TestEnd, PrintMessage, ConsumerReset, Consumed, ConsumerSemFails, ConsumerExit,
       MessageTypes, Confirmations
  <2>2. InLoop(c)' \/ AtEnd(c)' => InLoop(c) \/ AtEnd(c)
    BY <1>2, <1>4 DEF ConsumerStep, OpenSem, OpenQueue, OpenShm, Register, WaitWriting,
       TestEnd, PrintMessage, ConsumerReset, Consumed, ConsumerSemFails, ConsumerExit,
       Goto, InLoop, AtEnd
  <2>3. Got' \subseteq Members
    <3>1. CASE PrintMessage(c)
      <4>1. Got' = Got \cup {c}
        BY <3>1, PrintedNext
      <4>2. c \in Members
        BY <3>1 DEF PrintMessage, InLoop, Members
      <4> QED
        BY <4>1, <4>2 DEF Members
    <3>2. CASE ~PrintMessage(c)
      BY <3>2, ConsumerTexts DEF Members
    <3> QED
      BY <3>1, <3>2
  <2>4. Members' \subseteq Members
    BY <1>1, <2>2, <2>3 DEF Members, InLoop, AtEnd
  <2>5. Cardinality(Members') \in Nat /\ Cardinality(Members') <= Cardinality(Members)
    BY <2>4, MembersFinite, FS_Subset, FS_CardinalityType
  <2> QED
    BY <1>1, <1>2, <2>1, <2>5, MembersFinite DEF SeatInv
<1> QED
  BY <1>3, <1>4

\* The producer confirms as many as it counts; a new text empties Got.
LEMMA ProducerSeats ==
    ASSUME SemInv, LockInv, ProducerStep
    PROVE  SeatInv'
<1> SUFFICES ASSUME pPc' \in Before \cup Working PROVE SeatInv'
  BY DEF SeatInv
<1>1. pPc \in Before \cup Working
  BY DEF ProducerStep, InitSem, InitQueue, InitShm, InitStep, Abort, TakeReg, Confirm,
     UpdDone, Reset, WriteMessage, Produced, WaitReading, WriteEnd, ProducedEnd, WaitEnd,
     ProducerSemFails, RemoveObject, ProducerExit, Before, Working, Between
<1>2. /\ queue \in [MessageTypes -> Nat] /\ Confirmations \in Nat /\ countConsumers \in Nat
      /\ Cardinality(Members) + Confirmations <= countConsumers
  BY <1>1 DEF SemInv, TypeOK, MessageTypes, Confirmations, LockInv, SeatInv
<1>3. CASE WriteMessage
  <2>1. Members' \subseteq Members
    BY <1>3, WriteTexts DEF Members, InLoop, AtEnd
  <2>2. Cardinality(Members') \in Nat /\ Cardinality(Members') <= Cardinality(Members)
    BY <2>1, MembersFinite, FS_Subset, FS_CardinalityType
  <2>3. Confirmations' = Confirmations /\ countConsumers' = countConsumers
    BY <1>3 DEF WriteMessage, Confirmations
  <2> QED
    BY <1>2, <2>2, <2>3, MembersFinite DEF SeatInv
<1>4. CASE Confirm
  <2>1. Members' = Members
    BY <1>4, ProducerTexts DEF SemInv, ProducerStep, Confirm, WriteMessage
  <2>2. Confirmations' = Confirmations + 1 /\ countConsumers' = countConsumers + 1
    BY <1>2, <1>4 DEF Confirm, Confirmations, MessageTypes
  <2> QED
    BY <1>2, <2>1, <2>2, MembersFinite DEF SeatInv
<1>5. CASE ProducerStep /\ ~WriteMessage /\ ~Confirm
  <2>1. Members' = Members
    BY <1>5, ProducerTexts DEF SemInv
  <2>2. Confirmations' = Confirmations /\ countConsumers' = countConsumers
    BY <1>2, <1>5 DEF ProducerStep, InitSem, InitQueue, InitShm, InitStep, TakeReg, UpdDone,
       Reset, Produced, WaitReading, WriteEnd, ProducedEnd, WaitEnd, ProducerSemFails,
       RemoveObject, ProducerExit, Confirmations, MessageTypes
  <2> QED
    BY <1>2, <2>1, <2>2 DEF SeatInv
<1> QED
  BY <1>3, <1>4, <1>5

\* While the producer gives up, no consumer gets anywhere.
LEMMA ConsumerAbort ==
    ASSUME TypeOK, AbortInv, NEW c \in Consumers, OpenSem(c) \/ ConsumerStep(c)
    PROVE  AbortInv'
<1>1. /\ pPc' = pPc /\ cleanup' = cleanup
      /\ \A d \in Consumers : d # c => cPc'[d] = cPc[d]
  BY ConsumerMoves DEF producerVars
<1> SUFFICES ASSUME pPc \in {"abort", "failed"} PROVE AbortInv'
  BY <1>1 DEF AbortInv
<1>2. /\ cPc \in [Consumers -> ConsumerPlaces] /\ queue \in [MessageTypes -> Nat]
      /\ bound \in [Objects -> {"absent", "shared", "gone", "orphan"}]
      /\ cPc[c] \notin {"test", "print", "consumerReset", "consumed", "consumedEnd"}
      /\ Confirmations \in Nat
      /\ semval["SEM_CONSUMER"] \in Int
  BY SEMVMXAssumption DEF TypeOK, AbortInv, MessageTypes, Confirmations, Semaphores
<1>3. /\ ~TestEnd(c) /\ ~PrintMessage(c) /\ ~ConsumerReset(c) /\ ~Consumed(c)
  BY <1>2 DEF TestEnd, PrintMessage, ConsumerReset, Consumed
<1>4. ~WaitWriting(c)
  <2> SUFFICES ASSUME WaitWriting(c) PROVE FALSE
    OBVIOUS
  <2>1. cPc[c] = "waitWriting" /\ Live("sem") /\ semval["SEM_CONSUMER"] > 0
    BY <1>2 DEF WaitWriting, ConsumerApplies, Applies, Blocks
  <2>2. Waiting # 0
    BY <2>1, CountsZero
  <2> QED
    BY <2>1, <2>2 DEF AbortInv, Live
<1>5. cPc'[c] \notin {"test", "print", "consumerReset", "consumed", "consumedEnd"}
  BY <1>2, <1>3, <1>4 DEF ConsumerStep, OpenSem, OpenQueue, OpenShm, Register, Confirmed,
     ConsumerSemFails, ConsumerExit, Goto
<1> SUFFICES \/ bound'["sem"] \in {"gone", "orphan"}
             \/ Waiting' = 0 /\ Confirmations' = 0
             \/ /\ pPc = "abort" /\ cleanup = <<"sem", "queue", "shm">>
                /\ Live("sem")' /\ Live("queue")' /\ semval'["SEM_CONSUMER"] = 0
                /\ cPc'[c] \notin {"abort", "detach"}
                /\ \A d \in Consumers : cPc[d] \notin {"abort", "detach"}
  BY <1>1, <1>5 DEF AbortInv
<1>6. /\ bound["sem"] \in {"gone", "orphan"} => bound'["sem"] \in {"gone", "orphan"}
      /\ bound["sem"] = "shared" => bound'["sem"] = "shared"
      /\ bound'["queue"] = bound["queue"]
  BY <1>2 DEF ConsumerStep, OpenSem, OpenQueue, OpenShm, Register, Confirmed, WaitWriting,
     TestEnd, PrintMessage, ConsumerReset, Consumed, ConsumerSemFails, ConsumerExit, Opened,
     Objects
<1>7. CASE bound["sem"] \in {"gone", "orphan"}
  BY <1>6, <1>7
<1>8. CASE Waiting = 0 /\ Confirmations = 0
  <2>1. cPc[c] # "waitWriting" /\ cPc'[c] # "waitWriting" /\ Confirmations' = 0
    BY <1>2, <1>3, <1>4, <1>8, CountsZero DEF ConsumerStep, OpenSem, OpenQueue, OpenShm,
       Register, Confirmed, ConsumerSemFails, ConsumerExit, Goto, Confirmations, MessageTypes
  <2>2. Waiting' = Waiting
    BY <1>1, <2>1, CountsMove, CountsNat DEF Is
  <2> QED
    BY <1>8, <2>1, <2>2
<1>9. CASE /\ pPc = "abort" /\ cleanup = <<"sem", "queue", "shm">>
           /\ Live("sem") /\ Live("queue") /\ semval["SEM_CONSUMER"] = 0
           /\ \A d \in Consumers : cPc[d] \notin {"abort", "detach"}
  <2>1. ~ConsumerExit(c)
    BY <1>9 DEF ConsumerExit
  <2>2. ~ConsumerSemFails(c)
    BY <1>2, <1>9 DEF ConsumerSemFails, ConsumerFails, OutOfRange, Blocks
  <2>3. semval' = semval /\ cPc'[c] \notin {"abort", "detach"}
    BY <1>2, <1>3, <1>4, <1>9, <2>1, <2>2 DEF ConsumerStep, OpenSem, OpenQueue, OpenShm,
       Register, Confirmed, Goto, semVars
  <2> QED
    BY <1>6, <1>9, <2>3 DEF Live
<1> QED
  BY <1>7, <1>8, <1>9 DEF AbortInv

\* A semop of the producer fails between rounds or after one, never within.
LEMMA ProducerAbort ==
    ASSUME SemInv, AbortInv, ProducerStep
    PROVE  AbortInv'
<1>1. /\ cPc' = cPc /\ Waiting' = Waiting
      /\ countConsumers \in Nat /\ Confirmations \in Nat
      /\ semval["SEM_CONSUMER"] \in 0..SEMVMX /\ semval["SEM_PRODUCER"] \in 0..SEMVMX
      /\ TypeOK /\ TokenInv
  BY ProducerStays DEF SemInv, TypeOK, consumerVars, Confirmations, MessageTypes, Semaphores
<1>2. CASE InitSem \/ InitQueue \/ InitShm
  <2>1. pPc \in Before /\ Confirmations' = Confirmations
    BY <1>2 DEF InitSem, InitQueue, InitShm, InitStep, Before, Confirmations
  <2>2. /\ \A c \in Consumers : cPc[c] \in Unregistered \cup {"waitWriting"}
        /\ Waiting = 0 /\ Confirmations = 0
    BY <1>1, <2>1, CountsNat DEF TokenInv, BetweenInv, ProgressInv
  <2> QED
    BY <1>1, <2>1, <2>2 DEF AbortInv, Unregistered
<1>3. CASE ProducerSemFails
  <2>1. /\ pPc' = "abort" /\ cleanup' = <<"sem", "queue", "shm">> /\ bound' = bound
        /\ semval' = semval /\ Confirmations' = Confirmations
    BY <1>3 DEF ProducerSemFails, Abort, semVars, Confirmations
  <2>2. Live("sem")' /\ Live("queue")'
    BY <1>1, <1>3, <2>1 DEF ProducerSemFails, TokenInv, ObjectsInv, Before, Between, Working,
       Live
  <2>3. CASE pPc \in {"produced", "producedEnd"}
    <3>1. /\ semval["SEM_CONSUMER"] = 0
          /\ \A c \in Consumers : cPc[c] \in Unregistered \cup {"waitWriting"}
      BY <1>1, <2>3 DEF TokenInv, BetweenInv, Between
    <3> QED
      BY <1>1, <2>1, <2>2, <3>1 DEF AbortInv, Unregistered
  <2>4. CASE pPc = "waitReading"
    <3>1. semval["SEM_PRODUCER"] >= countConsumers /\ countConsumers > 0
      BY <1>1, <1>3, <2>4 DEF ProducerSemFails, OutOfRange, Blocks, TokenInv, ProgressInv
    <3>2. PostingInv /\ \A c \in Consumers : cPc[c] \in Unregistered \cup {"abort"} \/ InLoop(c)
      BY <1>1, <2>4, <3>1 DEF TokenInv, RoundInv, TakingInv
    <3>3. Reading = 0 /\ Through = 0 /\ Aborting = 0 /\ semval["SEM_CONSUMER"] = 0
      BY <1>1, <3>1, <3>2, CountsNat DEF PostingInv
    <3>4. \A c \in Consumers : cPc[c] \in Unregistered \cup {"waitWriting"}
      BY <3>2, <3>3, CountsZero DEF InLoop
    <3> QED
      BY <1>1, <2>1, <2>2, <3>3, <3>4 DEF AbortInv, Unregistered
  <2>5. CASE pPc = "waitEnd"
    <3>1. semval["SEM_PRODUCER"] >= countConsumers
      BY <1>1, <1>3, <2>5 DEF ProducerSemFails, OutOfRange, Blocks
    <3>2. /\ Ending + Leaving <= countConsumers /\ semval["SEM_PRODUCER"] <= Leaving
          /\ Confirmations = 0
          /\ \A c \in Consumers : cPc[c] \in Unregistered \cup
               {"waitWriting", "test", "consumedEnd", "detach", "abort", "done"}
      BY <1>1, <2>5 DEF TokenInv, EndInv
    <3>3. Ending = 0
      BY <1>1, <3>1, <3>2, CountsNat
    <3>4. Waiting = 0 /\ \A c \in Consumers : cPc[c] \notin {"test", "consumedEnd"}
      BY <3>3, CountsZero
    <3> QED
      BY <1>1, <2>1, <3>2, <3>4 DEF AbortInv, Unregistered
  <2> QED
    BY <1>3, <2>3, <2>4, <2>5 DEF ProducerSemFails
<1>4. CASE RemoveObject
  <2>1. /\ pPc' = pPc /\ cleanup # << >> /\ Head(cleanup) \in Objects
        /\ bound' = [bound EXCEPT ![Head(cleanup)] = "gone"]
        /\ Confirmations' = Confirmations
    BY <1>1, <1>4 DEF RemoveObject, Remove, TypeOK, Confirmations
  <2>2. bound \in [Objects -> {"absent", "shared", "gone", "orphan"}] /\ "sem" \in Objects
    BY <1>1 DEF TypeOK, Objects
  <2>3. /\ bound["sem"] \in {"gone", "orphan"} => bound'["sem"] \in {"gone", "orphan"}
        /\ cleanup = <<"sem", "queue", "shm">> => bound'["sem"] = "gone"
    BY <2>1, <2>2
  <2> QED
    BY <1>1, <2>1, <2>3 DEF AbortInv
<1>5. CASE ProducerExit
  <2>1. /\ pPc' = "failed" => pPc = "abort"
        /\ pPc' # "abort" /\ cleanup = << >> /\ bound' = bound
        /\ Confirmations' = Confirmations
    BY <1>5 DEF ProducerExit, Confirmations
  <2> QED
    BY <1>1, <2>1 DEF AbortInv
<1>6. CASE /\ ProducerStep /\ ~InitSem /\ ~InitQueue /\ ~InitShm
           /\ ~ProducerSemFails /\ ~RemoveObject /\ ~ProducerExit
  <2>1. pPc' \notin {"abort", "failed"}
    BY <1>6 DEF ProducerStep, TakeReg, Confirm, UpdDone, Reset, WriteMessage, Produced,
       WaitReading, WriteEnd, ProducedEnd, WaitEnd
  <2> QED
    BY <2>1 DEF AbortInv
<1> QED
  BY <1>2, <1>3, <1>4, <1>5, <1>6

-----------------------------------------------------------------------------
(* Who has which text. *)

\* A list is begun in the loop, and ends with a text that has been announced.
LEMMA ConsumerFresh ==
    ASSUME SemInv, LockInv, NEW c \in Consumers, OpenSem(c) \/ ConsumerStep(c)
    PROVE  FreshInv'
<1>1. /\ announced' = announced /\ FreshInv
      /\ \A d \in Consumers : d # c => cPc'[d] = cPc[d]
      /\ cPc \in [Consumers -> ConsumerPlaces] /\ announced.text \in Nat
  BY ConsumerMoves DEF SemInv, TypeOK, producerVars, LockInv
<1>2. cPc'[c] \in {"semget", "msgget", "shmget", "register", "awaitConfirm"} =>
        cPc[c] \in {"semget", "msgget", "shmget", "register", "awaitConfirm"}
  BY <1>1 DEF ConsumerStep, OpenSem, OpenQueue, OpenShm, Register, Confirmed, WaitWriting,
     TestEnd, PrintMessage, ConsumerReset, Consumed, ConsumerSemFails, ConsumerExit, Goto
<1>3. CASE PrintMessage(c)
  <2>1. /\ cPc'[c] = "consumerReset" /\ announced.text # 0
        /\ LastSeen(c)' = announced.text /\ \A d \in Consumers : d # c => seen'[d] = seen[d]
    BY <1>1, <1>3, PrintedNext, PrintsInRound DEF PrintMessage, Goto
  <2> QED
    BY <1>1, <2>1 DEF FreshInv, LastSeen
<1>4. CASE ~PrintMessage(c)
  <2>1. seen' = seen
    BY <1>4, ConsumerTexts
  <2> QED
    BY <1>1, <1>2, <2>1 DEF FreshInv, LastSeen
<1> QED
  BY <1>3, <1>4

\* A new announcement has a larger number.
LEMMA ProducerFresh ==
    ASSUME SemInv, LockInv, ProducerStep
    PROVE  FreshInv'
<1>1. CASE WriteMessage
  <2>1. /\ cPc' = cPc /\ seen' = seen /\ announced'.text = i + 1 /\ announced.text = i /\ i \in Nat
        /\ FreshInv /\ seen \in [Consumers -> Seq(Nat)]
    BY <1>1, WriteTexts DEF LockInv, SemInv, TypeOK
  <2>2. \A c \in Consumers : seen[c] # << >> => LastSeen(c)' <= announced'.text
    <3> SUFFICES ASSUME NEW c \in Consumers, seen[c] # << >>
                 PROVE  LastSeen(c)' <= announced'.text
      OBVIOUS
    <3>1. LastSeen(c) \in Nat /\ LastSeen(c)' = LastSeen(c)
      BY <2>1 DEF LastSeen
    <3> QED
      BY <2>1, <3>1 DEF FreshInv
  <2> QED
    BY <2>1, <2>2 DEF FreshInv
<1>2. CASE ~WriteMessage
  BY <1>2, ProducerTexts DEF SemInv, LockInv, FreshInv, LastSeen
<1> QED
  BY <1>1, <1>2

\* Between two rounds everybody who waits has the text or has just come.
LEMMA ConsumerGather ==
    ASSUME SemInv, LockInv, NEW c \in Consumers, OpenSem(c) \/ ConsumerStep(c)
    PROVE  GatherInv'
<1>1. /\ pPc' = pPc /\ announced' = announced /\ TokenInv /\ GatherInv
      /\ \A d \in Consumers : d # c => cPc'[d] = cPc[d]
      /\ cPc \in [Consumers -> ConsumerPlaces] /\ queue \in [MessageTypes -> Nat]
  BY ConsumerMoves DEF SemInv, TypeOK, producerVars, LockInv
<1> SUFFICES ASSUME pPc \in Working \ {"waitReading"} PROVE GatherInv'
  BY <1>1 DEF GatherInv, Working, Between
<1>2. ~PrintMessage(c)
  BY PrintsInRound
<1>3. /\ seen' = seen /\ Got' = Got /\ \A d \in Consumers : Due(d)' <=> Due(d)
  BY <1>2, ConsumerTexts
<1>4. cPc[c] \notin {"print", "consumerReset", "consumed"}
  BY <1>1 DEF TokenInv, BetweenInv, EndInv, Working, Unregistered
<1>5. /\ pPc # "waitEnd" => cPc[c] \notin {"test", "consumedEnd", "detach", "done"}
      /\ pPc # "waitEnd" => ~WaitWriting(c)
  <2>1. pPc # "waitEnd" =>
          cPc[c] \in Unregistered \cup {"waitWriting"} /\ semval["SEM_CONSUMER"] = 0
    BY <1>1 DEF TokenInv, BetweenInv, Working
  <2> QED
    BY <2>1 DEF Unregistered, WaitWriting, ConsumerApplies, Applies, Blocks
<1>6. cPc'[c] = "waitWriting" =>
        \/ cPc[c] = "waitWriting"
        \/ seen[c] = << >> /\ pPc \notin {"writeEnd", "producedEnd", "waitEnd"}
  <2> SUFFICES ASSUME cPc'[c] = "waitWriting", cPc[c] # "waitWriting"
               PROVE  seen[c] = << >> /\ pPc \notin {"writeEnd", "producedEnd", "waitEnd"}
    OBVIOUS
  <2>1. Confirmed(c) /\ cPc[c] = "awaitConfirm"
    BY <1>1, <1>4 DEF ConsumerStep, OpenSem, OpenQueue, OpenShm, Register, Confirmed,
       WaitWriting, TestEnd, PrintMessage, ConsumerReset, Consumed, ConsumerSemFails,
       ConsumerExit, Goto
  <2>2. Confirmations > 0
    BY <1>1, <2>1 DEF Confirmed, TokenInv, ObjectsInv, Confirmations
  <2> QED
    BY <1>1, <2>1, <2>2 DEF LockInv, FreshInv, TokenInv, BetweenInv, EndInv, Between
<1>7. cPc'[c] = "test" \/ AtEnd(c)' => cPc[c] = "waitWriting" \/ cPc[c] = "test" \/ AtEnd(c)
  BY <1>1, <1>4 DEF ConsumerStep, OpenSem, OpenQueue, OpenShm, Register, Confirmed,
     WaitWriting, TestEnd, PrintMessage, ConsumerReset, Consumed, ConsumerSemFails,
     ConsumerExit, Goto, AtEnd
<1>8. pPc \in {"writeEnd", "producedEnd", "waitEnd"} =>
        \A d \in Consumers : cPc'[d] = "waitWriting" \/ cPc'[d] = "test" \/ AtEnd(d)' => d \in Got
  BY <1>1, <1>6, <1>7 DEF GatherInv, AtEnd
<1>9. /\ pPc \in {"updConsumers", "confirm", "reset", "write"} =>
           \A d \in Consumers : cPc'[d] = "waitWriting" => d \in Got \/ seen[d] = << >>
      /\ pPc = "produced" => \A d \in Consumers : cPc'[d] = "waitWriting" => Due(d)
  BY <1>1, <1>6 DEF GatherInv, Due
<1> QED
  BY <1>1, <1>3, <1>8, <1>9 DEF GatherInv

\* At the end of a round those who wait are all the members: the round is over.
LEMMA RoundEnds ==
    ASSUME SemInv, LockInv, WaitReading
    PROVE  /\ \A c \in Consumers : cPc[c] \in Unregistered \cup {"waitWriting"}
           /\ \A c \in Consumers : cPc[c] = "waitWriting" => c \in Got
           /\ Cardinality(Got) = announced.consumers
<1>1. /\ countConsumers \in Nat /\ Confirmations \in Nat /\ TokenInv
      /\ semval["SEM_CONSUMER"] \in 0..SEMVMX /\ semval["SEM_PRODUCER"] \in 0..SEMVMX
  BY DEF SemInv, TypeOK, Confirmations, MessageTypes, Semaphores
<1>2. /\ pPc = "waitReading" /\ countConsumers > 0 /\ semval["SEM_PRODUCER"] >= countConsumers
  BY <1>1 DEF WaitReading, ProducerApplies, Applies, Blocks, TokenInv, ProgressInv
<1>3. PostingInv /\ \A c \in Consumers : cPc[c] \in Unregistered \cup {"abort"} \/ InLoop(c)
  BY <1>1, <1>2 DEF TokenInv, RoundInv, TakingInv
<1>4. Reading = 0 /\ Through = 0 /\ Aborting = 0 /\ Waiting = countConsumers
  BY <1>1, <1>2, <1>3, CountsNat DEF PostingInv
<1>5. \A c \in Consumers : cPc[c] \in Unregistered \cup {"waitWriting"}
  BY <1>3, <1>4, CountsZero DEF InLoop
<1>6. \A c \in Consumers : cPc[c] = "waitWriting" => c \in Got
  BY <1>1, <1>2 DEF LockInv, RoundSeenInv
<1>7. Cardinality(Got) = countConsumers
  <2> DEFINE W == {c \in Consumers : cPc[c] \in {"waitWriting"}}
  <2>1. W \subseteq Got /\ Cardinality(W) = countConsumers
    BY <1>4, <1>6 DEF Waiting, Count
  <2>2. Cardinality(W) <= Cardinality(Got)
    BY <2>1, MembersFinite, FS_Subset
  <2>3. Cardinality(Got) <= Cardinality(Members)
    BY MembersFinite, FS_Subset
  <2>4. Cardinality(Members) + Confirmations <= countConsumers
    BY <1>2 DEF LockInv, SeatInv, Working
  <2> QED
    BY <1>1, <2>1, <2>2, <2>3, <2>4, MembersFinite
<1> QED
  BY <1>2, <1>5, <1>6, <1>7 DEF LockInv, AnnounceInv

\* The producer goes on when the round is over, and makes everybody due.
LEMMA ProducerGather ==
    ASSUME SemInv, LockInv, ProducerStep
    PROVE  GatherInv'
<1>1. TypeOK /\ TokenInv /\ GatherInv /\ AnnounceInv /\ FreshInv
  BY DEF SemInv, LockInv
<1>2. CASE InitSem \/ InitQueue \/ InitShm
  <2>1. ~WriteMessage /\ pPc \in Before /\ pPc' \in Before \cup {"updConsumers", "abort"}
    BY <1>2 DEF InitSem, InitQueue, InitShm, InitStep, Abort, Before, WriteMessage
  <2>2. announced.text = 0 /\ announced.consumers = 0 /\ \A c \in Consumers : seen[c] = << >>
    BY <1>1, <2>1 DEF AnnounceInv, FreshInv
  <2>3. Got = {}
    BY <2>2 DEF Got
  <2>4. Cardinality(Got) = 0
    BY <2>3, FS_EmptySet
  <2> QED
    BY <1>1, <2>1, <2>2, <2>4, ProducerTexts DEF GatherInv, Before, Working, Between
<1>3. CASE WaitReading
  <2>1. ~WriteMessage /\ pPc' \in {"updConsumers", "writeEnd"}
    BY <1>3 DEF WaitReading, WriteMessage
  <2>2. /\ seen' = seen /\ cPc' = cPc /\ Got' = Got /\ announced' = announced
    BY <1>1, <2>1, ProducerTexts
  <2> QED
    BY <1>3, <2>1, <2>2, RoundEnds DEF GatherInv, AtEnd, Unregistered
<1>4. CASE WriteMessage
  <2>1. pPc = "write" /\ pPc' = "produced"
    BY <1>4 DEF WriteMessage
  <2> QED
    BY <1>1, <1>4, <2>1, WriteTexts DEF GatherInv
<1>5. CASE TakeReg \/ Confirm \/ UpdDone \/ Reset
  <2>1. /\ ~WriteMessage
        /\ pPc \in {"updConsumers", "confirm", "reset"}
        /\ pPc' \in {"updConsumers", "confirm", "reset", "write"}
    BY <1>5 DEF TakeReg, Confirm, UpdDone, Reset, WriteMessage
  <2> QED
    BY <1>1, <2>1, ProducerTexts DEF GatherInv, Working, Between
<1>6. CASE WriteEnd \/ ProducedEnd
  <2>1. /\ ~WriteMessage
        /\ pPc \in {"writeEnd", "producedEnd"} /\ pPc' \in {"producedEnd", "waitEnd"}
    BY <1>6 DEF WriteEnd, ProducedEnd, WriteMessage
  <2>2. \A c \in Consumers : AtEnd(c)' <=> AtEnd(c)
    BY <1>1, <2>1, ProducerTexts DEF AtEnd
  <2> QED
    BY <1>1, <2>1, <2>2, ProducerTexts DEF GatherInv, Working, Between
<1>7. CASE Produced \/ WaitEnd \/ ProducerSemFails \/ RemoveObject \/ ProducerExit
  <2>1. pPc' \in {"waitReading", "destroyIpc", "abort", "done", "failed"}
    BY <1>7 DEF Produced, WaitEnd, ProducerSemFails, Abort, RemoveObject, ProducerExit
  <2> QED
    BY <2>1 DEF GatherInv, Working, Between
<1> QED
  BY <1>2, <1>3, <1>4, <1>5, <1>6, <1>7 DEF ProducerStep

\* The round opens with tokens for everybody who waits, all of them due.
LEMMA ProducerRoundSeen ==
    ASSUME SemInv, LockInv, ProducerStep
    PROVE  RoundSeenInv'
<1> SUFFICES ASSUME pPc' = "waitReading" PROVE RoundSeenInv'
  BY DEF RoundSeenInv
<1>1. Produced
  BY DEF ProducerStep, InitSem, InitQueue, InitShm, InitStep, Abort, TakeReg, Confirm,
     UpdDone, Reset, WriteMessage, Produced, WaitReading, WriteEnd, ProducedEnd, WaitEnd,
     ProducerSemFails, RemoveObject, ProducerExit
<1>2. /\ pPc = "produced" /\ ~WriteMessage /\ TypeOK /\ semval \in [Semaphores -> 0..SEMVMX]
      /\ semval' = [semval EXCEPT !["SEM_CONSUMER"] = @ + countConsumers]
  BY <1>1 DEF Produced, WriteMessage, SemInv, TypeOK, ProducerApplies
<1>3. /\ semval'["SEM_PRODUCER"] = 0
      /\ \A c \in Consumers : cPc[c] \in Unregistered \cup {"waitWriting"}
  BY <1>2 DEF SemInv, TokenInv, BetweenInv, Between, Semaphores
<1>4. Through = 0 /\ Through' = Through
  BY <1>2, <1>3, CountsZero, ProducerStays DEF Unregistered
<1>5. \A c \in Consumers : cPc[c] = "waitWriting" => Due(c)
  BY <1>2 DEF LockInv, GatherInv
<1> QED
  BY <1>2, <1>3, <1>4, <1>5, ProducerTexts DEF RoundSeenInv, Unregistered

\* Within a round: as long as a token is left who waits is due, and once a token
\* is posted who waits has the text.
LEMMA ConsumerRoundSeen ==
    ASSUME SemInv, SemInv', LockInv, NEW c \in Consumers, OpenSem(c) \/ ConsumerStep(c)
    PROVE  RoundSeenInv'
<1>1. /\ pPc' = pPc /\ announced' = announced
      /\ \A d \in Consumers : d # c => cPc'[d] = cPc[d]
      /\ cPc \in [Consumers -> ConsumerPlaces] /\ queue \in [MessageTypes -> Nat]
  BY ConsumerMoves DEF SemInv, TypeOK, producerVars
<1> SUFFICES ASSUME pPc = "waitReading" PROVE RoundSeenInv'
  BY <1>1 DEF RoundSeenInv
<1> DEFINE AllDue == \A d \in Consumers : cPc[d] = "waitWriting" => Due(d)
           AllHave == \A d \in Consumers : cPc[d] = "waitWriting" => d \in Got
<1>2. /\ \A d \in Consumers : cPc[d] \in {"consumerReset", "consumed"} => d \in Got
      /\ \A d \in Consumers : cPc[d] \in {"test", "print"} => Due(d)
      /\ semval["SEM_CONSUMER"] > 0 \/ Aborting > 0 => AllDue
      /\ semval["SEM_PRODUCER"] > 0 \/ Through > 0 => AllHave
  BY DEF LockInv, RoundSeenInv
<1>3. /\ TakingInv \/ PostingInv
      /\ TakingInv' \/ PostingInv'
      /\ \A d \in Consumers : cPc[d] \in Unregistered \cup {"abort"} \/ InLoop(d)
  BY <1>1 DEF SemInv, TokenInv, RoundInv
<1>4. /\ semval \in [Semaphores -> 0..SEMVMX]
      /\ semval["SEM_CONSUMER"] \in 0..SEMVMX /\ semval["SEM_PRODUCER"] \in 0..SEMVMX
      /\ semval'["SEM_CONSUMER"] \in 0..SEMVMX /\ semval'["SEM_PRODUCER"] \in 0..SEMVMX
      /\ Confirmations \in Nat /\ Confirmations' \in Nat
      /\ Live("sem") /\ Live("queue")
  BY DEF SemInv, TypeOK, Semaphores, Confirmations, MessageTypes, TokenInv, ObjectsInv, Working
<1>5. /\ Waiting \in Nat /\ Aborting \in Nat /\ Through \in Nat
      /\ Waiting' \in Nat /\ Aborting' \in Nat /\ Through' \in Nat
  BY CountNat DEF Waiting, Aborting, Through
<1>6. CASE PrintMessage(c)
  <2>1. /\ cPc[c] = "print" /\ cPc'[c] = "consumerReset" /\ semval' = semval
    BY <1>1, <1>6 DEF PrintMessage, Goto, semVars
  <2>2. Aborting' = Aborting /\ Through' = Through
    BY <1>1, <1>5, <2>1, CountsMove DEF Is
  <2>3. /\ Got' = Got \cup {c}
        /\ \A d \in Consumers : d # c => (Due(d)' <=> Due(d))
    BY <1>1, <1>6, PrintedNext DEF Due, LastSeen
  <2> QED
    BY <1>1, <1>2, <2>1, <2>2, <2>3 DEF RoundSeenInv
<1>7. CASE ~PrintMessage(c)
  <2>1. Got' = Got /\ \A d \in Consumers : Due(d)' <=> Due(d)
    BY <1>7, ConsumerTexts
  <2>2. SUFFICES /\ cPc'[c] \in {"consumerReset", "consumed"} => c \in Got
                 /\ cPc'[c] \in {"test", "print"} => Due(c)
                 /\ semval'["SEM_CONSUMER"] > 0 \/ Aborting' > 0 =>
                      AllDue /\ (cPc'[c] = "waitWriting" => Due(c))
                 /\ semval'["SEM_PRODUCER"] > 0 \/ Through' > 0 =>
                      AllHave /\ (cPc'[c] = "waitWriting" => c \in Got)
    BY <1>1, <1>2, <2>1 DEF RoundSeenInv
  <2>3. CASE OpenSem(c) \/ OpenQueue(c) \/ OpenShm(c) \/ Register(c)
    <3>1. /\ cPc[c] \in Unregistered \ {"awaitConfirm"} /\ semval' = semval
          /\ cPc'[c] \in Unregistered
      BY <1>1, <1>4, <2>3 DEF OpenSem, OpenQueue, OpenShm, Register, Goto, semVars, Unregistered
    <3>2. Aborting' = Aborting /\ Through' = Through
      BY <1>1, <1>5, <3>1, CountsMove DEF Is, Unregistered
    <3> QED
      BY <1>2, <3>1, <3>2 DEF Unregistered
  <2>4. CASE Confirmed(c)
    <3>1. /\ cPc[c] = "awaitConfirm" /\ cPc'[c] = "waitWriting" /\ semval' = semval
          /\ Confirmations > 0
      BY <1>1, <1>4, <2>4 DEF Confirmed, Goto, semVars, Confirmations
    <3>2. Due(c)
      BY <3>1 DEF LockInv, FreshInv, Due
    <3>3. Aborting' = Aborting /\ Through' = Through
      BY <1>1, <1>5, <3>1, CountsMove DEF Is
    <3>4. Through = 0 /\ semval["SEM_PRODUCER"] = 0
      BY <1>3, <1>4, <3>1 DEF TakingInv, PostingInv
    <3> QED
      BY <1>2, <3>1, <3>2, <3>3, <3>4
  <2>5. CASE WaitWriting(c)
    <3>1. /\ cPc[c] = "waitWriting" /\ cPc'[c] = "test" /\ semval["SEM_CONSUMER"] > 0
          /\ semval'["SEM_PRODUCER"] = semval["SEM_PRODUCER"]
      BY <1>1, <1>4, <2>5 DEF WaitWriting, Goto, ConsumerApplies, Applies, Blocks, Semaphores
    <3>2. Through' = Through
      BY <1>1, <1>5, <3>1, CountsMove DEF Is
    <3> QED
      BY <1>2, <3>1, <3>2
  <2>6. CASE TestEnd(c)
    <3>1. /\ cPc[c] = "test" /\ cPc'[c] \in {"print", "consumedEnd"} /\ semval' = semval
      BY <1>1, <2>6 DEF TestEnd, Goto, semVars
    <3>2. Aborting' = Aborting /\ Through' = Through
      BY <1>1, <1>5, <3>1, CountsMove DEF Is
    <3> QED
      BY <1>2, <3>1, <3>2
  <2>7. CASE ConsumerReset(c)
    <3>1. /\ cPc[c] = "consumerReset" /\ cPc'[c] = "consumed" /\ semval' = semval
          /\ semval["SEM_CONSUMER"] = 0
      BY <1>1, <1>4, <2>7 DEF ConsumerReset, Goto, ConsumerApplies, Applies, Blocks, Semaphores
    <3>2. Aborting' = Aborting
      BY <1>1, <1>5, <3>1, CountsMove DEF Is
    <3>3. AllHave
      <4>1. CASE Waiting = 0
        BY <4>1, CountsZero
      <4>2. CASE Waiting # 0
        <5>1. PostingInv /\ semval["SEM_PRODUCER"] > 0
          BY <1>3, <1>4, <1>5, <3>1, <4>2 DEF TakingInv, PostingInv
        <5> QED
          BY <1>2, <5>1
      <4> QED
        BY <4>1, <4>2
    <3> QED
      BY <1>2, <3>1, <3>2, <3>3
  <2>8. CASE Consumed(c)
    <3>1. /\ cPc[c] = "consumed" /\ cPc'[c] = "waitWriting"
          /\ semval'["SEM_CONSUMER"] = semval["SEM_CONSUMER"]
      BY <1>1, <1>3, <1>4, <2>8 DEF Consumed, Goto, ConsumerApplies, Semaphores, Unregistered,
         InLoop
    <3>2. Through > 0 /\ Aborting' = Aborting
      BY <1>1, <1>5, <3>1, CountsMove, CountsZero DEF Is
    <3>3. Aborting = 0 /\ semval["SEM_CONSUMER"] = 0
      BY <1>3, <3>2 DEF TakingInv, PostingInv
    <3> QED
      BY <1>2, <3>1, <3>2, <3>3
  <2>9. CASE ConsumerSemFails(c)
    <3>1. /\ cPc[c] # "abort" /\ cPc'[c] = "abort" /\ semval' = semval
      BY <1>1, <2>9 DEF ConsumerSemFails, Goto, semVars
    <3>2. Aborting' = Aborting + 1
      BY <1>1, <1>5, <3>1, CountsMove DEF Is
    <3>3. /\ semval["SEM_CONSUMER"] > 0 /\ semval["SEM_PRODUCER"] = 0 /\ Through' = 0
      BY <1>3, <1>4, <1>5, <3>1, <3>2 DEF TakingInv, PostingInv
    <3> QED
      BY <1>2, <3>1, <3>3
  <2>10. CASE ConsumerExit(c)
    <3>1. /\ cPc[c] = "abort" /\ cPc'[c] = "failed"
          /\ semval' = semval \/ semval'["SEM_PRODUCER"] = Undone(semval["SEM_PRODUCER"], adjC[c]["SEM_PRODUCER"])
      BY <1>1, <1>3, <2>10 DEF ConsumerExit, Goto, Semaphores, Unregistered, InLoop
    <3>2. Aborting > 0 /\ Through' = Through
      BY <1>1, <1>5, <3>1, CountsMove, CountsZero DEF Is
    <3>3. Through = 0 /\ semval["SEM_PRODUCER"] = 0
      BY <1>3, <3>2 DEF TakingInv, PostingInv
    <3>4. adjC[c]["SEM_PRODUCER"] <= 0 /\ adjC[c]["SEM_PRODUCER"] \in Int
      <4>1. adjC[c]["SEM_PRODUCER"] <= 0 /\ adjC[c]["SEM_PRODUCER"] \in SemAdjustments
        <5>1. adjC[c]["SEM_PRODUCER"] \in SemAdjustments
          BY DEF SemInv, TypeOK, Semaphores
        <5>2. adjC[c]["SEM_PRODUCER"] <= 0
          BY DEF SemInv, TokenInv, AdjustmentInv
        <5> QED
          BY <5>1, <5>2
      <4> QED
        BY <4>1, SEMVMXAssumption DEF SemAdjustments
    <3>5. semval'["SEM_PRODUCER"] = 0
      BY <3>1, <3>3, <3>4, SEMVMXAssumption DEF Undone
    <3> QED
      BY <1>2, <3>1, <3>2, <3>3, <3>5
  <2> QED
    BY <1>7, <2>3, <2>4, <2>5, <2>6, <2>7, <2>8, <2>9, <2>10 DEF ConsumerStep
<1> QED
  BY <1>6, <1>7

-----------------------------------------------------------------------------
(* The invariant, and the refinement. *)

\* The invariant holds before anybody has come ...
LEMMA InitLockInv == Init => LockInv
<1> SUFFICES ASSUME Init PROVE LockInv
  OBVIOUS
<1>1. /\ Got = {} /\ Members = {}
  BY DEF Init, Got, Members, InLoop, AtEnd
<1>2. Cardinality(Members) = 0
  BY <1>1, FS_EmptySet
<1>3. Newcomers = Cardinality(Consumers) /\ Cardinality(Consumers) \in Nat
  <2>1. Consumers = {c \in Consumers : cPc[c] \in {"semget", "msgget", "shmget", "register"}}
    BY DEF Init
  <2> QED
    BY <2>1, ConsumersAssumption, FS_CardinalityType DEF Newcomers, Count
<1>4. RegistrationInv
  BY <1>3 DEF Init, RegistrationInv, MessageTypes
<1>5. AnnounceInv /\ SeatInv /\ AbortInv
  BY <1>2 DEF Init, AnnounceInv, SeatInv, AbortInv, Before, Between, Working, Confirmations,
     MessageTypes, END_PRODUCE
<1>6. FreshInv /\ GatherInv /\ RoundSeenInv
  BY DEF Init, FreshInv, GatherInv, RoundSeenInv, Working, Between
<1> QED
  BY <1>4, <1>5, <1>6 DEF LockInv

\* ... and every step of either program keeps it.
LEMMA LockInvStep == SemInv /\ SemInv' /\ LockInv /\ [Next]_vars => LockInv'
<1> SUFFICES ASSUME SemInv, SemInv', LockInv, [Next]_vars PROVE LockInv'
  OBVIOUS
<1>1. TypeOK /\ RegistrationInv /\ AnnounceInv /\ AbortInv
  BY DEF SemInv, LockInv
<1>2. CASE ProducerStep
  BY <1>1, <1>2, ProducerRegistration, ProducerAnnounce, ProducerSeats, ProducerAbort,
     ProducerFresh, ProducerGather, ProducerRoundSeen DEF LockInv
<1>3. ASSUME NEW c \in Consumers, OpenSem(c) \/ ConsumerStep(c) PROVE LockInv'
  BY <1>1, <1>3, ConsumerRegistration, ConsumerAnnounce, ConsumerSeats, ConsumerAbort,
     ConsumerFresh, ConsumerGather, ConsumerRoundSeen DEF LockInv
<1>4. CASE UNCHANGED vars
  <2>1. /\ Newcomers' = Newcomers /\ Waiting' = Waiting /\ Through' = Through
        /\ Aborting' = Aborting /\ Confirmations' = Confirmations
        /\ Got' = Got /\ Members' = Members /\ \A c \in Consumers : Due(c)' <=> Due(c)
    BY <1>4 DEF vars, producerVars, consumerVars, Newcomers, Waiting, Through, Aborting,
       Confirmations, Got, Members, Due, LastSeen, InLoop, AtEnd
  <2>2. RegistrationInv' /\ AnnounceInv' /\ SeatInv' /\ AbortInv'
    BY <1>4, <2>1 DEF vars, producerVars, consumerVars, semVars, LockInv, RegistrationInv,
       AnnounceInv, SeatInv, AbortInv, Live
  <2>3. FreshInv' /\ GatherInv' /\ RoundSeenInv'
    BY <1>4, <2>1 DEF vars, producerVars, consumerVars, semVars, LockInv, FreshInv, GatherInv,
       RoundSeenInv, LastSeen, AtEnd
  <2> QED
    BY <2>2, <2>3 DEF LockInv
<1> QED
  BY <1>2, <1>3, <1>4 DEF Next

\* The instance's Cardinality is the one used here.
LEMMA SameCardinality == \A S : Lockstep!Cardinality(S) = Cardinality(S)
BY DEF Lockstep!Cardinality, Cardinality

\* A step of the producer is Publish, Close or Complete, or nothing.
LEMMA ProducerRefines ==
    ASSUME SemInv, LockInv, ProducerStep
    PROVE  [Lockstep!Next]_(Lockstep!vars)
<1>1. /\ TypeOK /\ ProgressInv /\ AnnounceInv /\ GatherInv
      /\ announced \in [consumers : Nat, text : 0..MaxMessages]
  BY DEF SemInv, TypeOK, TokenInv, LockInv
<1>2. CASE WriteMessage
  <2>1. /\ pPc = "write" /\ pPc' = "produced" /\ sharedMem' = i + 1
    BY <1>2 DEF WriteMessage
  <2>2. /\ Cardinality(Got) = announced.consumers /\ announced.consumers <= countConsumers
        /\ sharedMem = announced.text /\ countConsumers > 0 /\ countConsumers \in Nat
    BY <1>1, <2>1 DEF GatherInv, AnnounceInv, ProgressInv, Working, Between, TypeOK
  <2>3. countConsumers <= Cardinality(Consumers)
    <3>1. /\ Newcomers \in Nat /\ Cardinality(Consumers) \in Nat /\ queue["MSG_REG"] \in Nat
      BY <1>1, CountNat, ConsumersAssumption, FS_CardinalityType DEF Newcomers, TypeOK, MessageTypes
    <3> QED
      BY <2>1, <2>2, <3>1 DEF LockInv, RegistrationInv
  <2>4. countConsumers \in (1..Cardinality(Consumers)) \cap {n \in Nat : n >= announced.consumers}
    BY <1>1, <2>2, <2>3, ConsumersAssumption, FS_CardinalityType
  <2>5. {c \in Consumers : AtEnd(c)}' = {c \in Consumers : AtEnd(c)}
    BY <1>2, WriteTexts DEF AtEnd
  <2>6. Lockstep!Publish
    BY <1>2, <2>1, <2>2, <2>4, <2>5, WriteTexts, SameCardinality
       DEF Lockstep!Publish, Lockstep!RoundOver, END_PRODUCE
  <2> QED
    BY <2>6 DEF Lockstep!Next
<1>3. CASE ~WriteMessage
  <2>1. /\ announced' = announced /\ Got' = Got /\ seen' = seen
        /\ {c \in Consumers : AtEnd(c)}' = {c \in Consumers : AtEnd(c)}
    BY <1>1, <1>3, ProducerTexts DEF AtEnd
  <2>2. CASE WriteEnd
    <3>1. /\ pPc = "writeEnd" /\ pPc' = "producedEnd" /\ sharedMem' = END_PRODUCE
      BY <2>2 DEF WriteEnd
    <3>2. /\ Cardinality(Got) = announced.consumers /\ sharedMem = announced.text
          /\ announced.text > 0
      BY <1>1, <3>1 DEF GatherInv, AnnounceInv, ProgressInv, Working, Between, TypeOK
    <3>3. Lockstep!Close
      BY <2>1, <3>1, <3>2, SameCardinality DEF Lockstep!Close, Lockstep!RoundOver, END_PRODUCE
    <3> QED
      BY <3>3 DEF Lockstep!Next
  <2>3. CASE WaitEnd
    <3>1. /\ pPc = "waitEnd" /\ pPc' = "destroyIpc" /\ sharedMem' = sharedMem
          /\ countConsumers' = countConsumers
      BY <2>3 DEF WaitEnd
    <3>2. /\ Cardinality(Got) = countConsumers /\ announced.text > 0 /\ sharedMem = END_PRODUCE
          /\ \A c \in Consumers : AtEnd(c) => c \in Got
      BY <1>1, <3>1 DEF GatherInv, AnnounceInv, ProgressInv, Working, Between, TypeOK
    <3>3. /\ Leaving' = countConsumers
          /\ \A c \in Consumers : cPc[c] # "consumedEnd"
      <4>1. DestroyInv' /\ cPc' = cPc
        BY <1>1, <1>3, ProducerTexts, ProducerRounds DEF SemInv, TokenInv
      <4> QED
        BY <3>1, <4>1 DEF DestroyInv
    <3>4. {c \in Consumers : AtEnd(c)} = {c \in Consumers : cPc[c] \in {"detach", "done"}}
      BY <3>3 DEF AtEnd
    <3>5. Leaving = countConsumers
      BY <1>1, <3>3, ProducerStays
    <3>6. Cardinality({c \in Consumers : AtEnd(c)}) = Cardinality(Got)
      BY <3>2, <3>4, <3>5 DEF Leaving, Count
    <3>7. {c \in Consumers : AtEnd(c)} = Got
      BY <3>2, <3>6, MembersFinite, FS_Subset
    <3>8. Lockstep!Complete
      BY <2>1, <3>1, <3>2, <3>7 DEF Lockstep!Complete, END_PRODUCE
    <3> QED
      BY <3>8 DEF Lockstep!Next
  <2>4. CASE ~WriteEnd /\ ~WaitEnd
    <3>1. sharedMem' = sharedMem
      BY <1>3, <2>4 DEF ProducerStep, InitSem, InitQueue, InitShm, InitStep, TakeReg, Confirm,
         UpdDone, Reset, Produced, WaitReading, ProducedEnd, ProducerSemFails, RemoveObject,
         ProducerExit
    <3>2. pPc' \in {"destroyIpc", "done"} <=> pPc \in {"destroyIpc", "done"}
      BY <1>3, <2>4 DEF ProducerStep, InitSem, InitQueue, InitShm, InitStep, Abort, TakeReg,
         Confirm, UpdDone, Reset, Produced, WaitReading, ProducedEnd, ProducerSemFails,
         RemoveObject, ProducerExit
    <3> QED
      BY <2>1, <3>1, <3>2 DEF Lockstep!vars
  <2> QED
    BY <2>2, <2>3, <2>4
<1> QED
  BY <1>2, <1>3

\* Who has seen the end does not come to another place.
LEMMA EndIsFinal ==
    ASSUME SemInv, LockInv, NEW c \in Consumers, OpenSem(c) \/ ConsumerStep(c), AtEnd(c)
    PROVE  AtEnd(c)'
<1>1. /\ cPc \in [Consumers -> ConsumerPlaces] /\ TypeOK /\ TokenInv
      /\ cPc[c] \in {"consumedEnd", "detach", "done"}
  BY DEF SemInv, TypeOK, AtEnd
<1>2. ~ConsumerSemFails(c)
  <2> SUFFICES ASSUME ConsumerSemFails(c) PROVE FALSE
    OBVIOUS
  <2>1. cPc[c] = "consumedEnd" /\ ConsumerFails(c, "SEM_PRODUCER", 1)
    BY <1>1 DEF ConsumerSemFails
  <2>2. pPc = "waitEnd"
    BY <1>1, <2>1 DEF TypeOK, ProducerPlaces, TokenInv, BetweenInv, RoundInv, DestroyInv, LockInv,
       AbortInv, Before, Between, Unregistered, InLoop
  <2>3. Live("sem")
    BY <1>1, <2>2 DEF TokenInv, ObjectsInv, Working
  <2>4. /\ countConsumers <= SEMVMX /\ countConsumers \in Nat
        /\ Ending + Leaving <= countConsumers /\ semval["SEM_PRODUCER"] <= Leaving
        /\ semval["SEM_PRODUCER"] \in 0..SEMVMX
    BY <1>1, <2>2 DEF LockInv, AnnounceInv, TokenInv, EndInv, TypeOK, Semaphores
  <2>5. Ending > 0
    BY <2>1, CountsZero, CountsNat
  <2>6. semval["SEM_PRODUCER"] + 1 <= SEMVMX
    BY <2>4, <2>5, CountsNat, SEMVMXAssumption
  <2>7. /\ adjC[c]["SEM_CONSUMER"] \in SemAdjustments /\ adjC[c]["SEM_PRODUCER"] \in SemAdjustments
        /\ adjC[c]["SEM_CONSUMER"] + adjC[c]["SEM_PRODUCER"] = 1
        /\ adjC[c]["SEM_PRODUCER"] <= 0
    BY <1>1, <2>1 DEF TypeOK, Semaphores, TokenInv, AdjustmentInv
  <2>8. adjC[c]["SEM_PRODUCER"] - 1 \in SemAdjustments
    BY <2>7, SEMVMXAssumption DEF SemAdjustments
  <2> QED
    BY <2>1, <2>3, <2>4, <2>6, <2>8 DEF ConsumerFails, OutOfRange, Applies
<1> QED
  BY <1>1, <1>2 DEF ConsumerStep, OpenSem, OpenQueue, OpenShm, Register, Confirmed,
     WaitWriting, TestEnd, PrintMessage, ConsumerReset, Consumed, ConsumerExit, Goto, AtEnd

\* A step of a consumer is Deliver or Finish, or nothing.
LEMMA ConsumerRefines ==
    ASSUME SemInv, LockInv, NEW c \in Consumers, OpenSem(c) \/ ConsumerStep(c)
    PROVE  [Lockstep!Next]_(Lockstep!vars)
<1>1. /\ pPc' = pPc /\ announced' = announced /\ sharedMem' = sharedMem
      /\ \A d \in Consumers : d # c => cPc'[d] = cPc[d]
      /\ cPc \in [Consumers -> ConsumerPlaces]
      /\ countConsumers \in Nat /\ announced.text \in Nat /\ announced.consumers \in Nat
  BY ConsumerMoves DEF producerVars, SemInv, TypeOK
<1>2. CASE PrintMessage(c)
  <2>1. /\ pPc = "waitReading" /\ cPc[c] = "print" /\ Due(c) /\ c \notin Got
        /\ announced.text > 0
    BY <1>1, <1>2, PrintsInRound
  <2>2. /\ sharedMem = announced.text /\ announced.consumers = countConsumers
        /\ Cardinality(Members) + Confirmations <= countConsumers /\ Confirmations \in Nat
    BY <2>1 DEF LockInv, AnnounceInv, SeatInv, Before, Between, Working, SemInv, TypeOK,
       Confirmations, MessageTypes
  <2>3. Cardinality(Got) < announced.consumers
    <3>1. Got \cup {c} \subseteq Members
      BY <2>1 DEF Members, InLoop
    <3>2. Cardinality(Got \cup {c}) = Cardinality(Got) + 1
      BY <2>1, MembersFinite, FS_AddElement
    <3>3. Cardinality(Got \cup {c}) <= Cardinality(Members)
      BY <3>1, MembersFinite, FS_Subset
    <3> QED
      BY <1>1, <2>2, <3>2, <3>3, MembersFinite
  <2>4. {d \in Consumers : AtEnd(d)}' = {d \in Consumers : AtEnd(d)}
    BY <1>1, <1>2 DEF PrintMessage, Goto, AtEnd
  <2>5. seen[c] = << >> \/ seen[c][Len(seen[c])] = announced.text - 1
    <3>1. seen[c] # << >> => LastSeen(c) \in Nat
      BY DEF SemInv, TypeOK, LastSeen
    <3> QED
      BY <1>1, <2>1, <3>1 DEF Due, LastSeen
  <2>6. Lockstep!Deliver(c)
    BY <1>1, <1>2, <2>1, <2>2, <2>3, <2>4, <2>5, MembersFinite, PrintedNext,
       SameCardinality
       DEF Lockstep!Deliver, Lockstep!RoundOver, END_PRODUCE
  <2> QED
    BY <2>6 DEF Lockstep!Next
<1>3. CASE ~PrintMessage(c)
  <2>1. seen' = seen /\ Got' = Got
    BY <1>3, ConsumerTexts
  <2>2. CASE AtEnd(c)' /\ ~AtEnd(c)
    <3>1. cPc[c] = "test" /\ cPc'[c] = "consumedEnd"
      BY <1>1, <2>2 DEF ConsumerStep, OpenSem, OpenQueue, OpenShm, Register, Confirmed,
         WaitWriting, TestEnd, PrintMessage, ConsumerReset, Consumed, ConsumerSemFails,
         ConsumerExit, Goto, AtEnd
    <3>2. TestEnd(c) /\ Segment(c) = END_PRODUCE
      BY <1>1, <3>1 DEF ConsumerStep, OpenSem, OpenQueue, OpenShm, Register, Confirmed,
         WaitWriting, TestEnd, PrintMessage, ConsumerReset, Consumed, ConsumerSemFails,
         ConsumerExit, Goto
    <3>3. pPc \in {"waitReading", "waitEnd"}
      BY <3>1 DEF SemInv, TypeOK, ProducerPlaces, TokenInv, BetweenInv, DestroyInv, LockInv,
         AbortInv, Before, Between, Unregistered, InLoop
    <3>4. pPc = "waitEnd"
      <4>1. shmOf[c] = "shared"
        BY <3>1, <3>3 DEF SemInv, TokenInv, ObjectsInv, Working
      <4>2. pPc = "waitReading" => sharedMem = i + 1 /\ i \in Nat
        BY DEF SemInv, TypeOK, TokenInv, ProgressInv
      <4> QED
        BY <3>2, <3>3, <4>1, <4>2 DEF Segment, END_PRODUCE
    <3>5. c \in Got /\ announced.text > 0 /\ sharedMem = END_PRODUCE
      BY <3>1, <3>4 DEF LockInv, GatherInv, AnnounceInv, SemInv, TypeOK, TokenInv, ProgressInv
    <3>6. {d \in Consumers : AtEnd(d)}' = {d \in Consumers : AtEnd(d)} \cup {c}
      BY <1>1, <2>2 DEF AtEnd
    <3>7. Lockstep!Finish(c)
      BY <1>1, <2>1, <2>2, <3>5, <3>6 DEF Lockstep!Finish
    <3> QED
      BY <3>7 DEF Lockstep!Next
  <2>3. CASE ~AtEnd(c)' \/ AtEnd(c)
    <3>1. AtEnd(c)' <=> AtEnd(c)
      BY <2>3, EndIsFinal
    <3>2. {d \in Consumers : AtEnd(d)}' = {d \in Consumers : AtEnd(d)}
      BY <1>1, <3>1 DEF AtEnd
    <3> QED
      BY <1>1, <2>1, <3>2 DEF Lockstep!vars
  <2> QED
    BY <2>2, <2>3
<1> QED
  BY <1>2, <1>3

\* Texts go round in lockstep: the invariant that says who has which.
THEOREM LockInvariant == Spec => []LockInv
<1>1. Init => LockInv
  BY InitLockInv
<1>2. SemInv /\ SemInv' /\ LockInv /\ [Next]_vars => LockInv'
  BY LockInvStep
<1> QED
  BY <1>1, <1>2, SemInvariant, PTL DEF Spec

\* Task 36 implements the broadcast in rounds: every text goes to exactly as many
\* consumers as the producer announced, in order, and none is replaced before all
\* of them have it; whatever limit of the kernel is hit, and whoever fails.
THEOREM BroadcastImplementsLockstep == Spec => ImplementsLockstep
<1>1. Init => Lockstep!Init
  BY DEF Init, Lockstep!Init, Got, AtEnd
<1>2. SemInv /\ LockInv /\ [Next]_vars => [Lockstep!Next]_(Lockstep!vars)
  <2> SUFFICES ASSUME SemInv, LockInv, [Next]_vars
               PROVE  [Lockstep!Next]_(Lockstep!vars)
    OBVIOUS
  <2>1. CASE UNCHANGED vars
    <3>1. /\ announced' = announced /\ Got' = Got /\ seen' = seen /\ sharedMem' = sharedMem
          /\ pPc' = pPc /\ {c \in Consumers : AtEnd(c)}' = {c \in Consumers : AtEnd(c)}
      BY <2>1 DEF vars, producerVars, consumerVars, Got, LastSeen, AtEnd
    <3> QED
      BY <3>1 DEF Lockstep!vars
  <2> QED
    BY <2>1, ProducerRefines, ConsumerRefines DEF Next
<1> QED
  BY <1>1, <1>2, SemInvariant, LockInvariant, PTL DEF Spec, ImplementsLockstep, Lockstep!Spec
=============================================================================
