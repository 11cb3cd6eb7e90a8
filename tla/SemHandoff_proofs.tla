------------------------- MODULE SemHandoff_proofs --------------------------
(***************************************************************************)
(* Proofs about SemHandoff, for every set of consumers, finite or not,     *)
(* every number of messages and every limit of the semaphores.             *)
(***************************************************************************)
EXTENDS SemHandoff, FiniteSetTheorems, TLAPS

-----------------------------------------------------------------------------
(* The inductive invariant. *)

Opening == {"semget", "shmget"}
Closed == {"remove", "abort", "done", "failed"}
ProducerPlaces == Opening \cup {"write", "produced", "waitReading"} \cup Closed
ConsumerPlaces == {"semget", "shmget", "waitWriting", "print", "consumed", "detach",
                   "abort", "done", "failed"}

\* No exit has given a token back yet.
Quiet == \A c \in Consumers : cPc[c] # "done"
Busy(c) == cPc[c] \in {"print", "consumed"}
NobodyBusy == \A c \in Consumers : ~Busy(c)

HandoffTypeOK ==
    /\ pPc \in ProducerPlaces /\ pI \in Nat /\ sharedMem \in Nat
    /\ cPc \in [Consumers -> ConsumerPlaces] /\ cI \in [Consumers -> Nat]
    /\ printed \in Seq(Consumers \X Nat)

\* The set exists while the producer is in its loop; a consumer only loses it afterwards.
ObjectsInv ==
    /\ pPc = "semget" => exists = {} /\ \A c \in Consumers : cPc[c] \in {"semget", "failed"}
    /\ pPc \notin Closed \cup {"semget"} => "sem" \in exists
    /\ \A c \in Consumers : cPc[c] = "abort" => "sem" \notin exists /\ pPc \in Closed

\* What the producer's counter says.
CounterInv ==
    /\ pPc \in Opening => pI = 0
    /\ pPc \in {"write", "produced", "waitReading"} => pI < COUNT_MESSAGES
    /\ pPc \in {"produced", "waitReading"} => sharedMem = pI + 1

\* A consumer is through only when the last text was posted: its rounds were the producer's.
LateInv ==
    (\E c \in Consumers : cPc[c] \in {"detach", "done"})
        => pPc \in {"remove", "done"} \/ (pPc = "waitReading" /\ pI = COUNT_MESSAGES - 1)

\* The one token of a round: waiting to be taken, with a consumer that has printed or not, or
\* waiting to be given back.
TokenPosted == semval["SEM_CONSUMER"] = 1 /\ semval["SEM_PRODUCER"] = 0 /\ NobodyBusy /\ Len(printed) = pI
TokenTaken ==
    /\ semval["SEM_CONSUMER"] = 0 /\ semval["SEM_PRODUCER"] = 0
    /\ \E c \in Consumers :
        /\ \A d \in Consumers : d # c => ~Busy(d)
        /\ \/ cPc[c] = "print" /\ Len(printed) = pI
           \/ cPc[c] = "consumed" /\ Len(printed) = pI + 1
TokenReturned == semval["SEM_CONSUMER"] = 0 /\ semval["SEM_PRODUCER"] = 1 /\ NobodyBusy /\ Len(printed) = pI + 1
NoToken == semval["SEM_CONSUMER"] = 0 /\ semval["SEM_PRODUCER"] = 0 /\ NobodyBusy /\ Len(printed) = pI

\* Until the first exit there is one token in a round and none outside; no consumer is ahead of
\* the posts to the producer; the texts printed are the first ones, in order.
TokenInv ==
    /\ semval \in [Semaphores -> Int]
    /\ pPc # "waitReading" => NoToken
    /\ pPc = "waitReading" => TokenPosted \/ TokenTaken \/ TokenReturned
    /\ \A c \in Consumers : cI[c] <= pI + semval["SEM_PRODUCER"]
    /\ \A k \in 1..Len(printed) : printed[k][2] = k

HandoffInv == HandoffTypeOK /\ ObjectsInv /\ CounterInv /\ LateInv /\ (Quiet => TokenInv)

-----------------------------------------------------------------------------
(* Types, objects, and who can be through. *)

\* A step of the producer keeps all but the tokens.
LEMMA ProducerFrame ==
    ASSUME HandoffInv, ProducerStep
    PROVE  HandoffTypeOK' /\ ObjectsInv' /\ CounterInv' /\ LateInv'
<1> USE CountAssumption, SEMVMXAssumption DEF HandoffInv, HandoffTypeOK, ObjectsInv, CounterInv, LateInv,
        Opening, Closed, ProducerPlaces, producerVars, consumerVars, semVars
<1>1. CASE OpenSem
  BY <1>1 DEF OpenSem
<1>2. CASE OpenShm
  BY <1>2 DEF OpenShm
<1>3. CASE Write
  BY <1>3 DEF Write
<1>4. CASE Produced
  BY <1>4 DEF Produced
<1>5. CASE WaitReading
  BY <1>5 DEF WaitReading
<1>6. CASE RemoveObject
  BY <1>6 DEF RemoveObject
<1>7. CASE ProducerExit
  BY <1>7 DEF ProducerExit
<1> QED
  BY <1>1, <1>2, <1>3, <1>4, <1>5, <1>6, <1>7 DEF ProducerStep

\* A consumer is at the end of its last round only in the producer's last round: it has
\* not printed more texts than were given back or are about to be.
LEMMA LastRound ==
    ASSUME HandoffInv, NEW c \in Consumers, Consumed(c), cI[c] + 1 >= COUNT_MESSAGES
    PROVE  pPc \in {"remove", "done"} \/ (pPc = "waitReading" /\ pI = COUNT_MESSAGES - 1)
<1>1. CASE ~Quiet
  BY <1>1 DEF Quiet, HandoffInv, LateInv
<1>2. CASE Quiet
  <2>1. Busy(c)
    BY DEF Busy, Consumed
  <2>2. pPc = "waitReading" /\ TokenTaken /\ pI < COUNT_MESSAGES
    BY <1>2, <2>1 DEF HandoffInv, TokenInv, NoToken, TokenPosted, TokenReturned, NobodyBusy, CounterInv
  <2>3. cI[c] <= pI
    BY <1>2, <2>2 DEF HandoffInv, TokenInv, TokenTaken, HandoffTypeOK
  <2> QED
    BY <2>2, <2>3, CountAssumption, SEMVMXAssumption DEF HandoffInv, HandoffTypeOK
<1> QED
  BY <1>1, <1>2

\* A step of a consumer keeps all but the tokens.
LEMMA ConsumerFrame ==
    ASSUME HandoffInv, NEW c \in Consumers, GetSem(c) \/ ConsumerStep(c)
    PROVE  HandoffTypeOK' /\ ObjectsInv' /\ CounterInv' /\ LateInv'
<1> USE CountAssumption, SEMVMXAssumption DEF HandoffInv, HandoffTypeOK, ObjectsInv, CounterInv, LateInv,
        Opening, Closed, ProducerPlaces, ConsumerPlaces, producerVars, consumerVars, semVars, Goto
<1>1. CASE GetSem(c)
  BY <1>1 DEF GetSem
<1>2. CASE GetShm(c)
  BY <1>2 DEF GetShm
<1>3. CASE WaitWriting(c)
  BY <1>3 DEF WaitWriting
<1>4. CASE PrintText(c)
  BY <1>4 DEF PrintText
<1>5. CASE Consumed(c)
  <2>1. HandoffTypeOK' /\ ObjectsInv' /\ CounterInv'
    BY <1>5 DEF Consumed
  <2>2. CASE cI[c] + 1 < COUNT_MESSAGES
    BY <1>5, <2>2 DEF Consumed
  <2>3. CASE ~(cI[c] + 1 < COUNT_MESSAGES)
    <3>1. pPc \in {"remove", "done"} \/ (pPc = "waitReading" /\ pI = COUNT_MESSAGES - 1)
      BY <1>5, <2>3, LastRound
    <3> QED
      BY <1>5, <2>1, <3>1 DEF Consumed
  <2> QED
    BY <2>1, <2>2, <2>3
<1>6. CASE SemFails(c)
  BY <1>6 DEF SemFails
<1>7. CASE ConsumerExit(c)
  BY <1>7 DEF ConsumerExit
<1> QED
  BY <1>1, <1>2, <1>3, <1>4, <1>5, <1>6, <1>7 DEF ConsumerStep

-----------------------------------------------------------------------------
(* The tokens. *)

\* A step of the producer before the first exit.
LEMMA ProducerTokens ==
    ASSUME HandoffInv, ProducerStep, Quiet'
    PROVE  TokenInv'
<1>1. Quiet /\ TokenInv /\ (NobodyBusy' <=> NobodyBusy)
  BY DEF HandoffInv, Quiet, NobodyBusy, Busy, ProducerStep, OpenSem, OpenShm, Write, Produced, WaitReading,
         RemoveObject, ProducerExit, consumerVars
<1> USE CountAssumption, SEMVMXAssumption, <1>1 DEF HandoffInv, HandoffTypeOK, CounterInv, TokenInv,
        NoToken, consumerVars, semVars, Semaphores
<1>2. CASE OpenSem \/ OpenShm \/ Write \/ RemoveObject \/ ProducerExit
  BY <1>2 DEF OpenSem, OpenShm, Write, RemoveObject, ProducerExit
<1>3. CASE Produced
  BY <1>3 DEF Produced, ProducerSemop, TokenPosted
<1>4. CASE WaitReading
  <2>1. semval["SEM_PRODUCER"] >= 1
    BY <1>4 DEF WaitReading, ProducerSemop, Applies, Blocks
  <2>2. TokenReturned
    BY <1>4, <2>1 DEF WaitReading, TokenPosted, TokenTaken
  <2> QED
    BY <1>4, <2>2 DEF WaitReading, ProducerSemop, TokenReturned
<1> QED
  BY <1>2, <1>3, <1>4 DEF ProducerStep

\* A consumer takes the token.
LEMMA TakeToken ==
    ASSUME HandoffInv, NEW c \in Consumers, WaitWriting(c), Quiet'
    PROVE  TokenInv'
<1>1. TokenInv
  BY DEF HandoffInv, HandoffTypeOK, Quiet, WaitWriting, Goto
<1>2. semval["SEM_CONSUMER"] >= 1
  BY <1>1 DEF WaitWriting, ConsumerSemop, Applies, Blocks, TokenInv, Semaphores
<1>3. pPc = "waitReading" /\ TokenPosted
  BY <1>1, <1>2 DEF TokenInv, NoToken, TokenTaken, TokenReturned
<1>4. semval' \in [Semaphores -> Int] /\ semval'["SEM_CONSUMER"] = 0 /\ semval'["SEM_PRODUCER"] = 0
  BY <1>1, <1>3 DEF WaitWriting, ConsumerSemop, TokenInv, TokenPosted, Semaphores
<1>5. TokenTaken'
  BY <1>3, <1>4 DEF HandoffInv, HandoffTypeOK, WaitWriting, Goto, TokenPosted, TokenTaken, NobodyBusy, Busy,
     producerVars
<1> QED
  BY <1>1, <1>3, <1>4, <1>5 DEF TokenInv, TokenPosted, WaitWriting, producerVars

\* It prints the text of the round.
LEMMA PrintKeepsOrder ==
    ASSUME HandoffInv, NEW c \in Consumers, PrintText(c), Quiet'
    PROVE  TokenInv'
<1>1. TokenInv
  BY DEF HandoffInv, HandoffTypeOK, Quiet, PrintText, Goto
<1>2. Busy(c)
  BY DEF Busy, PrintText
<1>3. pPc = "waitReading" /\ TokenTaken
  BY <1>1, <1>2 DEF TokenInv, NoToken, TokenPosted, TokenReturned, NobodyBusy
<1>4. Len(printed) = pI /\ \A d \in Consumers : d # c => ~Busy(d)
  BY <1>2, <1>3 DEF TokenTaken, PrintText
<1>5. /\ printed' = Append(printed, <<c, pI + 1>>) /\ printed \in Seq(Consumers \X Nat)
      /\ <<c, pI + 1>> \in Consumers \X Nat /\ pI \in Nat
  BY <1>3 DEF PrintText, HandoffInv, HandoffTypeOK, CounterInv
<1>6. Len(printed') = pI + 1 /\ \A k \in 1..Len(printed') : printed'[k][2] = k
  <2>1. Len(printed') = pI + 1
    BY <1>4, <1>5
  <2>2. ASSUME NEW k \in 1..Len(printed') PROVE printed'[k][2] = k
    <3>1. CASE k = pI + 1
      <4>1. printed'[k] = <<c, pI + 1>>
        BY <1>4, <1>5, <3>1
      <4> QED
        BY <3>1, <4>1
    <3>2. CASE k # pI + 1
      <4>1. k \in 1..Len(printed) /\ printed'[k] = printed[k]
        BY <1>4, <1>5, <2>1, <3>2
      <4> QED
        BY <1>1, <4>1 DEF TokenInv
    <3> QED
      BY <3>1, <3>2
  <2> QED
    BY <2>1, <2>2
<1>7. TokenTaken'
  BY <1>3, <1>4, <1>6 DEF HandoffInv, HandoffTypeOK, PrintText, Goto, TokenTaken, Busy, producerVars, semVars
<1> QED
  BY <1>1, <1>3, <1>6, <1>7 DEF TokenInv, PrintText, producerVars, semVars

\* It gives the token back.
LEMMA ReturnToken ==
    ASSUME HandoffInv, NEW c \in Consumers, Consumed(c), Quiet'
    PROVE  TokenInv'
<1>1. TokenInv
  BY DEF HandoffInv, HandoffTypeOK, Quiet, Consumed, Goto
<1>2. Busy(c)
  BY DEF Busy, Consumed
<1>3. pPc = "waitReading" /\ TokenTaken
  BY <1>1, <1>2 DEF TokenInv, NoToken, TokenPosted, TokenReturned, NobodyBusy
<1>4. Len(printed) = pI + 1 /\ \A d \in Consumers : d # c => ~Busy(d)
  BY <1>2, <1>3 DEF TokenTaken, Consumed
<1>5. /\ semval' \in [Semaphores -> Int] /\ semval'["SEM_CONSUMER"] = 0 /\ semval'["SEM_PRODUCER"] = 1
      /\ semval["SEM_PRODUCER"] = 0
  BY <1>1, <1>3 DEF Consumed, ConsumerSemop, TokenInv, TokenTaken, Semaphores
<1>6. NobodyBusy'
  BY <1>4 DEF HandoffInv, HandoffTypeOK, Consumed, Goto, NobodyBusy, Busy
<1>7. TokenReturned'
  BY <1>4, <1>5, <1>6 DEF Consumed, TokenReturned, producerVars
<1>8. \A d \in Consumers : cI'[d] <= pI' + semval'["SEM_PRODUCER"]
  BY <1>1, <1>5 DEF TokenInv, Consumed, producerVars, HandoffInv, HandoffTypeOK
<1> QED
  BY <1>1, <1>3, <1>5, <1>7, <1>8 DEF TokenInv, Consumed, producerVars

\* Other steps of a consumer do not touch the token: without the set there is none, and an exit
\* without a round undoes nothing.
LEMMA OtherKeepsTokens ==
    ASSUME HandoffInv, NEW c \in Consumers, GetSem(c) \/ GetShm(c) \/ SemFails(c) \/ ConsumerExit(c), Quiet'
    PROVE  TokenInv'
<1>1. Quiet /\ TokenInv
  BY DEF HandoffInv, HandoffTypeOK, Quiet, GetSem, GetShm, SemFails, ConsumerExit, Goto
<1>2. semval' = semval /\ UNCHANGED <<producerVars, cI, printed>>
  <2>1. CASE ConsumerExit(c)
    <3>1. cPc[c] = "abort"
      BY <2>1 DEF ConsumerExit, Goto, Quiet, HandoffInv, HandoffTypeOK
    <3> QED
      BY <2>1, <3>1 DEF ConsumerExit, HandoffInv, ObjectsInv
  <2> QED
    BY <2>1 DEF GetSem, GetShm, SemFails, semVars
<1>3. ~Busy(c)
  <2>1. CASE SemFails(c)
    BY <1>1, <2>1 DEF SemFails, HandoffInv, ObjectsInv, Closed, TokenInv, NoToken, NobodyBusy
  <2> QED
    BY <2>1 DEF Busy, GetSem, GetShm, ConsumerExit
<1>4. \A d \in Consumers : (Busy(d)' <=> Busy(d)) /\ (Busy(d) => cPc'[d] = cPc[d])
  BY <1>3 DEF HandoffInv, HandoffTypeOK, Busy, GetSem, GetShm, SemFails, ConsumerExit, Goto
<1>5. TokenTaken => TokenTaken'
  BY <1>2, <1>4 DEF TokenTaken, Busy, producerVars
<1>6. NobodyBusy' <=> NobodyBusy
  BY <1>4 DEF NobodyBusy
<1> QED
  BY <1>1, <1>2, <1>5, <1>6 DEF TokenInv, NoToken, TokenPosted, TokenReturned, producerVars

-----------------------------------------------------------------------------
(* The theorems. *)

\* Before anybody has started there is no token, no text and no object.
LEMMA InitHandoffInv == Init => HandoffInv
BY CountAssumption, SEMVMXAssumption DEF Init, HandoffInv, HandoffTypeOK, ObjectsInv, CounterInv, LateInv, Quiet,
   TokenInv, NoToken, NobodyBusy, Busy, Opening, Closed, ProducerPlaces, ConsumerPlaces, Semaphores

\* Every step of either program keeps the invariant.
LEMMA HandoffInvStep == HandoffInv /\ [Next]_vars => HandoffInv'
<1> SUFFICES ASSUME HandoffInv, [Next]_vars PROVE HandoffInv'
  OBVIOUS
<1>1. CASE ProducerStep
  BY <1>1, ProducerFrame, ProducerTokens DEF HandoffInv
<1>2. ASSUME NEW c \in Consumers, GetSem(c) \/ ConsumerStep(c) PROVE HandoffInv'
  <2>1. HandoffTypeOK' /\ ObjectsInv' /\ CounterInv' /\ LateInv'
    BY <1>2, ConsumerFrame
  <2>2. Quiet' => TokenInv'
    BY <1>2, TakeToken, PrintKeepsOrder, ReturnToken, OtherKeepsTokens DEF ConsumerStep
  <2> QED
    BY <2>1, <2>2 DEF HandoffInv
<1>3. CASE UNCHANGED vars
  BY <1>3 DEF vars, producerVars, consumerVars, semVars, HandoffInv, HandoffTypeOK, ObjectsInv, CounterInv,
     LateInv, Quiet, TokenInv, NoToken, TokenPosted, TokenTaken, TokenReturned, NobodyBusy, Busy
<1> QED
  BY <1>1, <1>2, <1>3 DEF Next

\* The token discipline of task 34 is an invariant, with any number of consumers.
THEOREM HandoffInvariant == Spec => []HandoffInv
<1> QED
  BY InitHandoffInv, HandoffInvStep, PTL DEF Spec

\* No text is overwritten while a consumer sleeps over it, and until the first consumer has
\* finished the texts are printed in order, each once, however many consumers share them.
THEOREM TextsOnce == Spec => []EachTextOnce
<1>1. HandoffInv => EachTextOnce
  <2> SUFFICES ASSUME HandoffInv PROVE EachTextOnce
    OBVIOUS
  <2>1. Quiet => \A k \in 1..Len(printed) : Texts[k] = k
    BY DEF HandoffInv, HandoffTypeOK, TokenInv, Texts
  <2>2. NoOverwrite
    <3> SUFFICES ASSUME pPc = "write" PROVE \A c \in Consumers : cPc[c] # "print"
      BY DEF NoOverwrite
    <3>1. Quiet
      BY DEF HandoffInv, LateInv, Quiet
    <3> QED
      BY <3>1 DEF HandoffInv, TokenInv, NoToken, NobodyBusy, Busy
  <2> QED
    BY <2>1, <2>2 DEF EachTextOnce, Quiet
<1> QED
  BY <1>1, HandoffInvariant, PTL

-----------------------------------------------------------------------------
(* After the first exit: the posts that no exit has taken back. *)

\* The posts of the consumers that have not exited, one by one.
Posts == {p \in Consumers \X Nat : ~Exited(p[1]) /\ 1 <= p[2] /\ p[2] <= cI[p[1]]}

\* Every post is in the adjustment of who made it, and SEM_PRODUCER never has a token that
\* was not posted by somebody who still runs; the segment ends with the last text.
PostInv ==
    /\ semval \in [Semaphores -> Nat] /\ adjC \in [Consumers -> [Semaphores -> Int]]
    /\ \A c \in Consumers : adjC[c]["SEM_PRODUCER"] = -cI[c]
    /\ \A c \in Consumers : cPc[c] \in {"semget", "shmget"} => cI[c] = 0
    /\ IsFiniteSet(Posts)
    /\ "sem" \in exists \/ pPc = "semget" => semval["SEM_PRODUCER"] <= Cardinality(Posts)
    /\ pPc \in {"remove", "done"} => sharedMem = COUNT_MESSAGES

\* As many posts are somebody's as that consumer has rounds behind it.
LEMMA PostsOfOne ==
    ASSUME NEW c, NEW n \in Nat
    PROVE  /\ IsFiniteSet({<<c, k>> : k \in 1..n})
           /\ Cardinality({<<c, k>> : k \in 1..n}) = n
<1> DEFINE T == {<<c, k>> : k \in 1..n}
           f == [k \in 1..n |-> <<c, k>>]
<1>1. f \in Bijection(1..n, T)
  BY DEF Bijection, Injection, Surjection, IsInjective
<1>2. ExistsBijection(1..n, T)
  BY <1>1 DEF ExistsBijection
<1>3. IsFiniteSet(1..n) /\ Cardinality(1..n) = n
  BY FS_Interval
<1> QED
  BY <1>2, <1>3, FS_Bijection

\* Nobody has posted before the start.
LEMMA InitPostInv == Init => PostInv
<1> SUFFICES ASSUME Init PROVE PostInv
  OBVIOUS
<1>1. Posts = {}
  BY DEF Init, Posts
<1>2. IsFiniteSet(Posts) /\ Cardinality(Posts) = 0
  BY <1>1, FS_EmptySet
<1>3. /\ semval \in [Semaphores -> Nat] /\ adjC \in [Consumers -> [Semaphores -> Int]]
      /\ semval["SEM_PRODUCER"] = 0 /\ \A c \in Consumers : adjC[c]["SEM_PRODUCER"] = 0 /\ cI[c] = 0
      /\ pPc = "semget"
  BY DEF Init, Semaphores
<1> QED
  BY <1>2, <1>3 DEF PostInv

\* The producer posts nothing to itself, and takes one at a time.
LEMMA ProducerPosts ==
    ASSUME HandoffInv, PostInv, ProducerStep
    PROVE  PostInv'
<1>1. /\ UNCHANGED <<cPc, cI, adjC>> /\ Posts' = Posts
  BY DEF ProducerStep, OpenSem, OpenShm, Write, Produced, WaitReading, RemoveObject, ProducerExit,
     consumerVars, semVars, ProducerSemop, Posts, Exited
<1>2. Cardinality(Posts) \in Nat
  BY FS_CardinalityType DEF PostInv
<1> USE <1>1, <1>2 DEF PostInv
<1>3. CASE OpenSem \/ OpenShm \/ Write \/ RemoveObject \/ ProducerExit
  <2>1. semval' = semval
    BY <1>3 DEF OpenSem, OpenShm, Write, RemoveObject, ProducerExit, semVars
  <2>2. "sem" \in exists' \/ pPc' = "semget" => "sem" \in exists \/ pPc = "semget"
    BY <1>3 DEF OpenSem, OpenShm, Write, RemoveObject, ProducerExit
  <2>3. pPc' \in {"remove", "done"} => pPc = "remove" /\ sharedMem' = sharedMem
    BY <1>3 DEF OpenSem, OpenShm, Write, RemoveObject, ProducerExit
  <2> QED
    BY <2>1, <2>2, <2>3
<1>4. CASE Produced
  <2>1. /\ pPc' = "waitReading" /\ exists' = exists /\ pPc = "produced"
        /\ semval' = [semval EXCEPT !["SEM_CONSUMER"] = @ + 1]
    BY <1>4 DEF Produced, ProducerSemop
  <2> QED
    BY <2>1 DEF Semaphores
<1>5. CASE WaitReading
  <2>1. /\ exists' = exists /\ sharedMem' = sharedMem /\ pPc = "waitReading" /\ pPc' \in {"write", "remove"}
        /\ semval' = [semval EXCEPT !["SEM_PRODUCER"] = @ - 1]
        /\ ~Blocks(semval["SEM_PRODUCER"], -1)
    BY <1>5 DEF WaitReading, ProducerSemop, Applies
  <2>2. pPc' = "remove" => sharedMem = COUNT_MESSAGES
    BY <1>5, CountAssumption, SEMVMXAssumption DEF WaitReading, HandoffInv, HandoffTypeOK, CounterInv
  <2>3. semval["SEM_PRODUCER"] \in Nat /\ semval["SEM_PRODUCER"] >= 1
    BY <2>1 DEF Semaphores, Blocks
  <2>4. semval' \in [Semaphores -> Nat] /\ semval'["SEM_PRODUCER"] <= semval["SEM_PRODUCER"]
    BY <2>1, <2>3 DEF Semaphores
  <2>5. semval'["SEM_PRODUCER"] \in Nat
    BY <2>4 DEF Semaphores
  <2>6. "sem" \in exists' \/ pPc' = "semget" => semval'["SEM_PRODUCER"] <= Cardinality(Posts')
    BY <2>1, <2>3, <2>4, <2>5
  <2> QED
    BY <2>1, <2>2, <2>4, <2>6
<1> QED
  BY <1>3, <1>4, <1>5 DEF ProducerStep

\* A consumer adds a post with its semop, and takes all of its own back when it exits.
LEMMA ConsumerPosts ==
    ASSUME HandoffInv, PostInv, NEW c \in Consumers, GetSem(c) \/ ConsumerStep(c)
    PROVE  PostInv'
<1>1. /\ pPc' = pPc /\ exists' = exists /\ sharedMem' = sharedMem
      /\ \A d \in Consumers : d # c => cPc'[d] = cPc[d] /\ cI'[d] = cI[d]
      /\ cPc \in [Consumers -> ConsumerPlaces] /\ cI \in [Consumers -> Nat]
  BY DEF HandoffInv, HandoffTypeOK, ConsumerStep, GetSem, GetShm, WaitWriting, PrintText, Consumed,
     SemFails, ConsumerExit, Goto, producerVars
<1>2. Cardinality(Posts) \in Nat /\ IsFiniteSet(Posts)
  BY FS_CardinalityType DEF PostInv
<1>3. CASE GetSem(c) \/ GetShm(c) \/ WaitWriting(c) \/ PrintText(c) \/ SemFails(c)
  <2>1. /\ cI' = cI /\ semval' \in [Semaphores -> Nat] /\ semval'["SEM_PRODUCER"] = semval["SEM_PRODUCER"]
        /\ adjC' \in [Consumers -> [Semaphores -> Int]]
        /\ \A d \in Consumers : adjC'[d]["SEM_PRODUCER"] = adjC[d]["SEM_PRODUCER"]
    <3>1. CASE WaitWriting(c)
      <4>1. /\ cI' = cI /\ ~Blocks(semval["SEM_CONSUMER"], -1)
            /\ semval' = [semval EXCEPT !["SEM_CONSUMER"] = @ - 1]
            /\ adjC' = [adjC EXCEPT ![c]["SEM_CONSUMER"] = @ - -1]
        BY <3>1 DEF WaitWriting, ConsumerSemop, Applies
      <4>2. semval["SEM_CONSUMER"] \in Nat /\ semval["SEM_CONSUMER"] >= 1
        BY <4>1 DEF PostInv, Semaphores, Blocks
      <4> QED
        BY <4>1, <4>2 DEF PostInv, Semaphores
    <3>2. CASE GetSem(c) \/ GetShm(c) \/ PrintText(c) \/ SemFails(c)
      BY <3>2 DEF PostInv, GetSem, GetShm, PrintText, SemFails, semVars
    <3> QED
      BY <1>3, <3>1, <3>2
  <2>2. /\ ~Exited(c) /\ (Exited(c)' => cI[c] = 0)
        /\ cPc'[c] \in {"semget", "shmget"} => cI[c] = 0
    BY <1>1, <1>3 DEF GetSem, GetShm, WaitWriting, PrintText, SemFails, Goto, Exited, PostInv
  <2>3. Posts' = Posts
    BY <1>1, <2>1, <2>2 DEF Posts, Exited
  <2> QED
    BY <1>1, <2>1, <2>2, <2>3 DEF PostInv
<1>4. CASE Consumed(c)
  <2>1. /\ cPc[c] = "consumed" /\ cPc'[c] \in {"waitWriting", "detach"}
        /\ cI' = [cI EXCEPT ![c] = @ + 1]
        /\ semval' = [semval EXCEPT !["SEM_PRODUCER"] = @ + 1]
        /\ adjC' = [adjC EXCEPT ![c]["SEM_PRODUCER"] = @ - 1]
    BY <1>1, <1>4 DEF Consumed, ConsumerSemop, Goto
  <2>2. Posts' = Posts \cup {<<c, cI[c] + 1>>}
    BY <1>1, <2>1 DEF Posts, Exited
  <2>3. <<c, cI[c] + 1>> \notin Posts
    BY <1>1 DEF Posts
  <2>4. IsFiniteSet(Posts') /\ Cardinality(Posts') = Cardinality(Posts) + 1
    BY <1>2, <2>2, <2>3, FS_AddElement
  <2>5. /\ semval' \in [Semaphores -> Nat] /\ semval'["SEM_PRODUCER"] = semval["SEM_PRODUCER"] + 1
        /\ semval["SEM_PRODUCER"] \in Nat
    BY <2>1 DEF PostInv, Semaphores
  <2>6. /\ adjC' \in [Consumers -> [Semaphores -> Int]]
        /\ \A d \in Consumers : adjC'[d]["SEM_PRODUCER"] = -cI'[d]
    BY <1>1, <2>1 DEF PostInv, Semaphores
  <2>7. \A d \in Consumers : cPc'[d] \in {"semget", "shmget"} => cI'[d] = 0
    BY <1>1, <2>1 DEF PostInv
  <2>8. "sem" \in exists' \/ pPc' = "semget" => semval'["SEM_PRODUCER"] <= Cardinality(Posts')
    <3>1. "sem" \in exists \/ pPc = "semget" => semval["SEM_PRODUCER"] <= Cardinality(Posts)
      BY DEF PostInv
    <3> QED
      BY <1>1, <1>2, <2>4, <2>5, <3>1
  <2>9. pPc' \in {"remove", "done"} => sharedMem' = COUNT_MESSAGES
    BY <1>1 DEF PostInv
  <2> QED
    BY <2>4, <2>5, <2>6, <2>7, <2>8, <2>9 DEF PostInv
<1>5. CASE ConsumerExit(c)
  <2> DEFINE Own == {<<c, k>> : k \in 1..cI[c]}
  <2>1. /\ cPc[c] \in {"detach", "abort"} /\ Exited(c)' /\ cI' = cI /\ adjC' = adjC
        /\ cPc'[c] \notin {"semget", "shmget"}
    BY <1>1, <1>5 DEF ConsumerExit, Goto, Exited
  <2>2. Own \subseteq Posts /\ Posts' = Posts \ Own
    BY <1>1, <2>1 DEF Posts, Exited
  <2>3. IsFiniteSet(Own) /\ Cardinality(Own) = cI[c] /\ cI[c] \in Nat
    BY <1>1, PostsOfOne
  <2>4. IsFiniteSet(Posts') /\ Cardinality(Posts') = Cardinality(Posts) - cI[c]
    <3>1. Posts \cap Own = Own
      BY <2>2
    <3>2. IsFiniteSet(Posts \ Own) /\ Cardinality(Posts \ Own) = Cardinality(Posts) - Cardinality(Own)
      <4> HIDE DEF Own
      <4> QED
        BY <1>2, <3>1, FS_Difference
    <3> HIDE DEF Own
    <3> QED
      BY <2>2, <2>3, <3>2
  <2>5. CASE "sem" \in exists
    <3>1. \A s \in Semaphores : semval[s] \in Nat /\ adjC[c][s] \in Int /\ Undone(semval[s], adjC[c][s]) \in Nat
      BY SEMVMXAssumption DEF PostInv, Undone
    <3>2. semval' \in [Semaphores -> Nat]
          /\ semval'["SEM_PRODUCER"] = Undone(semval["SEM_PRODUCER"], -cI[c])
      BY <1>5, <2>5, <3>1 DEF ConsumerExit, PostInv, Semaphores
    <3>3. semval["SEM_PRODUCER"] \in Nat /\ semval["SEM_PRODUCER"] <= Cardinality(Posts)
      BY <2>5, <3>1 DEF PostInv, Semaphores
    <3>4. cI[c] <= Cardinality(Posts)
      BY <1>2, <2>2, <2>3, FS_Subset
    <3>5. semval'["SEM_PRODUCER"] <= Cardinality(Posts')
      BY <1>2, <2>3, <2>4, <3>2, <3>3, <3>4, SEMVMXAssumption DEF Undone
    <3> QED
      BY <1>1, <2>1, <2>4, <3>2, <3>5 DEF PostInv
  <2>6. CASE "sem" \notin exists
    <3>1. pPc # "semget"
      BY <2>1 DEF HandoffInv, ObjectsInv
    <3> QED
      BY <1>1, <1>5, <2>1, <2>4, <2>6, <3>1 DEF PostInv, ConsumerExit
  <2> QED
    BY <2>5, <2>6
<1> QED
  BY <1>3, <1>4, <1>5 DEF ConsumerStep

\* Every step keeps the account of the posts.
LEMMA PostInvStep == HandoffInv /\ PostInv /\ [Next]_vars => PostInv'
<1>1. ASSUME PostInv, UNCHANGED vars PROVE PostInv'
  <2>1. Posts' = Posts
    BY <1>1 DEF vars, consumerVars, Posts, Exited
  <2> QED
    BY <1>1, <2>1 DEF vars, producerVars, consumerVars, semVars, PostInv
<1> QED
  BY <1>1, ProducerPosts, ConsumerPosts DEF Next

\* SEM_PRODUCER has no token but those posted by consumers that still run.
THEOREM PostsInvariant == Spec => []PostInv
<1> QED
  BY InitPostInv, PostInvStep, HandoffInvariant, PTL DEF Spec

\* After the first exit only the last text is printed again; and a producer that waits when
\* the last consumer has gone, having taken its posts back, waits for ever.
THEOREM AfterExits == Spec => AfterFirstExit
<1>1. HandoffInv /\ PostInv /\ [Next]_vars =>
        [(\E c \in Consumers : cPc[c] = "done") /\ printed' # printed
           => printed'[Len(printed')][2] = COUNT_MESSAGES]_vars
  <2> SUFFICES ASSUME HandoffInv, PostInv, [Next]_vars,
                      \E c \in Consumers : cPc[c] = "done", printed' # printed
               PROVE  printed'[Len(printed')][2] = COUNT_MESSAGES
    OBVIOUS
  <2>1. PICK d \in Consumers : PrintText(d)
    BY DEF vars, Next, ProducerStep, OpenSem, OpenShm, Write, Produced, WaitReading, RemoveObject,
       ProducerExit, ConsumerStep, GetSem, GetShm, WaitWriting, PrintText, Consumed, SemFails, ConsumerExit,
       consumerVars
  <2>2. sharedMem = COUNT_MESSAGES
    BY CountAssumption, SEMVMXAssumption DEF HandoffInv, HandoffTypeOK, LateInv, CounterInv, PostInv
  <2>3. printed \in Seq(Consumers \X Nat) /\ printed' = Append(printed, <<d, COUNT_MESSAGES>>)
    BY <2>1, <2>2 DEF PrintText, HandoffInv, HandoffTypeOK
  <2>4. printed'[Len(printed')] = <<d, COUNT_MESSAGES>>
    BY <2>3
  <2> QED
    BY <2>4
<1>2. HandoffInv /\ PostInv /\ [Next]_vars =>
        [pPc = "waitReading" /\ NobodyRuns /\ (\E c \in Consumers : cPc[c] = "done")
           => pPc' = "waitReading"]_vars
  <2> SUFFICES ASSUME HandoffInv, PostInv, [Next]_vars, pPc = "waitReading", NobodyRuns
               PROVE  pPc' = "waitReading"
    OBVIOUS
  <2>1. Posts = {}
    BY DEF NobodyRuns, Posts, PostInv
  <2>2. semval["SEM_PRODUCER"] = 0
    BY <2>1, FS_EmptySet DEF HandoffInv, ObjectsInv, Closed, PostInv, Semaphores
  <2>3. ~WaitReading
    BY <2>2 DEF WaitReading, ProducerSemop, Applies, Blocks
  <2> QED
    BY <2>3 DEF vars, Next, ProducerStep, OpenSem, OpenShm, Write, Produced, WaitReading, RemoveObject,
       ProducerExit, ConsumerStep, GetSem, GetShm, WaitWriting, PrintText, Consumed, SemFails, ConsumerExit,
       producerVars
<1> QED
  BY <1>1, <1>2, HandoffInvariant, PostsInvariant, PTL
     DEF Spec, AfterFirstExit, OnlyLastTextRepeats, ExitStrandsProducer
=============================================================================
