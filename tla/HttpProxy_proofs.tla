--------------------------- MODULE HttpProxy_proofs --------------------------
(***************************************************************************)
(* Proofs about the proxy of http_proxy.  ProxyCache: what is known of the *)
(* count of the waiters, which risks what can break the process takes, and *)
(* the data of an entry is stable under those who read it.  HttpText:      *)
(* however requests and answers are cut, the server is asked for the right *)
(* path and no answer is over too early.                                   *)
(***************************************************************************)
EXTENDS ProxyCache, HttpText, FiniteSetTheorems, SequenceTheorems, TLAPS

Places ==
    {"accept", "getting", "testInvalid", "delete", "testValid", "testDownloading",
     "insert", "connect", "forwarding", "response", "copy", "giveUp", "parse", "count",
     "hit", "follow", "spin", "send", "skip", "rest", "leave", "exit", "invalidate", "done"}

TypeOK ==
    /\ allocated \subseteq Conns
    /\ entryStatus \in [Conns -> {"ES_DOWNLOADING", "ES_VALID", "ES_INVALID"}]
    /\ dataCount \in [Conns -> Nat] /\ ready \in [Conns -> Nat]
    /\ waitersCount \in [Conns -> Int]
    /\ pc \in [Conns -> Places]
    /\ failedAt \in [Conns -> {"none"} \cup Polling]
    /\ cacheEntry \in [Conns -> Conns \cup {NONE, WILD}]
    /\ found \in [Conns -> Conns \cup {NONE}]
    /\ head \in [Conns -> {"none", "length", "open"}]
    /\ written \in [Conns -> Int]
    /\ got \in [Conns -> Seq(Int)]

Testing == {"testInvalid", "testValid", "testDownloading"}
BeforeInsert == {"accept", "getting", "delete", "insert"} \cup Testing
Downloading == {"connect", "forwarding", "response", "copy", "giveUp", "parse"}

\* The table never keeps an entry that was freed.
TableInv == cached \in allocated \cup {NONE}

\* The entry of a thread that has not made it yet: nobody can know it.
UnbornInv ==
    \A c \in Conns : pc[c] \in BeforeInsert =>
        /\ c \notin allocated /\ waitersCount[c] = 0
        /\ \A d \in Conns : found[d] # c /\ cacheEntry[d] # c

\* A thread whose poll failed is on its way out.
StrayInv == \A c \in Conns : failedAt[c] # "none" => pc[c] \in {"exit", "invalidate", "done"}

\* The counter of an entry counts those who follow it, and those who left it uncounted.
Followers(e) == {d \in Conns : cacheEntry[d] = e /\ Counted(d)}
CountInv == \A e \in allocated : waitersCount[e] = Cardinality(Followers(e))

\* A download fills the entry that its own thread made; it is not valid before
\* its end, and its data is in place but for one step.
OwnerInv ==
    /\ \A c \in Conns : pc[c] \in Downloading => cacheEntry[c] \in {c, NONE}
    /\ \A c \in Conns : pc[c] = "copy" => cacheEntry[c] = c
    /\ \A c \in Conns : entryStatus[c] = "ES_VALID" => pc[c] \in {"exit", "invalidate", "done"}
    /\ \A c \in Conns : pc[c] # "copy" => ready[c] = dataCount[c]

\* What a client was given comes before what it is given next.
Fresh == BeforeInsert \cup Downloading \cup {"count", "follow"}
UpTo(c, n) == \A j \in 1..Len(got[c]) : got[c][j] <= n
ServedInv ==
    /\ \A c \in Conns : pc[c] \in Fresh => got[c] = << >> /\ written[c] = 0
    /\ \A c \in Conns : pc[c] \in {"count"} \cup Following => cacheEntry[c] \in Conns
    /\ \A c \in Conns : pc[c] = "hit" /\ c \notin gone => UpTo(c, written[c])
    /\ \A c \in Conns : pc[c] \in {"spin", "send", "rest"} =>
         UpTo(c, written[c]) /\ written[c] \in 0..dataCount[cacheEntry[c]]
    /\ \A c \in Conns : pc[c] = "skip" => UpTo(c, dataCount[cacheEntry[c]])

\* Without a risk one thread serves at a time, and it works on the entry in the
\* table, or on none once the response is one that is not kept.
SerialInv ==
    risks = {} =>
        /\ process # "broken"
        /\ \A c, d \in Conns : Serving(c) /\ Serving(d) => c = d
        /\ \A c \in Conns : pc[c] \in Testing \cup {"delete"} =>
             found[c] = cached /\ cached # NONE
        /\ \A c \in Conns :
             pc[c] \in Downloading \cup Following \cup {"count", "hit", "exit", "invalidate"} =>
               \/ cacheEntry[c] = cached /\ cached # NONE
               \/ cacheEntry[c] = NONE /\ head[c] = "length" /\ pc[c] \in {"response", "parse", "exit"}

ProxyInv ==
    /\ TypeOK /\ TableInv /\ UnbornInv /\ StrayInv /\ CountInv
    /\ OwnerInv /\ NothingTwice /\ ServedInv /\ SerialInv

-----------------------------------------------------------------------------
\* What an entry has beyond last_size, in number.
LEMMA UnsentCount ==
    ASSUME TypeOK, NEW c \in Conns, cacheEntry[c] \in Conns
    PROVE  /\ Cardinality(Unsent(c)) \in Nat
           /\ written[c] \in 0..dataCount[cacheEntry[c]] =>
                /\ Cardinality(Unsent(c)) = dataCount[cacheEntry[c]] - written[c]
                /\ Unsent(c) = {} <=> written[c] = dataCount[cacheEntry[c]]
<1> DEFINE extent == dataCount[cacheEntry[c]]
<1>1. extent \in Nat /\ written[c] \in Int
    BY DEF TypeOK
<1>2. Unsent(c) = {k \in 1..extent : k > written[c]}
    BY DEF Unsent
<1> HIDE DEF extent
<1>3. Cardinality(Unsent(c)) \in Nat
  <2>1. IsFiniteSet(1..extent)
      BY <1>1, FS_Interval
  <2>2. Unsent(c) \in SUBSET (1..extent)
      BY <1>2
  <2> QED  BY <2>1, <2>2, FS_Subset, FS_CardinalityType
<1>4. ASSUME written[c] \in 0..extent
      PROVE  /\ Cardinality(Unsent(c)) = extent - written[c]
             /\ Unsent(c) = {} <=> written[c] = extent
  <2>1. Unsent(c) = (written[c] + 1)..extent
      BY <1>1, <1>2, <1>4
  <2>2. Cardinality((written[c] + 1)..extent) =
            IF written[c] + 1 > extent THEN 0 ELSE extent - (written[c] + 1) + 1
      BY <1>1, FS_Interval, SMTT(30)
  <2>3. CASE written[c] = extent
      BY <1>1, <2>1, <2>2, <2>3
  <2>4. CASE written[c] < extent
    <3>1. extent \in Unsent(c)
        BY <1>1, <2>1, <2>4
    <3> QED  BY <1>1, <2>1, <2>2, <2>4, <3>1
  <2> QED  BY <1>1, <1>4, <2>3, <2>4
<1> QED  BY <1>3, <1>4 DEF extent

\* What a write does to the pieces a client was given: it appends the unsent ones.
LEMMA WriteAppends ==
    ASSUME TypeOK, NEW c \in Conns, cacheEntry[c] \in Conns, WriteUnsent(c)
    PROVE  /\ got' \in [Conns -> Seq(Int)]
           /\ \A d \in Conns \ {c} : got'[d] = got[d]
           /\ c \in gone \/ Unsent(c) = {} => got'[c] = got[c]
           /\ ~(c \in gone \/ Unsent(c) = {}) =>
                /\ Len(got'[c]) = Len(got[c]) + Cardinality(Unsent(c))
                /\ \A j \in 1..Len(got'[c]) :
                     got'[c][j] = IF j <= Len(got[c]) THEN got[c][j]
                                  ELSE written[c] + (j - Len(got[c]))
<1> DEFINE n == Cardinality(Unsent(c))
           new == [k \in 1..n |-> written[c] + k]
<1>1. n \in Nat /\ got \in [Conns -> Seq(Int)] /\ written[c] \in Int
    BY UnsentCount DEF TypeOK
<1>2. got' = IF c \in gone \/ Unsent(c) = {} THEN got
             ELSE [got EXCEPT ![c] = @ \o new]
    BY DEF WriteUnsent
<1> HIDE DEF n
<1>3. new \in Seq(Int) /\ Len(new) = n /\ \A k \in 1..n : new[k] = written[c] + k
    BY <1>1
<1> HIDE DEF new
<1>4. /\ got[c] \o new \in Seq(Int)
      /\ Len(got[c] \o new) = Len(got[c]) + n
      /\ \A j \in 1..(Len(got[c]) + n) :
           (got[c] \o new)[j] = IF j <= Len(got[c]) THEN got[c][j] ELSE new[j - Len(got[c])]
  <2>1. got[c] \in Seq(Int)
      BY <1>1
  <2> QED  BY <1>3, <2>1, ConcatProperties
<1>5. CASE c \in gone \/ Unsent(c) = {}
    BY <1>1, <1>2, <1>5
<1>6. CASE ~(c \in gone \/ Unsent(c) = {})
  <2>1. got' = [got EXCEPT ![c] = got[c] \o new]
      BY <1>2, <1>6
  <2>2. got'[c] = got[c] \o new /\ \A d \in Conns \ {c} : got'[d] = got[d]
      BY <1>1, <2>1
  <2>3. got' \in [Conns -> Seq(Int)]
      BY <1>1, <1>4, <2>1
  <2>4. \A j \in 1..(Len(got[c]) + n) : j > Len(got[c]) => j - Len(got[c]) \in 1..n
      BY <1>1
  <2>5. Len(got'[c]) = Len(got[c]) + n
      BY <1>4, <2>2
  <2>6. \A j \in 1..(Len(got[c]) + n) :
           got'[c][j] = IF j <= Len(got[c]) THEN got[c][j] ELSE written[c] + (j - Len(got[c]))
      BY <1>1, <1>3, <1>4, <2>2, <2>4
  <2> QED  BY <1>6, <2>2, <2>3, <2>5, <2>6 DEF n
<1> QED  BY <1>5, <1>6

\* A connection that is freed keeps the types.
LEMMA FreeTyped ==
    ASSUME TypeOK, NEW c \in Conns, Free(c) \/ UNCHANGED <<found, responseVars, servedVars>>
    PROVE  /\ found' \in [Conns -> Conns \cup {NONE}]
           /\ head' \in [Conns -> {"none", "length", "open"}]
           /\ written' \in [Conns -> Int] /\ got' \in [Conns -> Seq(Int)]
<1>1. << >> \in Seq(Int)
    OBVIOUS
<1>2. CASE UNCHANGED <<found, responseVars, servedVars>>
    BY <1>2 DEF TypeOK, responseVars, servedVars
<1>3. CASE Free(c)
    BY <1>1, <1>3 DEF TypeOK, Free
<1> QED  BY <1>2, <1>3

\* Every step keeps the types.
LEMMA TypeStep ==
    TypeOK /\ TableInv /\ [Next]_vars => TypeOK'
<1> SUFFICES ASSUME TypeOK, TableInv, [Next]_vars PROVE TypeOK'
    OBVIOUS
<1> USE ProxyAssumption DEF TypeOK, TableInv, Places, Runs, Goto, Mark, entryVars, clientVars, responseVars, servedVars
<1>1. CASE UNCHANGED vars
    BY <1>1 DEF vars
<1>2. ASSUME NEW c \in Conns, Accept(c) PROVE TypeOK'
    BY <1>2 DEF Accept
<1>3. ASSUME NEW c \in Conns, Disconnect(c) PROVE TypeOK'
    BY <1>3 DEF Disconnect
<1>4. ASSUME NEW c \in Conns, ClientClosed(c) PROVE TypeOK'
  <2>1. PICK e \in {NONE, WILD} \cup {cacheEntry[d] : d \in {d \in Conns : pc[d] = "done"}} :
            cacheEntry' = [cacheEntry EXCEPT ![c] = e]
      BY <1>4 DEF ClientClosed, EndUnasked
  <2>2. e \in Conns \cup {NONE, WILD}
      BY <2>1
  <2>3. cacheEntry' \in [Conns -> Conns \cup {NONE, WILD}]
      BY <2>1, <2>2
  <2> QED  BY <1>4, <2>3 DEF ClientClosed, EndUnasked
<1>5. ASSUME NEW c \in Conns, GetRequest(c) PROVE TypeOK'
    BY <1>5 DEF GetRequest
<1>6. ASSUME NEW c \in Conns, GetOtherRequest(c) PROVE TypeOK'
    BY <1>6 DEF GetOtherRequest
<1>7. ASSUME NEW c \in Conns, TestInvalid(c) PROVE TypeOK'
    BY <1>7 DEF TestInvalid
<1>8. ASSUME NEW c \in Conns, Delete(c) PROVE TypeOK'
    BY <1>8 DEF Delete
<1>9. ASSUME NEW c \in Conns, TestValid(c) PROVE TypeOK'
    BY <1>9 DEF TestValid
<1>10. ASSUME NEW c \in Conns, TestDownloading(c) PROVE TypeOK'
    BY <1>10 DEF TestDownloading
<1>11. ASSUME NEW c \in Conns, CountWaiter(c) PROVE TypeOK'
    BY <1>11, SMTT(30) DEF CountWaiter
<1>12. ASSUME NEW c \in Conns, Insert(c) PROVE TypeOK'
    BY <1>12 DEF Insert
<1>13. ASSUME NEW c \in Conns, InsertFails(c) PROVE TypeOK'
    BY <1>13 DEF InsertFails
<1>14. ASSUME NEW c \in Conns, Connect(c) PROVE TypeOK'
  <2>1. pc' \in [Conns -> Places]
      BY <1>14, ZenonT(30) DEF Connect
  <2> QED  BY <1>14, <2>1 DEF Connect
<1>15. ASSUME NEW c \in Conns, ForwardRequest(c) PROVE TypeOK'
    BY <1>15 DEF ForwardRequest
<1>16. ASSUME NEW c \in Conns, ForwardNothing(c) PROVE TypeOK'
  <2>1. pc' = pc \/ pc' = [pc EXCEPT ![c] = "response"]
      BY <1>16 DEF ForwardNothing
  <2>2. pc' \in [Conns -> Places]
      BY <2>1
  <2> QED  BY <1>16, <2>2 DEF ForwardNothing
<1>17. ASSUME NEW c \in Conns, EndOfResponse(c) PROVE TypeOK'
    BY <1>17 DEF EndOfResponse, MarkIfAny
<1>18. ASSUME NEW c \in Conns, ReadResponse(c) PROVE TypeOK'
  <2>1. pc' \in [Conns -> Places]
    <3>1. \E to \in {"parse", "giveUp", "copy"} : pc' = [pc EXCEPT ![c] = to]
        BY <1>18 DEF ReadResponse
    <3> QED  BY <3>1
  <2>2. \/ UNCHANGED dataCount
        \/ \E e \in Conns : dataCount' = [dataCount EXCEPT ![e] = @ + 1]
      BY <1>18 DEF ReadResponse
  <2>4. dataCount \in [Conns -> Nat]
      OBVIOUS
  <2> HIDE DEF TypeOK
  <2>5. ASSUME NEW e \in Conns, dataCount' = [dataCount EXCEPT ![e] = @ + 1]
        PROVE  dataCount' \in [Conns -> Nat]
    <3>1. dataCount[e] + 1 \in Nat
        BY <2>4
    <3> QED  BY <2>4, <2>5, <3>1
  <2>3. dataCount' \in [Conns -> Nat]
      BY <2>2, <2>4, <2>5
  <2> USE DEF TypeOK
  <2> QED  BY <1>18, <2>1, <2>3 DEF ReadResponse
<1>19. ASSUME NEW c \in Conns, Copy(c) PROVE TypeOK'
    BY <1>19 DEF Copy
<1>20. ASSUME NEW c \in Conns, GiveUp(c) PROVE TypeOK'
    BY <1>20 DEF GiveUp
<1>21. ASSUME NEW c \in Conns, PartialHeaders(c) PROVE TypeOK'
  <2>1. pc' = pc \/ pc' = [pc EXCEPT ![c] = "response"]
      BY <1>21 DEF PartialHeaders
  <2>2. pc' \in [Conns -> Places]
      BY <2>1
  <2> QED  BY <1>21, <2>2 DEF PartialHeaders
<1>22. ASSUME NEW c \in Conns, SizedResponse(c) PROVE TypeOK'
  <2>1. PICK n \in 0..(MaxPieces - received[c]) : Downloaded(c, n)
      BY <1>22 DEF SizedResponse
  <2>2. pc' \in [Conns -> Places]
      BY <2>1 DEF Downloaded
  <2>3. head' \in [Conns -> {"none", "length", "open"}]
      BY <2>1 DEF Downloaded
  <2>4. entryStatus' \in [Conns -> {"ES_DOWNLOADING", "ES_VALID", "ES_INVALID"}]
      BY <2>1 DEF Downloaded, MarkIfAny
  <2> QED  BY <2>1, <2>2, <2>3, <2>4 DEF Downloaded
<1>23. ASSUME NEW c \in Conns, NextPiece(c) PROVE TypeOK'
  <2>1. pc' \in [Conns -> Places]
    <3>1. \E to \in {"exit", "response"} : pc' = [pc EXCEPT ![c] = to]
        BY <1>23 DEF NextPiece, Downloaded
    <3> QED  BY <3>1
  <2>2. head' \in [Conns -> {"none", "length", "open"}]
      BY <1>23 DEF NextPiece, Downloaded
  <2>3. entryStatus' \in [Conns -> {"ES_DOWNLOADING", "ES_VALID", "ES_INVALID"}]
      BY <1>23 DEF NextPiece, Downloaded, MarkIfAny
  <2> QED  BY <1>23, <2>1, <2>2, <2>3 DEF NextPiece, Downloaded
<1>24. ASSUME NEW c \in Conns, ErrorResponse(c) PROVE TypeOK'
    BY <1>24 DEF ErrorResponse
<1>25. ASSUME NEW c \in Conns, OpenResponse(c) PROVE TypeOK'
  <2>1. pc' \in [Conns -> Places]
    <3>1. \E to \in {"exit", "response"} : pc' = [pc EXCEPT ![c] = to]
        BY <1>25 DEF OpenResponse
    <3> QED  BY <3>1
  <2>2. head' \in [Conns -> {"none", "length", "open"}]
      BY <1>25 DEF OpenResponse
  <2>3. entryStatus' \in [Conns -> {"ES_DOWNLOADING", "ES_VALID", "ES_INVALID"}]
      BY <1>25 DEF OpenResponse, Mark
  <2> QED  BY <1>25, <2>1, <2>2, <2>3 DEF OpenResponse
<1>26. ASSUME NEW c \in Conns, Hit(c) PROVE TypeOK'
  <2> DEFINE extent == dataCount[cacheEntry[c]]
             sum == IF c \in gone THEN written[c] - 1
                    ELSE IF written[c] < extent THEN written[c] + 1 ELSE written[c]
  <2>1. sum \in Int
      OBVIOUS
  <2>2. /\ written' = [written EXCEPT ![c] = sum]
        /\ got' = IF sum > written[c] THEN [got EXCEPT ![c] = Append(@, sum)] ELSE got
        /\ pc' = [pc EXCEPT ![c] = IF sum < 0 \/ sum >= extent THEN "exit" ELSE "hit"]
        /\ UNCHANGED <<entryVars, clientVars, cacheEntry, found, responseVars>>
      BY <1>26 DEF Hit
  <2> HIDE DEF sum, extent
  <2>3. got' \in [Conns -> Seq(Int)]
      BY <2>1, <2>2
  <2>4. written' \in [Conns -> Int] /\ pc' \in [Conns -> Places]
      BY <2>1, <2>2
  <2> QED  BY <2>2, <2>3, <2>4
<1>27. ASSUME NEW c \in Conns, Spin(c) PROVE TypeOK'
    BY <1>27 DEF Spin
<1>28. ASSUME NEW c \in Conns, Send(c) PROVE TypeOK'
  <2>1. cacheEntry[c] \in Conns /\ WriteUnsent(c)
      BY <1>28 DEF Send
  <2>2. got' \in [Conns -> Seq(Int)]
      BY <2>1, WriteAppends
  <2>3. pc' \in [Conns -> Places]
      BY <1>28 DEF Send
  <2> QED  BY <1>28, <2>2, <2>3 DEF Send
<1>29. ASSUME NEW c \in Conns, Skip(c) PROVE TypeOK'
    BY <1>29, SMTT(30) DEF Skip
<1>30. ASSUME NEW c \in Conns, SendRest(c) PROVE TypeOK'
  <2>1. cacheEntry[c] \in Conns /\ WriteUnsent(c)
      BY <1>30 DEF SendRest
  <2>2. got' \in [Conns -> Seq(Int)]
      BY <2>1, WriteAppends
  <2>3. pc' \in [Conns -> Places]
      BY <1>30 DEF SendRest
  <2> QED  BY <1>30, <2>2, <2>3 DEF SendRest
<1>31. ASSUME NEW c \in Conns, Leave(c) PROVE TypeOK'
  <2>1. pc' \in [Conns -> Places]
      BY <1>31 DEF Leave
  <2>2. waitersCount' \in [Conns -> Int]
      BY <1>31, SMTT(30) DEF Leave
  <2> QED  BY <1>31, <2>1, <2>2 DEF Leave
<1>32. ASSUME NEW c \in Conns, ThreadExit(c) PROVE TypeOK'
  <2>1. Goto(c, "invalidate") \/ Goto(c, "done")
      BY <1>32 DEF ThreadExit
  <2>4. pc' \in [Conns -> Places]
      BY <2>1
  <2>2. Free(c) \/ UNCHANGED <<found, responseVars, servedVars>>
      BY <1>32 DEF ThreadExit
  <2>3. /\ found' \in [Conns -> Conns \cup {NONE}]
        /\ head' \in [Conns -> {"none", "length", "open"}]
        /\ written' \in [Conns -> Int] /\ got' \in [Conns -> Seq(Int)]
      BY <2>2, FreeTyped
  <2>5. failedAt' = failedAt
      BY <1>32 DEF ThreadExit, Free
  <2> QED  BY <1>32, <2>4, <2>3, <2>5 DEF ThreadExit
<1>33. ASSUME NEW c \in Conns, Invalidate(c) PROVE TypeOK'
  <2>1. pc' \in [Conns -> Places]
      BY <1>33 DEF Invalidate
  <2>2. Free(c)
      BY <1>33 DEF Invalidate
  <2>3. /\ found' \in [Conns -> Conns \cup {NONE}]
        /\ head' \in [Conns -> {"none", "length", "open"}]
        /\ written' \in [Conns -> Int] /\ got' \in [Conns -> Seq(Int)]
      BY <2>2, FreeTyped
  <2>4. entryStatus' \in [Conns -> {"ES_DOWNLOADING", "ES_VALID", "ES_INVALID"}]
      BY <1>33 DEF Invalidate
  <2>5. failedAt' = failedAt
      BY <1>33 DEF Invalidate, Free
  <2> QED  BY <1>33, <2>1, <2>3, <2>4, <2>5 DEF Invalidate
<1>34. ASSUME NEW c \in Conns, Break(c) PROVE TypeOK'
    BY <1>34 DEF Break
<1>35. ASSUME NEW c \in Conns, PollFails(c) PROVE TypeOK'
    BY <1>35 DEF PollFails, Polling
<1>36. ASSUME NEW c \in Conns, PollFailsEarly(c) PROVE TypeOK'
  <2>1. PICK e \in {NONE, WILD} \cup {cacheEntry[d] : d \in {d \in Conns : pc[d] = "done"}} :
            cacheEntry' = [cacheEntry EXCEPT ![c] = e]
      BY <1>36 DEF PollFailsEarly, EndUnasked
  <2>2. e \in Conns \cup {NONE, WILD}
      BY <2>1
  <2>3. cacheEntry' \in [Conns -> Conns \cup {NONE, WILD}]
      BY <2>1, <2>2
  <2> QED  BY <1>36, <2>3 DEF PollFailsEarly, EndUnasked
<1>37. ASSUME NEW c \in Conns, StopReading(c) PROVE TypeOK'
    BY <1>37 DEF StopReading
<1>38. ASSUME NEW c \in Conns, Follow(c) PROVE TypeOK'
    BY <1>38 DEF Follow
<1> QED
    BY <1>1, <1>2, <1>3, <1>4, <1>5, <1>6, <1>7, <1>8, <1>9, <1>10, <1>11, <1>12,
<1>13, <1>14, <1>15, <1>16, <1>17, <1>18, <1>19, <1>20, <1>21, <1>22, <1>23,
<1>24, <1>25, <1>26, <1>27, <1>28, <1>29, <1>30, <1>31, <1>32, <1>33, <1>34,
<1>35, <1>36, <1>37, <1>38 DEF Next, ThreadStep

\* Every step keeps the table to entries that exist.
LEMMA TableStep ==
    TypeOK /\ TableInv /\ UnbornInv /\ [Next]_vars => TableInv'
<1> SUFFICES ASSUME TypeOK, TableInv, UnbornInv, [Next]_vars PROVE TableInv'
    OBVIOUS
<1> USE ProxyAssumption DEF TableInv, Runs, Goto, Mark, entryVars, clientVars, responseVars, servedVars
<1>1. CASE UNCHANGED vars
    BY <1>1 DEF vars
<1>2. ASSUME NEW c \in Conns, Accept(c) PROVE TableInv'
    BY <1>2 DEF Accept
<1>3. ASSUME NEW c \in Conns, Disconnect(c) PROVE TableInv'
    BY <1>3 DEF Disconnect
<1>4. ASSUME NEW c \in Conns, ClientClosed(c) PROVE TableInv'
    BY <1>4 DEF ClientClosed, EndUnasked
<1>5. ASSUME NEW c \in Conns, GetRequest(c) PROVE TableInv'
    BY <1>5 DEF GetRequest
<1>6. ASSUME NEW c \in Conns, GetOtherRequest(c) PROVE TableInv'
    BY <1>6 DEF GetOtherRequest
<1>7. ASSUME NEW c \in Conns, TestInvalid(c) PROVE TableInv'
    BY <1>7 DEF TestInvalid
<1>8. ASSUME NEW c \in Conns, Delete(c) PROVE TableInv'
    BY <1>8 DEF Delete
<1>9. ASSUME NEW c \in Conns, TestValid(c) PROVE TableInv'
    BY <1>9 DEF TestValid
<1>10. ASSUME NEW c \in Conns, TestDownloading(c) PROVE TableInv'
    BY <1>10 DEF TestDownloading
<1>11. ASSUME NEW c \in Conns, CountWaiter(c) PROVE TableInv'
    BY <1>11 DEF CountWaiter
<1>12. ASSUME NEW c \in Conns, Insert(c) PROVE TableInv'
    BY <1>12 DEF Insert
<1>13. ASSUME NEW c \in Conns, InsertFails(c) PROVE TableInv'
    BY <1>13 DEF InsertFails
<1>14. ASSUME NEW c \in Conns, Connect(c) PROVE TableInv'
    BY <1>14 DEF Connect
<1>15. ASSUME NEW c \in Conns, ForwardRequest(c) PROVE TableInv'
    BY <1>15 DEF ForwardRequest
<1>16. ASSUME NEW c \in Conns, ForwardNothing(c) PROVE TableInv'
    BY <1>16 DEF ForwardNothing
<1>17. ASSUME NEW c \in Conns, EndOfResponse(c) PROVE TableInv'
    BY <1>17 DEF EndOfResponse, MarkIfAny
<1>18. ASSUME NEW c \in Conns, ReadResponse(c) PROVE TableInv'
    BY <1>18 DEF ReadResponse
<1>19. ASSUME NEW c \in Conns, Copy(c) PROVE TableInv'
    BY <1>19 DEF Copy
<1>20. ASSUME NEW c \in Conns, GiveUp(c) PROVE TableInv'
    BY <1>20 DEF GiveUp
<1>21. ASSUME NEW c \in Conns, PartialHeaders(c) PROVE TableInv'
    BY <1>21 DEF PartialHeaders
<1>22. ASSUME NEW c \in Conns, SizedResponse(c) PROVE TableInv'
    BY <1>22 DEF SizedResponse, Downloaded, MarkIfAny
<1>23. ASSUME NEW c \in Conns, NextPiece(c) PROVE TableInv'
    BY <1>23 DEF NextPiece, Downloaded, MarkIfAny
<1>24. ASSUME NEW c \in Conns, ErrorResponse(c) PROVE TableInv'
    BY <1>24 DEF ErrorResponse
<1>25. ASSUME NEW c \in Conns, OpenResponse(c) PROVE TableInv'
    BY <1>25 DEF OpenResponse
<1>26. ASSUME NEW c \in Conns, Hit(c) PROVE TableInv'
    BY <1>26 DEF Hit
<1>27. ASSUME NEW c \in Conns, Spin(c) PROVE TableInv'
    BY <1>27 DEF Spin
<1>28. ASSUME NEW c \in Conns, Send(c) PROVE TableInv'
    BY <1>28 DEF Send
<1>29. ASSUME NEW c \in Conns, Skip(c) PROVE TableInv'
    BY <1>29 DEF Skip
<1>30. ASSUME NEW c \in Conns, SendRest(c) PROVE TableInv'
    BY <1>30 DEF SendRest
<1>31. ASSUME NEW c \in Conns, Leave(c) PROVE TableInv'
    BY <1>31 DEF Leave
<1>32. ASSUME NEW c \in Conns, ThreadExit(c) PROVE TableInv'
    BY <1>32 DEF ThreadExit, Free
<1>33. ASSUME NEW c \in Conns, Invalidate(c) PROVE TableInv'
    BY <1>33 DEF Invalidate, Free
<1>34. ASSUME NEW c \in Conns, Break(c) PROVE TableInv'
    BY <1>34 DEF Break
<1>35. ASSUME NEW c \in Conns, PollFails(c) PROVE TableInv'
    BY <1>35 DEF PollFails, Polling
<1>36. ASSUME NEW c \in Conns, PollFailsEarly(c) PROVE TableInv'
    BY <1>36 DEF PollFailsEarly, EndUnasked
<1>37. ASSUME NEW c \in Conns, StopReading(c) PROVE TableInv'
    BY <1>37 DEF StopReading
<1>38. ASSUME NEW c \in Conns, Follow(c) PROVE TableInv'
    BY <1>38 DEF Follow
<1> QED
    BY <1>1, <1>2, <1>3, <1>4, <1>5, <1>6, <1>7, <1>8, <1>9, <1>10, <1>11, <1>12,
<1>13, <1>14, <1>15, <1>16, <1>17, <1>18, <1>19, <1>20, <1>21, <1>22, <1>23,
<1>24, <1>25, <1>26, <1>27, <1>28, <1>29, <1>30, <1>31, <1>32, <1>33, <1>34,
<1>35, <1>36, <1>37, <1>38 DEF Next, ThreadStep

\* A thread that stays before its insertion, or takes the entry it found, leaves the unborn
\* entries unknown.
LEMMA UnbornKept ==
    ASSUME UnbornInv, NEW c \in Conns,
           pc[c] \in BeforeInsert, \A d \in Conns \ {c} : pc'[d] = pc[d],
           \A d \in Conns \ {c} : cacheEntry'[d] = cacheEntry[d],
           cacheEntry'[c] \in {cacheEntry[c], found[c]},
           UNCHANGED <<allocated, waitersCount, found>>
    PROVE  UnbornInv'
<1> SUFFICES ASSUME NEW e \in Conns, pc'[e] \in BeforeInsert
             PROVE  /\ e \notin allocated /\ waitersCount[e] = 0
                    /\ \A d \in Conns : found[d] # e /\ cacheEntry'[d] # e
    BY DEF UnbornInv
<1>1. pc[e] \in BeforeInsert
    OBVIOUS
<1>2. /\ e \notin allocated /\ waitersCount[e] = 0
      /\ \A d \in Conns : found[d] # e /\ cacheEntry[d] # e
    BY <1>1 DEF UnbornInv
<1> QED  BY <1>2

\* Nobody comes to know an entry before it is made.
LEMMA UnbornStep ==
    TypeOK /\ TableInv /\ UnbornInv /\ [Next]_vars => UnbornInv'
<1> SUFFICES ASSUME TypeOK, TableInv, UnbornInv, [Next]_vars PROVE UnbornInv'
    OBVIOUS
<1> USE ProxyAssumption DEF TypeOK, TableInv, UnbornInv, BeforeInsert, Testing, Following, Runs, Goto, Mark, entryVars, clientVars, responseVars, servedVars
<1>1. CASE UNCHANGED vars
    BY <1>1 DEF vars
<1>2. ASSUME NEW c \in Conns, Accept(c) PROVE UnbornInv'
    BY <1>2 DEF Accept
<1>3. ASSUME NEW c \in Conns, Disconnect(c) PROVE UnbornInv'
    BY <1>3 DEF Disconnect
<1>4. ASSUME NEW c \in Conns, ClientClosed(c) PROVE UnbornInv'
    BY <1>4 DEF ClientClosed, EndUnasked
<1>5. ASSUME NEW c \in Conns, GetRequest(c) PROVE UnbornInv'
    BY <1>5 DEF GetRequest
<1>6. ASSUME NEW c \in Conns, GetOtherRequest(c) PROVE UnbornInv'
    BY <1>6 DEF GetOtherRequest
<1>7. ASSUME NEW c \in Conns, TestInvalid(c) PROVE UnbornInv'
    BY <1>7 DEF TestInvalid
<1>8. ASSUME NEW c \in Conns, Delete(c) PROVE UnbornInv'
    BY <1>8 DEF Delete
<1>9. ASSUME NEW c \in Conns, TestValid(c) PROVE UnbornInv'
  <2>1. pc'[c] \in {"hit", "testDownloading"} /\ \A d \in Conns \ {c} : pc'[d] = pc[d]
      BY <1>9 DEF TestValid
  <2>2. pc[c] = "testValid" /\ (\A d \in Conns \ {c} : cacheEntry'[d] = cacheEntry[d]) /\ cacheEntry'[c] \in {cacheEntry[c], found[c]} /\ UNCHANGED <<allocated, waitersCount, found>>
      BY <1>9 DEF TestValid
  <2> HIDE DEF UnbornInv, TypeOK, TableInv
  <2> QED  BY <2>1, <2>2, UnbornKept
<1>10. ASSUME NEW c \in Conns, TestDownloading(c) PROVE UnbornInv'
  <2>1. pc'[c] \in {"count", "getting"} /\ \A d \in Conns \ {c} : pc'[d] = pc[d]
      BY <1>10 DEF TestDownloading
  <2>2. /\ pc[c] = "testDownloading" /\ (\A d \in Conns \ {c} : cacheEntry'[d] = cacheEntry[d])
        /\ cacheEntry'[c] \in {cacheEntry[c], found[c]}
        /\ UNCHANGED <<allocated, waitersCount, found>>
      BY <1>10 DEF TestDownloading
  <2> HIDE DEF UnbornInv, TypeOK, TableInv
  <2> QED  BY <2>1, <2>2, UnbornKept
<1>11. ASSUME NEW c \in Conns, CountWaiter(c) PROVE UnbornInv'
    BY <1>11 DEF CountWaiter
<1>12. ASSUME NEW c \in Conns, Insert(c) PROVE UnbornInv'
    BY <1>12 DEF Insert
<1>13. ASSUME NEW c \in Conns, InsertFails(c) PROVE UnbornInv'
    BY <1>13 DEF InsertFails
<1>14. ASSUME NEW c \in Conns, Connect(c) PROVE UnbornInv'
    BY <1>14 DEF Connect
<1>15. ASSUME NEW c \in Conns, ForwardRequest(c) PROVE UnbornInv'
    BY <1>15 DEF ForwardRequest
<1>16. ASSUME NEW c \in Conns, ForwardNothing(c) PROVE UnbornInv'
    BY <1>16 DEF ForwardNothing
<1>17. ASSUME NEW c \in Conns, EndOfResponse(c) PROVE UnbornInv'
    BY <1>17 DEF EndOfResponse, MarkIfAny
<1>18. ASSUME NEW c \in Conns, ReadResponse(c) PROVE UnbornInv'
  <2>1. pc'[c] \in {"parse", "giveUp", "copy"} /\ \A d \in Conns \ {c} : pc'[d] = pc[d]
      BY <1>18 DEF ReadResponse
  <2>2. UNCHANGED <<allocated, waitersCount, found, cacheEntry>>
      BY <1>18 DEF ReadResponse
  <2> QED  BY <2>1, <2>2
<1>19. ASSUME NEW c \in Conns, Copy(c) PROVE UnbornInv'
    BY <1>19 DEF Copy
<1>20. ASSUME NEW c \in Conns, GiveUp(c) PROVE UnbornInv'
    BY <1>20 DEF GiveUp
<1>21. ASSUME NEW c \in Conns, PartialHeaders(c) PROVE UnbornInv'
    BY <1>21 DEF PartialHeaders
<1>22. ASSUME NEW c \in Conns, SizedResponse(c) PROVE UnbornInv'
  <2>1. pc'[c] \in {"exit", "response"} /\ \A d \in Conns \ {c} : pc'[d] = pc[d]
      BY <1>22 DEF SizedResponse, Downloaded, MarkIfAny
  <2>2. UNCHANGED <<allocated, waitersCount, found, cacheEntry>>
      BY <1>22 DEF SizedResponse, Downloaded, MarkIfAny
  <2> QED  BY <2>1, <2>2
<1>23. ASSUME NEW c \in Conns, NextPiece(c) PROVE UnbornInv'
  <2>1. pc'[c] \in {"exit", "response"} /\ \A d \in Conns \ {c} : pc'[d] = pc[d]
      BY <1>23 DEF NextPiece, Downloaded, MarkIfAny
  <2>2. UNCHANGED <<allocated, waitersCount, found, cacheEntry>>
      BY <1>23 DEF NextPiece, Downloaded, MarkIfAny
  <2> QED  BY <2>1, <2>2
<1>24. ASSUME NEW c \in Conns, ErrorResponse(c) PROVE UnbornInv'
    BY <1>24 DEF ErrorResponse
<1>25. ASSUME NEW c \in Conns, OpenResponse(c) PROVE UnbornInv'
  <2>1. pc'[c] \in {"exit", "response"} /\ \A d \in Conns \ {c} : pc'[d] = pc[d]
      BY <1>25 DEF OpenResponse
  <2>2. UNCHANGED <<allocated, waitersCount, found, cacheEntry>>
      BY <1>25 DEF OpenResponse
  <2> QED  BY <2>1, <2>2
<1>26. ASSUME NEW c \in Conns, Hit(c) PROVE UnbornInv'
    BY <1>26 DEF Hit
<1>27. ASSUME NEW c \in Conns, Spin(c) PROVE UnbornInv'
    BY <1>27 DEF Spin
<1>28. ASSUME NEW c \in Conns, Send(c) PROVE UnbornInv'
    BY <1>28 DEF Send
<1>29. ASSUME NEW c \in Conns, Skip(c) PROVE UnbornInv'
    BY <1>29 DEF Skip
<1>30. ASSUME NEW c \in Conns, SendRest(c) PROVE UnbornInv'
    BY <1>30 DEF SendRest
<1>31. ASSUME NEW c \in Conns, Leave(c) PROVE UnbornInv'
    BY <1>31 DEF Leave
<1>32. ASSUME NEW c \in Conns, ThreadExit(c) PROVE UnbornInv'
  <2>1. (\A d \in Conns \ {c} : pc'[d] = pc[d]) /\ pc'[c] \in {"invalidate", "done"}
      BY <1>32 DEF ThreadExit
  <2>2. UNCHANGED <<allocated, waitersCount, cacheEntry>> /\ \A d \in Conns : found'[d] \in {found[d], NONE}
      BY <1>32 DEF ThreadExit, Free
  <2> QED  BY <2>1, <2>2, SMTT(30)
<1>33. ASSUME NEW c \in Conns, Invalidate(c) PROVE UnbornInv'
    BY <1>33 DEF Invalidate, Free
<1>34. ASSUME NEW c \in Conns, Break(c) PROVE UnbornInv'
    BY <1>34 DEF Break
<1>35. ASSUME NEW c \in Conns, PollFails(c) PROVE UnbornInv'
    BY <1>35 DEF PollFails, Polling
<1>36. ASSUME NEW c \in Conns, PollFailsEarly(c) PROVE UnbornInv'
    BY <1>36 DEF PollFailsEarly, EndUnasked
<1>37. ASSUME NEW c \in Conns, StopReading(c) PROVE UnbornInv'
    BY <1>37 DEF StopReading
<1>38. ASSUME NEW c \in Conns, Follow(c) PROVE UnbornInv'
    BY <1>38 DEF Follow
<1> QED
    BY <1>1, <1>2, <1>3, <1>4, <1>5, <1>6, <1>7, <1>8, <1>9, <1>10, <1>11, <1>12,
<1>13, <1>14, <1>15, <1>16, <1>17, <1>18, <1>19, <1>20, <1>21, <1>22, <1>23,
<1>24, <1>25, <1>26, <1>27, <1>28, <1>29, <1>30, <1>31, <1>32, <1>33, <1>34,
<1>35, <1>36, <1>37, <1>38 DEF Next, ThreadStep

\* A download works on its own entry to the end.
LEMMA OwnerStep ==
    TypeOK /\ TableInv /\ OwnerInv /\ [Next]_vars => OwnerInv'
<1> SUFFICES ASSUME TypeOK, TableInv, OwnerInv, [Next]_vars PROVE OwnerInv'
    OBVIOUS
<1> USE ProxyAssumption DEF TypeOK, OwnerInv, Downloading, Runs, Goto, Mark, entryVars, clientVars, responseVars, servedVars
<1>1. CASE UNCHANGED vars
    BY <1>1 DEF vars
<1>2. ASSUME NEW c \in Conns, Accept(c) PROVE OwnerInv'
    BY <1>2 DEF Accept
<1>3. ASSUME NEW c \in Conns, Disconnect(c) PROVE OwnerInv'
    BY <1>3 DEF Disconnect
<1>4. ASSUME NEW c \in Conns, ClientClosed(c) PROVE OwnerInv'
    BY <1>4, SMTT(30) DEF ClientClosed, EndUnasked
<1>5. ASSUME NEW c \in Conns, GetRequest(c) PROVE OwnerInv'
    BY <1>5 DEF GetRequest
<1>6. ASSUME NEW c \in Conns, GetOtherRequest(c) PROVE OwnerInv'
    BY <1>6 DEF GetOtherRequest
<1>7. ASSUME NEW c \in Conns, TestInvalid(c) PROVE OwnerInv'
    BY <1>7 DEF TestInvalid
<1>8. ASSUME NEW c \in Conns, Delete(c) PROVE OwnerInv'
    BY <1>8 DEF Delete
<1>9. ASSUME NEW c \in Conns, TestValid(c) PROVE OwnerInv'
  <2>1. pc'[c] \in {"hit", "testDownloading"} /\ \A d \in Conns \ {c} : pc'[d] = pc[d]
      BY <1>9 DEF TestValid
  <2>2. pc[c] = "testValid" /\ (\A d \in Conns \ {c} : cacheEntry'[d] = cacheEntry[d]) /\ UNCHANGED <<ready, dataCount, entryStatus>>
      BY <1>9 DEF TestValid
  <2>5. \A d \in Conns : pc'[d] \in Downloading => cacheEntry'[d] \in {d, NONE}
      BY <2>1, <2>2
  <2>6. \A d \in Conns : pc'[d] = "copy" => cacheEntry'[d] = d
      BY <2>1, <2>2, ZenonT(30)
  <2>7. \A d \in Conns : entryStatus'[d] = "ES_VALID" => pc'[d] \in {"exit", "invalidate", "done"}
      BY <2>1, <2>2
  <2>8. \A d \in Conns : pc'[d] # "copy" => ready'[d] = dataCount'[d]
      BY <2>1, <2>2
  <2> QED  BY <2>5, <2>6, <2>7, <2>8
<1>10. ASSUME NEW c \in Conns, TestDownloading(c) PROVE OwnerInv'
  <2>1. pc'[c] \in {"count", "getting"} /\ \A d \in Conns \ {c} : pc'[d] = pc[d]
      BY <1>10 DEF TestDownloading
  <2>2. pc[c] = "testDownloading" /\ (\A d \in Conns \ {c} : cacheEntry'[d] = cacheEntry[d]) /\ UNCHANGED <<ready, dataCount, entryStatus>>
      BY <1>10 DEF TestDownloading
  <2>5. \A d \in Conns : pc'[d] \in Downloading => cacheEntry'[d] \in {d, NONE}
      BY <2>1, <2>2
  <2>6. \A d \in Conns : pc'[d] = "copy" => cacheEntry'[d] = d
      BY <2>1, <2>2, ZenonT(30)
  <2>7. \A d \in Conns : entryStatus'[d] = "ES_VALID" => pc'[d] \in {"exit", "invalidate", "done"}
      BY <2>1, <2>2
  <2>8. \A d \in Conns : pc'[d] # "copy" => ready'[d] = dataCount'[d]
      BY <2>1, <2>2
  <2> QED  BY <2>5, <2>6, <2>7, <2>8
<1>11. ASSUME NEW c \in Conns, CountWaiter(c) PROVE OwnerInv'
    BY <1>11 DEF CountWaiter
<1>12. ASSUME NEW c \in Conns, Insert(c) PROVE OwnerInv'
    BY <1>12 DEF Insert
<1>13. ASSUME NEW c \in Conns, InsertFails(c) PROVE OwnerInv'
    BY <1>13 DEF InsertFails
<1>14. ASSUME NEW c \in Conns, Connect(c) PROVE OwnerInv'
    BY <1>14 DEF Connect
<1>15. ASSUME NEW c \in Conns, ForwardRequest(c) PROVE OwnerInv'
    BY <1>15 DEF ForwardRequest
<1>16. ASSUME NEW c \in Conns, ForwardNothing(c) PROVE OwnerInv'
  <2>1. pc[c] = "forwarding" /\ pc'[c] \in {"forwarding", "response"} /\ \A d \in Conns \ {c} : pc'[d] = pc[d]
      BY <1>16 DEF ForwardNothing
  <2>2. UNCHANGED <<ready, dataCount, cacheEntry, entryStatus>>
      BY <1>16 DEF ForwardNothing
  <2> QED  BY <2>1, <2>2
<1>17. ASSUME NEW c \in Conns, EndOfResponse(c) PROVE OwnerInv'
    BY <1>17 DEF EndOfResponse, MarkIfAny
<1>18. ASSUME NEW c \in Conns, ReadResponse(c) PROVE OwnerInv'
  <2>1. (\A d \in Conns \ {c} : pc'[d] = pc[d]) /\ pc'[c] \in {"parse", "giveUp", "copy"}
      BY <1>18 DEF ReadResponse
  <2>2. UNCHANGED <<entryStatus, ready, cacheEntry>> /\ pc[c] = "response" /\ cacheEntry[c] \in {c, NONE}
      BY <1>18 DEF ReadResponse
  <2>3. \/ UNCHANGED dataCount /\ pc'[c] # "copy"
        \/ cacheEntry[c] = c /\ pc'[c] = "copy" /\ dataCount' = [dataCount EXCEPT ![c] = @ + 1]
      BY <1>18 DEF ReadResponse
  <2>5. \A d \in Conns : pc'[d] \in Downloading => cacheEntry'[d] \in {d, NONE}
      BY <2>1, <2>2, <2>3
  <2>6. \A d \in Conns : pc'[d] = "copy" => cacheEntry'[d] = d
      BY <2>1, <2>2, <2>3
  <2>7. \A d \in Conns : entryStatus'[d] = "ES_VALID" => pc'[d] \in {"exit", "invalidate", "done"}
      BY <2>1, <2>2, <2>3
  <2>8. \A d \in Conns : pc'[d] # "copy" => ready'[d] = dataCount'[d]
      BY <2>1, <2>2, <2>3
  <2> QED  BY <2>5, <2>6, <2>7, <2>8
<1>19. ASSUME NEW c \in Conns, Copy(c) PROVE OwnerInv'
    BY <1>19 DEF Copy
<1>20. ASSUME NEW c \in Conns, GiveUp(c) PROVE OwnerInv'
    BY <1>20 DEF GiveUp
<1>21. ASSUME NEW c \in Conns, PartialHeaders(c) PROVE OwnerInv'
    BY <1>21 DEF PartialHeaders
<1>22. ASSUME NEW c \in Conns, SizedResponse(c) PROVE OwnerInv'
  <2>1. (\A d \in Conns \ {c} : pc'[d] = pc[d]) /\ pc'[c] \in {"exit", "response"}
      BY <1>22 DEF SizedResponse, Downloaded, MarkIfAny
  <2>2. UNCHANGED <<ready, dataCount, cacheEntry>> /\ pc[c] = "parse" /\ cacheEntry[c] \in {c, NONE}
      BY <1>22 DEF SizedResponse, Downloaded, MarkIfAny
  <2>3. \/ UNCHANGED entryStatus
        \/ pc'[c] = "exit" /\ entryStatus' = [entryStatus EXCEPT ![c] = "ES_VALID"]
      BY <1>22, <2>2 DEF SizedResponse, Downloaded, MarkIfAny
  <2> QED  BY <2>1, <2>2, <2>3, ZenonT(30)
<1>23. ASSUME NEW c \in Conns, NextPiece(c) PROVE OwnerInv'
  <2>1. (\A d \in Conns \ {c} : pc'[d] = pc[d]) /\ pc'[c] \in {"exit", "response"}
      BY <1>23 DEF NextPiece, Downloaded, MarkIfAny
  <2>2. UNCHANGED <<ready, dataCount, cacheEntry>> /\ pc[c] = "parse" /\ cacheEntry[c] \in {c, NONE}
      BY <1>23 DEF NextPiece, Downloaded, MarkIfAny
  <2>3. \/ UNCHANGED entryStatus
        \/ pc'[c] = "exit" /\ entryStatus' = [entryStatus EXCEPT ![c] = "ES_VALID"]
      BY <1>23, <2>2 DEF NextPiece, Downloaded, MarkIfAny
  <2> QED  BY <2>1, <2>2, <2>3, ZenonT(30)
<1>24. ASSUME NEW c \in Conns, ErrorResponse(c) PROVE OwnerInv'
    BY <1>24, SMTT(30) DEF ErrorResponse
<1>25. ASSUME NEW c \in Conns, OpenResponse(c) PROVE OwnerInv'
  <2>1. pc[c] = "parse" /\ pc'[c] \in {"exit", "response"} /\ \A d \in Conns \ {c} : pc'[d] = pc[d]
      BY <1>25 DEF OpenResponse
  <2>2. UNCHANGED <<ready, dataCount, cacheEntry>>
      BY <1>25 DEF OpenResponse
  <2>3. \A d \in Conns : entryStatus'[d] = "ES_VALID" => entryStatus[d] = "ES_VALID"
      BY <1>25 DEF OpenResponse
  <2>4. /\ \A d \in Conns : pc'[d] \in Downloading => cacheEntry'[d] \in {d, NONE}
        /\ \A d \in Conns : pc'[d] = "copy" => cacheEntry'[d] = d
        /\ \A d \in Conns : pc'[d] # "copy" => ready'[d] = dataCount'[d]
      BY <2>1, <2>2
  <2>5. \A d \in Conns : entryStatus'[d] = "ES_VALID" => pc'[d] \in {"exit", "invalidate", "done"}
      BY <2>1, <2>3
  <2> QED  BY <2>4, <2>5
<1>26. ASSUME NEW c \in Conns, Hit(c) PROVE OwnerInv'
    BY <1>26 DEF Hit
<1>27. ASSUME NEW c \in Conns, Spin(c) PROVE OwnerInv'
    BY <1>27 DEF Spin
<1>28. ASSUME NEW c \in Conns, Send(c) PROVE OwnerInv'
    BY <1>28 DEF Send
<1>29. ASSUME NEW c \in Conns, Skip(c) PROVE OwnerInv'
    BY <1>29 DEF Skip
<1>30. ASSUME NEW c \in Conns, SendRest(c) PROVE OwnerInv'
    BY <1>30 DEF SendRest
<1>31. ASSUME NEW c \in Conns, Leave(c) PROVE OwnerInv'
    BY <1>31 DEF Leave
<1>32. ASSUME NEW c \in Conns, ThreadExit(c) PROVE OwnerInv'
  <2>1. pc'[c] \in {"invalidate", "done"} /\ \A d \in Conns \ {c} : pc'[d] = pc[d]
      BY <1>32 DEF ThreadExit, Free
  <2>2. pc[c] = "exit" /\ UNCHANGED <<ready, dataCount, cacheEntry, entryStatus>>
      BY <1>32 DEF ThreadExit, Free
  <2> QED  BY <2>1, <2>2
<1>33. ASSUME NEW c \in Conns, Invalidate(c) PROVE OwnerInv'
    BY <1>33 DEF Invalidate, Free
<1>34. ASSUME NEW c \in Conns, Break(c) PROVE OwnerInv'
    BY <1>34 DEF Break
<1>35. ASSUME NEW c \in Conns, PollFails(c) PROVE OwnerInv'
    BY <1>35, SMTT(30) DEF PollFails, Polling
<1>36. ASSUME NEW c \in Conns, PollFailsEarly(c) PROVE OwnerInv'
    BY <1>36, SMTT(30) DEF PollFailsEarly, EndUnasked
<1>37. ASSUME NEW c \in Conns, StopReading(c) PROVE OwnerInv'
    BY <1>37, SMTT(30) DEF StopReading
<1>38. ASSUME NEW c \in Conns, Follow(c) PROVE OwnerInv'
    BY <1>38, SMTT(30) DEF Follow
<1> QED
    BY <1>1, <1>2, <1>3, <1>4, <1>5, <1>6, <1>7, <1>8, <1>9, <1>10, <1>11, <1>12,
<1>13, <1>14, <1>15, <1>16, <1>17, <1>18, <1>19, <1>20, <1>21, <1>22, <1>23,
<1>24, <1>25, <1>26, <1>27, <1>28, <1>29, <1>30, <1>31, <1>32, <1>33, <1>34,
<1>35, <1>36, <1>37, <1>38 DEF Next, ThreadStep

\* A thread whose poll failed goes nowhere but out.
LEMMA StrayStep ==
    TypeOK /\ StrayInv /\ [Next]_vars => StrayInv'
<1> SUFFICES ASSUME TypeOK, StrayInv, [Next]_vars PROVE StrayInv'
    OBVIOUS
<1> USE DEF TypeOK, StrayInv, Runs, Goto, clientVars
<1>1. CASE UNCHANGED vars
    BY <1>1 DEF vars
<1>2. ASSUME NEW c \in Conns, Accept(c) PROVE StrayInv'
    BY <1>2 DEF Accept
<1>3. ASSUME NEW c \in Conns, Disconnect(c) PROVE StrayInv'
    BY <1>3 DEF Disconnect
<1>4. ASSUME NEW c \in Conns, ClientClosed(c) PROVE StrayInv'
    BY <1>4 DEF ClientClosed, EndUnasked
<1>5. ASSUME NEW c \in Conns, GetRequest(c) PROVE StrayInv'
    BY <1>5 DEF GetRequest
<1>6. ASSUME NEW c \in Conns, GetOtherRequest(c) PROVE StrayInv'
    BY <1>6 DEF GetOtherRequest
<1>7. ASSUME NEW c \in Conns, TestInvalid(c) PROVE StrayInv'
    BY <1>7 DEF TestInvalid
<1>8. ASSUME NEW c \in Conns, Delete(c) PROVE StrayInv'
    BY <1>8 DEF Delete
<1>9. ASSUME NEW c \in Conns, TestValid(c) PROVE StrayInv'
    BY <1>9 DEF TestValid
<1>10. ASSUME NEW c \in Conns, TestDownloading(c) PROVE StrayInv'
    BY <1>10 DEF TestDownloading
<1>11. ASSUME NEW c \in Conns, CountWaiter(c) PROVE StrayInv'
    BY <1>11 DEF CountWaiter
<1>12. ASSUME NEW c \in Conns, Insert(c) PROVE StrayInv'
    BY <1>12 DEF Insert
<1>13. ASSUME NEW c \in Conns, InsertFails(c) PROVE StrayInv'
    BY <1>13 DEF InsertFails
<1>14. ASSUME NEW c \in Conns, Connect(c) PROVE StrayInv'
    BY <1>14 DEF Connect
<1>15. ASSUME NEW c \in Conns, ForwardRequest(c) PROVE StrayInv'
    BY <1>15 DEF ForwardRequest
<1>16. ASSUME NEW c \in Conns, ForwardNothing(c) PROVE StrayInv'
    BY <1>16 DEF ForwardNothing
<1>17. ASSUME NEW c \in Conns, EndOfResponse(c) PROVE StrayInv'
    BY <1>17 DEF EndOfResponse
<1>18. ASSUME NEW c \in Conns, ReadResponse(c) PROVE StrayInv'
    BY <1>18 DEF ReadResponse
<1>19. ASSUME NEW c \in Conns, Copy(c) PROVE StrayInv'
    BY <1>19 DEF Copy
<1>20. ASSUME NEW c \in Conns, GiveUp(c) PROVE StrayInv'
    BY <1>20 DEF GiveUp
<1>21. ASSUME NEW c \in Conns, PartialHeaders(c) PROVE StrayInv'
    BY <1>21 DEF PartialHeaders
<1>22. ASSUME NEW c \in Conns, SizedResponse(c) PROVE StrayInv'
    BY <1>22 DEF SizedResponse, Downloaded, MarkIfAny
<1>23. ASSUME NEW c \in Conns, NextPiece(c) PROVE StrayInv'
    BY <1>23 DEF NextPiece, Downloaded, MarkIfAny
<1>24. ASSUME NEW c \in Conns, ErrorResponse(c) PROVE StrayInv'
    BY <1>24 DEF ErrorResponse
<1>25. ASSUME NEW c \in Conns, OpenResponse(c) PROVE StrayInv'
    BY <1>25 DEF OpenResponse
<1>26. ASSUME NEW c \in Conns, Hit(c) PROVE StrayInv'
    BY <1>26 DEF Hit
<1>27. ASSUME NEW c \in Conns, Spin(c) PROVE StrayInv'
    BY <1>27 DEF Spin
<1>28. ASSUME NEW c \in Conns, Send(c) PROVE StrayInv'
    BY <1>28 DEF Send
<1>29. ASSUME NEW c \in Conns, Skip(c) PROVE StrayInv'
    BY <1>29 DEF Skip
<1>30. ASSUME NEW c \in Conns, SendRest(c) PROVE StrayInv'
    BY <1>30 DEF SendRest
<1>31. ASSUME NEW c \in Conns, Leave(c) PROVE StrayInv'
    BY <1>31 DEF Leave
<1>32. ASSUME NEW c \in Conns, ThreadExit(c) PROVE StrayInv'
  <2>1. pc'[c] \in {"invalidate", "done"} /\ \A d \in Conns \ {c} : pc'[d] = pc[d]
      BY <1>32 DEF ThreadExit
  <2>2. failedAt' = failedAt
      BY <1>32 DEF ThreadExit, Free
  <2> QED  BY <2>1, <2>2
<1>33. ASSUME NEW c \in Conns, Invalidate(c) PROVE StrayInv'
    BY <1>33 DEF Invalidate, Free
<1>34. ASSUME NEW c \in Conns, Break(c) PROVE StrayInv'
    BY <1>34 DEF Break
<1>35. ASSUME NEW c \in Conns, PollFails(c) PROVE StrayInv'
    BY <1>35 DEF PollFails
<1>36. ASSUME NEW c \in Conns, PollFailsEarly(c) PROVE StrayInv'
    BY <1>36 DEF PollFailsEarly, EndUnasked
<1>37. ASSUME NEW c \in Conns, StopReading(c) PROVE StrayInv'
    BY <1>37 DEF StopReading
<1>38. ASSUME NEW c \in Conns, Follow(c) PROVE StrayInv'
    BY <1>38 DEF Follow
<1> QED
    BY <1>1, <1>2, <1>3, <1>4, <1>5, <1>6, <1>7, <1>8, <1>9, <1>10, <1>11, <1>12, <1>13, <1>14, <1>15, <1>16, <1>17, <1>18, <1>19, <1>20, <1>21, <1>22, <1>23, <1>24, <1>25, <1>26, <1>27, <1>28, <1>29, <1>30, <1>31, <1>32, <1>33, <1>34, <1>35, <1>36, <1>37, <1>38 DEF Next, ThreadStep

\* Followers of an entry are finitely many.
LEMMA FollowersFinite ==
    ASSUME NEW e PROVE IsFiniteSet(Followers(e))
<1>1. IsFiniteSet(Conns)
    BY ProxyAssumption, FS_Interval DEF Conns
<1>2. Followers(e) \in SUBSET Conns
    BY DEF Followers
<1> QED  BY <1>1, <1>2, FS_Subset

\* A step that makes nobody a follower, and leaves those there are where they are.
SameFollowers ==
    /\ allocated' \subseteq allocated /\ waitersCount' = waitersCount
    /\ \A d \in Conns : Counted(d)' <=> Counted(d)
    /\ \A d \in Conns : Counted(d) => cacheEntry'[d] = cacheEntry[d]

\* A count is right as long as nobody starts or stops to follow.
LEMMA SameFollowersCount == CountInv /\ SameFollowers => CountInv'
<1> SUFFICES ASSUME CountInv, SameFollowers PROVE CountInv'
    OBVIOUS
<1>1. \A e : {d \in Conns : cacheEntry'[d] = e /\ Counted(d)'} = Followers(e)
    BY DEF SameFollowers, Followers
<1> QED  BY <1>1 DEF CountInv, SameFollowers, Followers

\* It is right when a thread that follows nothing moves, and does not begin to.
LEMMA BesideFollowers ==
    ASSUME TypeOK, StrayInv, NEW c \in Conns,
           pc[c] \notin Following \cup {"exit", "invalidate", "done"}, pc'[c] \notin Following,
           \A d \in Conns \ {c} : pc'[d] = pc[d] /\ cacheEntry'[d] = cacheEntry[d],
           UNCHANGED <<failedAt, waitersCount>>, allocated' \subseteq allocated
    PROVE  SameFollowers
<1>1. failedAt[c] = "none" /\ "none" # "follow"
    BY DEF StrayInv
<1>2. ~Counted(c) /\ ~Counted(c)'
    BY <1>1 DEF Counted
<1>3. \A d \in Conns \ {c} : (Counted(d)' <=> Counted(d)) /\ cacheEntry'[d] = cacheEntry[d]
    BY DEF Counted
<1> QED  BY <1>2, <1>3 DEF SameFollowers

\* Every step keeps the counts of the waiters.
LEMMA CountStep ==
    TypeOK /\ TableInv /\ UnbornInv /\ StrayInv /\ CountInv /\ [Next]_vars => CountInv'
<1> SUFFICES ASSUME TypeOK, TableInv, UnbornInv, StrayInv, CountInv, [Next]_vars PROVE CountInv'
    OBVIOUS
<1> USE ProxyAssumption DEF TypeOK, StrayInv, Counted, Following, Polling, Runs, Goto, Mark, entryVars, clientVars, responseVars, servedVars
<1>1. CASE UNCHANGED vars
    BY <1>1, SameFollowersCount DEF vars, SameFollowers
<1>2. ASSUME NEW c \in Conns, Accept(c) PROVE CountInv'
  <2>1. SameFollowers
      BY <1>2, SMTT(30) DEF Accept, SameFollowers
  <2> QED  BY <2>1, SameFollowersCount
<1>3. ASSUME NEW c \in Conns, Disconnect(c) PROVE CountInv'
  <2>1. SameFollowers
      BY <1>3, SMTT(30) DEF Disconnect, SameFollowers
  <2> QED  BY <2>1, SameFollowersCount
<1>4. ASSUME NEW c \in Conns, ClientClosed(c) PROVE CountInv'
  <2>2. pc[c] = "getting" /\ pc'[c] \in {"exit"} /\ \A d \in Conns \ {c} : pc'[d] = pc[d]
      BY <1>4 DEF ClientClosed, EndUnasked
  <2>3. \A d \in Conns \ {c} : cacheEntry'[d] = cacheEntry[d]
      BY <1>4 DEF ClientClosed, EndUnasked
  <2>4. UNCHANGED <<failedAt, waitersCount, allocated>>
      BY <1>4 DEF ClientClosed, EndUnasked
  <2>5. pc[c] \notin Following \cup {"exit", "invalidate", "done"} /\ pc'[c] \notin Following
      BY <2>2
  <2>1. SameFollowers
    <3> HIDE DEF TypeOK, StrayInv, Following
    <3> QED  BY <2>2, <2>3, <2>4, <2>5, BesideFollowers
  <2> QED  BY <2>1, SameFollowersCount
<1>5. ASSUME NEW c \in Conns, GetRequest(c) PROVE CountInv'
  <2>1. SameFollowers
      BY <1>5, SMTT(30) DEF GetRequest, SameFollowers
  <2> QED  BY <2>1, SameFollowersCount
<1>6. ASSUME NEW c \in Conns, GetOtherRequest(c) PROVE CountInv'
  <2>2. pc[c] = "getting" /\ pc'[c] \in {"connect"} /\ \A d \in Conns \ {c} : pc'[d] = pc[d]
      BY <1>6 DEF GetOtherRequest
  <2>3. \A d \in Conns \ {c} : cacheEntry'[d] = cacheEntry[d]
      BY <1>6 DEF GetOtherRequest
  <2>4. UNCHANGED <<failedAt, waitersCount, allocated>>
      BY <1>6 DEF GetOtherRequest
  <2>5. pc[c] \notin Following \cup {"exit", "invalidate", "done"} /\ pc'[c] \notin Following
      BY <2>2
  <2>1. SameFollowers
    <3> HIDE DEF TypeOK, StrayInv, Following
    <3> QED  BY <2>2, <2>3, <2>4, <2>5, BesideFollowers
  <2> QED  BY <2>1, SameFollowersCount
<1>7. ASSUME NEW c \in Conns, TestInvalid(c) PROVE CountInv'
  <2>1. SameFollowers
      BY <1>7, SMTT(30) DEF TestInvalid, SameFollowers
  <2> QED  BY <2>1, SameFollowersCount
<1>8. ASSUME NEW c \in Conns, Delete(c) PROVE CountInv'
  <2>1. SameFollowers
      BY <1>8, SMTT(30) DEF Delete, SameFollowers
  <2> QED  BY <2>1, SameFollowersCount
<1>9. ASSUME NEW c \in Conns, TestValid(c) PROVE CountInv'
  <2>2. pc[c] = "testValid" /\ pc'[c] \in {"hit", "testDownloading"} /\ \A d \in Conns \ {c} : pc'[d] = pc[d]
      BY <1>9 DEF TestValid
  <2>3. \A d \in Conns \ {c} : cacheEntry'[d] = cacheEntry[d]
      BY <1>9 DEF TestValid
  <2>4. UNCHANGED <<failedAt, waitersCount, allocated>>
      BY <1>9 DEF TestValid
  <2>5. pc[c] \notin Following \cup {"exit", "invalidate", "done"} /\ pc'[c] \notin Following
      BY <2>2
  <2>1. SameFollowers
    <3> HIDE DEF TypeOK, StrayInv, Following
    <3> QED  BY <2>2, <2>3, <2>4, <2>5, BesideFollowers
  <2> QED  BY <2>1, SameFollowersCount
<1>10. ASSUME NEW c \in Conns, TestDownloading(c) PROVE CountInv'
  <2>2. pc[c] = "testDownloading" /\ pc'[c] \in {"count", "getting"} /\ \A d \in Conns \ {c} : pc'[d] = pc[d]
      BY <1>10 DEF TestDownloading
  <2>3. \A d \in Conns \ {c} : cacheEntry'[d] = cacheEntry[d]
      BY <1>10 DEF TestDownloading
  <2>4. UNCHANGED <<failedAt, waitersCount, allocated>>
      BY <1>10 DEF TestDownloading
  <2>5. pc[c] \notin Following \cup {"exit", "invalidate", "done"} /\ pc'[c] \notin Following
      BY <2>2
  <2>1. SameFollowers
    <3> HIDE DEF TypeOK, StrayInv, Following
    <3> QED  BY <2>2, <2>3, <2>4, <2>5, BesideFollowers
  <2> QED  BY <2>1, SameFollowersCount
<1>11. ASSUME NEW c \in Conns, CountWaiter(c) PROVE CountInv'
  <2> DEFINE e == cacheEntry[c]
  <2>1. /\ e \in allocated /\ e \in Conns /\ pc[c] = "count" /\ pc' = [pc EXCEPT ![c] = "follow"]
        /\ UNCHANGED failedAt
        /\ waitersCount' = [waitersCount EXCEPT ![e] = @ + 1]
        /\ UNCHANGED <<allocated, cacheEntry>>
      BY <1>11 DEF CountWaiter
  <2> HIDE DEF e
  <2>2. {d \in Conns : cacheEntry'[d] = e /\ Counted(d)'} = Followers(e) \cup {c}
      BY <2>1 DEF e, Followers
  <2>3. c \notin Followers(e)
      BY <2>1 DEF Followers
  <2>4. Cardinality(Followers(e) \cup {c}) = Cardinality(Followers(e)) + 1
      BY <2>3, FollowersFinite, FS_AddElement
  <2>5. \A x : x # e =>
            {d \in Conns : cacheEntry'[d] = x /\ Counted(d)'} = Followers(x)
      BY <2>1 DEF e, Followers
  <2>6. ASSUME NEW x \in allocated' PROVE (waitersCount[x] = Cardinality(Followers(x)))'
    <3>1. waitersCount[x] = Cardinality(Followers(x)) /\ x \in Conns
        BY <2>1, <2>6 DEF CountInv
    <3>2. CASE x = e
      <4>1. Followers(x)' = Followers(e) \cup {c}
          BY <2>2, <3>2 DEF Followers
      <4>2. waitersCount'[x] = waitersCount[e] + 1
          BY <2>1, <3>2
      <4> QED  BY <2>4, <3>1, <3>2, <4>1, <4>2
    <3>3. CASE x # e
      <4>1. Followers(x)' = Followers(x)
          BY <2>5, <3>3 DEF Followers
      <4>2. waitersCount'[x] = waitersCount[x]
          BY <2>1, <3>1, <3>3
      <4> QED  BY <3>1, <4>1, <4>2
    <3> QED  BY <3>2, <3>3
  <2> QED  BY <2>6 DEF CountInv
<1>12. ASSUME NEW c \in Conns, Insert(c) PROVE CountInv'
  <2>1. /\ pc[c] = "insert" /\ pc' = [pc EXCEPT ![c] = "connect"]
        /\ cacheEntry' = [cacheEntry EXCEPT ![c] = c]
        /\ allocated' = (allocated \ {cached}) \cup {c} /\ waitersCount' = waitersCount
        /\ UNCHANGED failedAt
      BY <1>12 DEF Insert
  <2>2. waitersCount[c] = 0 /\ \A d \in Conns : cacheEntry[d] # c
      BY <2>1 DEF UnbornInv, BeforeInsert
  <2>3. {d \in Conns : cacheEntry'[d] = c /\ Counted(d)'} = {}
      BY <2>1, <2>2
  <2>4. \A x : x # c =>
            {d \in Conns : cacheEntry'[d] = x /\ Counted(d)'} = Followers(x)
      BY <2>1 DEF Followers
  <2>5. ASSUME NEW x \in allocated' PROVE (waitersCount[x] = Cardinality(Followers(x)))'
    <3>1. CASE x = c
        BY <2>1, <2>2, <2>3, <3>1, FS_EmptySet DEF Followers
    <3>2. CASE x # c
      <4>1. Followers(x)' = Followers(x)
          BY <2>4, <3>2 DEF Followers
      <4>2. waitersCount'[x] = waitersCount[x] /\ x \in allocated
          BY <2>1, <2>5, <3>2
      <4> QED  BY <4>1, <4>2 DEF CountInv
    <3> QED  BY <3>1, <3>2
  <2> QED  BY <2>5 DEF CountInv
<1>13. ASSUME NEW c \in Conns, InsertFails(c) PROVE CountInv'
  <2>2. pc[c] = "insert" /\ pc'[c] \in {"connect"} /\ \A d \in Conns \ {c} : pc'[d] = pc[d]
      BY <1>13 DEF InsertFails
  <2>3. \A d \in Conns \ {c} : cacheEntry'[d] = cacheEntry[d]
      BY <1>13 DEF InsertFails
  <2>4. UNCHANGED <<failedAt, waitersCount, allocated>>
      BY <1>13 DEF InsertFails
  <2>5. pc[c] \notin Following \cup {"exit", "invalidate", "done"} /\ pc'[c] \notin Following
      BY <2>2
  <2>1. SameFollowers
    <3> HIDE DEF TypeOK, StrayInv, Following
    <3> QED  BY <2>2, <2>3, <2>4, <2>5, BesideFollowers
  <2> QED  BY <2>1, SameFollowersCount
<1>14. ASSUME NEW c \in Conns, Connect(c) PROVE CountInv'
  <2>1. SameFollowers
      BY <1>14, SMTT(30) DEF Connect, SameFollowers
  <2> QED  BY <2>1, SameFollowersCount
<1>15. ASSUME NEW c \in Conns, ForwardRequest(c) PROVE CountInv'
  <2>1. SameFollowers
      BY <1>15, SMTT(30) DEF ForwardRequest, SameFollowers
  <2> QED  BY <2>1, SameFollowersCount
<1>16. ASSUME NEW c \in Conns, ForwardNothing(c) PROVE CountInv'
  <2>1. SameFollowers
      BY <1>16, SMTT(30) DEF ForwardNothing, SameFollowers
  <2> QED  BY <2>1, SameFollowersCount
<1>17. ASSUME NEW c \in Conns, EndOfResponse(c) PROVE CountInv'
  <2>1. SameFollowers
      BY <1>17, SMTT(30) DEF EndOfResponse, MarkIfAny, SameFollowers
  <2> QED  BY <2>1, SameFollowersCount
<1>18. ASSUME NEW c \in Conns, ReadResponse(c) PROVE CountInv'
  <2>1. SameFollowers
      BY <1>18, SMTT(30) DEF ReadResponse, SameFollowers
  <2> QED  BY <2>1, SameFollowersCount
<1>19. ASSUME NEW c \in Conns, Copy(c) PROVE CountInv'
  <2>1. SameFollowers
      BY <1>19, SMTT(30) DEF Copy, SameFollowers
  <2> QED  BY <2>1, SameFollowersCount
<1>20. ASSUME NEW c \in Conns, GiveUp(c) PROVE CountInv'
  <2>1. SameFollowers
      BY <1>20, SMTT(30) DEF GiveUp, SameFollowers
  <2> QED  BY <2>1, SameFollowersCount
<1>21. ASSUME NEW c \in Conns, PartialHeaders(c) PROVE CountInv'
  <2>1. SameFollowers
      BY <1>21, SMTT(30) DEF PartialHeaders, SameFollowers
  <2> QED  BY <2>1, SameFollowersCount
<1>22. ASSUME NEW c \in Conns, SizedResponse(c) PROVE CountInv'
  <2>1. SameFollowers
      BY <1>22, SMTT(30) DEF SizedResponse, Downloaded, MarkIfAny, SameFollowers
  <2> QED  BY <2>1, SameFollowersCount
<1>23. ASSUME NEW c \in Conns, NextPiece(c) PROVE CountInv'
  <2>1. SameFollowers
      BY <1>23, SMTT(30) DEF NextPiece, Downloaded, MarkIfAny, SameFollowers
  <2> QED  BY <2>1, SameFollowersCount
<1>24. ASSUME NEW c \in Conns, ErrorResponse(c) PROVE CountInv'
  <2>2. pc[c] = "parse" /\ pc'[c] \in {"exit", "response"} /\ \A d \in Conns \ {c} : pc'[d] = pc[d]
      BY <1>24 DEF ErrorResponse
  <2>3. \A d \in Conns \ {c} : cacheEntry'[d] = cacheEntry[d]
      BY <1>24 DEF ErrorResponse
  <2>4. UNCHANGED <<failedAt, waitersCount, allocated>>
      BY <1>24 DEF ErrorResponse
  <2>5. pc[c] \notin Following \cup {"exit", "invalidate", "done"} /\ pc'[c] \notin Following
      BY <2>2
  <2>1. SameFollowers
    <3> HIDE DEF TypeOK, StrayInv, Following
    <3> QED  BY <2>2, <2>3, <2>4, <2>5, BesideFollowers
  <2> QED  BY <2>1, SameFollowersCount
<1>25. ASSUME NEW c \in Conns, OpenResponse(c) PROVE CountInv'
  <2>1. SameFollowers
      BY <1>25, SMTT(30) DEF OpenResponse, SameFollowers
  <2> QED  BY <2>1, SameFollowersCount
<1>26. ASSUME NEW c \in Conns, Hit(c) PROVE CountInv'
  <2>1. SameFollowers
      BY <1>26, SMTT(30) DEF Hit, SameFollowers
  <2> QED  BY <2>1, SameFollowersCount
<1>27. ASSUME NEW c \in Conns, Spin(c) PROVE CountInv'
  <2>1. SameFollowers
      BY <1>27, SMTT(30) DEF Spin, SameFollowers
  <2> QED  BY <2>1, SameFollowersCount
<1>28. ASSUME NEW c \in Conns, Send(c) PROVE CountInv'
  <2>1. SameFollowers
      BY <1>28, SMTT(30) DEF Send, SameFollowers
  <2> QED  BY <2>1, SameFollowersCount
<1>29. ASSUME NEW c \in Conns, Skip(c) PROVE CountInv'
  <2>1. SameFollowers
      BY <1>29, SMTT(30) DEF Skip, SameFollowers
  <2> QED  BY <2>1, SameFollowersCount
<1>30. ASSUME NEW c \in Conns, SendRest(c) PROVE CountInv'
  <2>1. SameFollowers
      BY <1>30, SMTT(30) DEF SendRest, SameFollowers
  <2> QED  BY <2>1, SameFollowersCount
<1>31. ASSUME NEW c \in Conns, Leave(c) PROVE CountInv'
  <2> DEFINE e == cacheEntry[c]
  <2>1. /\ e \in allocated /\ e \in Conns /\ pc[c] = "leave" /\ pc' = [pc EXCEPT ![c] = "exit"]
        /\ UNCHANGED failedAt
        /\ waitersCount' = [waitersCount EXCEPT ![e] = @ - 1]
        /\ UNCHANGED <<allocated, cacheEntry>>
      BY <1>31 DEF Leave
  <2> HIDE DEF e
  <2>2. {d \in Conns : cacheEntry'[d] = e /\ Counted(d)'} = Followers(e) \ {c}
      BY <2>1 DEF e, Followers
  <2>3. c \in Followers(e)
      BY <2>1 DEF e, Followers
  <2>4. Cardinality(Followers(e) \ {c}) = Cardinality(Followers(e)) - 1
      BY <2>3, FollowersFinite, FS_RemoveElement
  <2>5. \A x : x # e =>
            {d \in Conns : cacheEntry'[d] = x /\ Counted(d)'} = Followers(x)
      BY <2>1 DEF e, Followers
  <2>6. ASSUME NEW x \in allocated' PROVE (waitersCount[x] = Cardinality(Followers(x)))'
    <3>1. waitersCount[x] = Cardinality(Followers(x)) /\ x \in Conns
        BY <2>1, <2>6 DEF CountInv
    <3>2. CASE x = e
      <4>1. Followers(x)' = Followers(e) \ {c}
          BY <2>2, <3>2 DEF Followers
      <4>2. waitersCount'[x] = waitersCount[e] - 1
          BY <2>1, <3>2
      <4> QED  BY <2>4, <3>1, <3>2, <4>1, <4>2
    <3>3. CASE x # e
      <4>1. Followers(x)' = Followers(x)
          BY <2>5, <3>3 DEF Followers
      <4>2. waitersCount'[x] = waitersCount[x]
          BY <2>1, <3>1, <3>3
      <4> QED  BY <3>1, <4>1, <4>2
    <3> QED  BY <3>2, <3>3
  <2> QED  BY <2>6 DEF CountInv
<1>32. ASSUME NEW c \in Conns, ThreadExit(c) PROVE CountInv'
  <2>1. SameFollowers
      BY <1>32, SMTT(30) DEF ThreadExit, Free, SameFollowers
  <2> QED  BY <2>1, SameFollowersCount
<1>33. ASSUME NEW c \in Conns, Invalidate(c) PROVE CountInv'
  <2>1. SameFollowers
      BY <1>33, SMTT(30) DEF Invalidate, Free, SameFollowers
  <2> QED  BY <2>1, SameFollowersCount
<1>34. ASSUME NEW c \in Conns, Break(c) PROVE CountInv'
  <2>1. SameFollowers
      BY <1>34, SMTT(30) DEF Break, SameFollowers
  <2> QED  BY <2>1, SameFollowersCount
<1>35. ASSUME NEW c \in Conns, PollFails(c) PROVE CountInv'
  <2>2. /\ pc[c] \in Polling /\ pc' = [pc EXCEPT ![c] = "exit"]
        /\ failedAt' = [failedAt EXCEPT ![c] = pc[c]]
        /\ UNCHANGED <<allocated, waitersCount, cacheEntry>>
      BY <1>35 DEF PollFails
  <2>3. Counted(c)' <=> Counted(c)
      BY <2>2
  <2>4. \A d \in Conns \ {c} : Counted(d)' <=> Counted(d)
      BY <2>2
  <2>1. SameFollowers
      BY <2>2, <2>3, <2>4 DEF SameFollowers
  <2> QED  BY <2>1, SameFollowersCount
<1>36. ASSUME NEW c \in Conns, PollFailsEarly(c) PROVE CountInv'
  <2>2. pc[c] = "getting" /\ pc'[c] \in {"exit"} /\ \A d \in Conns \ {c} : pc'[d] = pc[d]
      BY <1>36 DEF PollFailsEarly, EndUnasked
  <2>3. \A d \in Conns \ {c} : cacheEntry'[d] = cacheEntry[d]
      BY <1>36 DEF PollFailsEarly, EndUnasked
  <2>4. UNCHANGED <<failedAt, waitersCount, allocated>>
      BY <1>36 DEF PollFailsEarly, EndUnasked
  <2>5. pc[c] \notin Following \cup {"exit", "invalidate", "done"} /\ pc'[c] \notin Following
      BY <2>2
  <2>1. SameFollowers
    <3> HIDE DEF TypeOK, StrayInv, Following
    <3> QED  BY <2>2, <2>3, <2>4, <2>5, BesideFollowers
  <2> QED  BY <2>1, SameFollowersCount
<1>37. ASSUME NEW c \in Conns, StopReading(c) PROVE CountInv'
  <2>1. SameFollowers
      BY <1>37, SMTT(30) DEF StopReading, SameFollowers
  <2> QED  BY <2>1, SameFollowersCount
<1>38. ASSUME NEW c \in Conns, Follow(c) PROVE CountInv'
  <2>1. SameFollowers
      BY <1>38, SMTT(30) DEF Follow, SameFollowers
  <2> QED  BY <2>1, SameFollowersCount
<1> QED
    BY <1>1, <1>2, <1>3, <1>4, <1>5, <1>6, <1>7, <1>8, <1>9, <1>10, <1>11, <1>12,
<1>13, <1>14, <1>15, <1>16, <1>17, <1>18, <1>19, <1>20, <1>21, <1>22, <1>23,
<1>24, <1>25, <1>26, <1>27, <1>28, <1>29, <1>30, <1>31, <1>32, <1>33, <1>34,
<1>35, <1>36, <1>37, <1>38 DEF Next, ThreadStep

\* A step that gives no client a piece, and moves no thread to where it knows less.
SameServed ==
    /\ got' = got /\ written' = written /\ gone \subseteq gone'
    /\ \A e \in Conns : dataCount[e] <= dataCount'[e]
    /\ \A d \in Conns :
         /\ pc'[d] \in Fresh => pc[d] \in Fresh
         /\ pc'[d] \in {"count"} \cup Following => cacheEntry'[d] \in Conns
         /\ pc'[d] = "hit" => pc[d] \in {"hit"} \cup Fresh
         /\ pc'[d] \in {"spin", "send", "rest"} =>
              cacheEntry'[d] = cacheEntry[d] /\ pc[d] \in {"follow", "spin", "send", "rest"}
         /\ pc'[d] = "skip" => cacheEntry'[d] = cacheEntry[d] /\ pc[d] = "skip"

\* What was served stays right in a step that serves nobody.
LEMMA SameServedServed ==
    TypeOK /\ ServedInv /\ NothingTwice /\ SameServed /\ TypeOK' => ServedInv' /\ NothingTwice'
<1> SUFFICES ASSUME TypeOK, ServedInv, NothingTwice, SameServed, TypeOK'
             PROVE  ServedInv' /\ NothingTwice'
    OBVIOUS
<1>1. NothingTwice'
    BY DEF NothingTwice, SameServed
<1>2. \A d \in Conns : dataCount[d] \in Nat /\ dataCount'[d] \in Nat /\ got[d] \in Seq(Int)
    BY DEF TypeOK
<1>3. \A d \in Conns : pc[d] \in Fresh => got[d] = << >> /\ Len(got[d]) = 0 /\ written[d] = 0
    BY DEF ServedInv
<1>4. ASSUME NEW d \in Conns PROVE
          /\ pc'[d] \in Fresh => got'[d] = << >> /\ written'[d] = 0
          /\ pc'[d] \in {"count"} \cup Following => cacheEntry'[d] \in Conns
    BY <1>3 DEF SameServed
<1>5. ASSUME NEW d \in Conns, pc'[d] = "hit", d \notin gone' PROVE UpTo(d, written[d])'
  <2>1. pc[d] \in {"hit"} \cup Fresh /\ d \notin gone /\ got' = got /\ written' = written
      BY <1>5 DEF SameServed
  <2> QED  BY <1>3, <2>1 DEF ServedInv, UpTo
<1>6. ASSUME NEW d \in Conns, pc'[d] \in {"spin", "send", "rest"}
      PROVE  UpTo(d, written[d])' /\ written'[d] \in 0..dataCount'[cacheEntry'[d]]
  <2>1. /\ cacheEntry'[d] = cacheEntry[d] /\ pc[d] \in {"follow", "spin", "send", "rest"}
        /\ cacheEntry[d] \in Conns
        /\ got' = got /\ written' = written
        /\ dataCount[cacheEntry[d]] <= dataCount'[cacheEntry[d]]
      BY <1>6 DEF SameServed, Following
  <2>2. CASE pc[d] = "follow"
      BY <1>2, <1>3, <2>1, <2>2 DEF UpTo, Fresh
  <2>3. CASE pc[d] # "follow"
    <3>1. UpTo(d, written[d]) /\ written[d] \in 0..dataCount[cacheEntry[d]]
        BY <2>1, <2>3 DEF ServedInv
    <3> QED  BY <1>2, <2>1, <3>1 DEF UpTo
  <2> QED  BY <2>2, <2>3
<1>7. ASSUME NEW d \in Conns, pc'[d] = "skip" PROVE UpTo(d, dataCount[cacheEntry[d]])'
  <2>1. /\ cacheEntry'[d] = cacheEntry[d] /\ pc[d] = "skip" /\ cacheEntry[d] \in Conns
        /\ got' = got /\ dataCount[cacheEntry[d]] <= dataCount'[cacheEntry[d]]
      BY <1>7 DEF SameServed, Following
  <2>2. UpTo(d, dataCount[cacheEntry[d]])
      BY <2>1 DEF ServedInv
  <2>3. \A j \in 1..Len(got[d]) : got[d][j] \in Int
      BY <1>2
  <2> QED  BY <1>2, <2>1, <2>2, <2>3 DEF UpTo
<1> QED  BY <1>1, <1>4, <1>5, <1>6, <1>7 DEF ServedInv

\* So is one that only moves its own thread, and not on to an entry.
LEMMA MovedOnly ==
    ASSUME ServedInv, NEW c \in Conns,
           \A d \in Conns \ {c} : pc'[d] = pc[d], \A d \in Conns \ {c} : cacheEntry'[d] = cacheEntry[d],
           got' = got, written' = written, gone' = gone,
           \A e \in Conns : dataCount[e] <= dataCount'[e],
           pc'[c] \notin Following \cup {"hit"}, pc'[c] \in Fresh => pc[c] \in Fresh,
           pc'[c] = "count" => cacheEntry'[c] \in Conns
    PROVE  SameServed
<1>1. \A d \in Conns : pc[d] \in {"count"} \cup Following => cacheEntry[d] \in Conns
    BY DEF ServedInv
<1>2. {"spin", "send", "rest", "skip"} \subseteq Following
    BY DEF Following
<1> QED  BY <1>1, <1>2 DEF SameServed

\* The other threads know what they knew when theirs is left alone.
LEMMA OthersServed ==
    ASSUME ServedInv, NEW c \in Conns, UNCHANGED <<gone, cacheEntry, dataCount>>,
           \A d \in Conns \ {c} : pc'[d] = pc[d],
           \A d \in Conns \ {c} : written'[d] = written[d], \A d \in Conns \ {c} : got'[d] = got[d],
           pc'[c] \in Fresh => got'[c] = << >> /\ written'[c] = 0,
           pc'[c] \in {"count"} \cup Following => cacheEntry'[c] \in Conns,
           pc'[c] = "hit" /\ c \notin gone' => UpTo(c, written[c])',
           pc'[c] \in {"spin", "send", "rest"} =>
               UpTo(c, written[c])' /\ written'[c] \in 0..dataCount'[cacheEntry'[c]],
           pc'[c] = "skip" => UpTo(c, dataCount[cacheEntry[c]])'
    PROVE  ServedInv'
BY DEF ServedInv, UpTo

\* What a write gives a client goes on where the last one ended.
LEMMA SentInOrder ==
    ASSUME TypeOK, NothingTwice, NEW c \in Conns, cacheEntry[c] \in Conns, WriteUnsent(c),
           UpTo(c, written[c]), written[c] \in 0..dataCount[cacheEntry[c]]
    PROVE  /\ \A j, k \in 1..Len(got'[c]) : j < k => got'[c][j] < got'[c][k]
           /\ ~(Unsent(c) # {} /\ c \in gone) =>
                \A j \in 1..Len(got'[c]) : got'[c][j] <= dataCount[cacheEntry[c]]
<1> DEFINE given == got[c]
           extent == dataCount[cacheEntry[c]]
<1>1. given \in Seq(Int) /\ Len(given) \in Nat /\ written[c] \in Int /\ extent \in Nat
    BY DEF TypeOK
<1>2. /\ \A j \in 1..Len(given) : given[j] \in Int
      /\ \A j, k \in 1..Len(given) : j < k => given[j] < given[k]
      /\ \A j \in 1..Len(given) : given[j] <= written[c]
    BY <1>1 DEF NothingTwice, UpTo
<1>3. Unsent(c) = {} <=> written[c] = extent
    BY UnsentCount
<1>6. written[c] <= extent
    OBVIOUS
<1>4. CASE c \in gone \/ Unsent(c) = {}
  <2>1. got'[c] = given
      BY <1>4, WriteAppends
  <2> QED  BY <1>1, <1>2, <1>3, <1>4, <2>1
<1>5. CASE ~(c \in gone \/ Unsent(c) = {})
  <2>1. Cardinality(Unsent(c)) = extent - written[c]
      BY UnsentCount
  <2>2. /\ Len(got'[c]) = Len(given) + (extent - written[c])
        /\ \A j \in 1..Len(got'[c]) :
             got'[c][j] = IF j <= Len(given) THEN given[j] ELSE written[c] + (j - Len(given))
      BY <1>5, <2>1, WriteAppends
  <2> HIDE DEF given, extent
  <2> DEFINE n == Len(given)
             w == written[c]
             new == got'[c]
  <2>3. n \in Nat /\ w \in Int /\ extent \in Nat /\ w <= extent /\ Len(new) = n + (extent - w)
      BY <1>1, <1>6, <2>2
  <2>4. ASSUME NEW j \in 1..Len(new), j <= n
        PROVE  new[j] = given[j] /\ given[j] \in Int /\ given[j] <= w
      BY <1>2, <2>2, <2>3, <2>4
  <2>5. ASSUME NEW j \in 1..Len(new), j > n PROVE new[j] = w + (j - n)
      BY <2>2, <2>3, <2>5
  <2> HIDE DEF n, w, new
  <2>6. ASSUME NEW j \in 1..Len(new), NEW k \in 1..Len(new), j < k PROVE new[j] < new[k]
    <3>1. CASE k <= n
      <4>1. j \in 1..n /\ k \in 1..n
          BY <2>3, <2>6, <3>1
      <4>2. given[j] < given[k]
          BY <1>2, <2>6, <4>1 DEF n
      <4> QED  BY <2>3, <2>4, <2>6, <3>1, <4>1, <4>2
    <3>2. CASE k > n /\ j <= n
        BY <2>3, <2>4, <2>5, <3>2
    <3>3. CASE j > n
        BY <2>3, <2>5, <2>6, <3>3
    <3> QED  BY <2>3, <3>1, <3>2, <3>3
  <2>7. ASSUME NEW j \in 1..Len(new) PROVE new[j] <= extent
    <3>1. CASE j <= n
        BY <2>3, <2>4, <3>1
    <3>2. CASE j > n
        BY <2>3, <2>5, <3>2
    <3> QED  BY <2>3, <3>1, <3>2
  <2> QED  BY <2>6, <2>7 DEF extent, new
<1> QED  BY <1>4, <1>5

\* What closing a client's connection leaves of what the clients have got.
LEMMA FreedServed ==
    ASSUME TypeOK, NEW c \in Conns, Free(c) \/ UNCHANGED <<clientVars, servedVars>>
    PROVE  /\ \A d \in Conns \ {c} : got'[d] = got[d] /\ written'[d] = written[d] /\ (d \in gone <=> d \in gone')
           /\ got'[c] = << >> \/ got'[c] = got[c]
<1>1. CASE Free(c)
  <2>1. /\ gone' = gone \ {c} /\ written' = [written EXCEPT ![c] = 0]
        /\ got' = [got EXCEPT ![c] = << >>]
      BY <1>1 DEF Free
  <2>2. got \in [Conns -> Seq(Int)] /\ written \in [Conns -> Int]
      BY DEF TypeOK
  <2> QED  BY <2>1, <2>2
<1>2. CASE UNCHANGED <<clientVars, servedVars>>
    BY <1>2 DEF clientVars, servedVars
<1> QED  BY <1>1, <1>2

\* Every step gives a client at most what comes next.
LEMMA ServedStep ==
    TypeOK /\ TableInv /\ ServedInv /\ NothingTwice /\ [Next]_vars /\ TypeOK' => ServedInv' /\ NothingTwice'
<1> SUFFICES ASSUME TypeOK, TableInv, ServedInv, NothingTwice, TypeOK', [Next]_vars PROVE ServedInv' /\ NothingTwice'
    OBVIOUS
<1> USE ProxyAssumption DEF TypeOK, TableInv, Runs, Goto, Mark, entryVars, clientVars, responseVars, servedVars
<1>1. CASE UNCHANGED vars
    BY <1>1 DEF vars, ServedInv, NothingTwice, UpTo
<1>2. ASSUME NEW c \in Conns, Accept(c) PROVE ServedInv' /\ NothingTwice'
  <2>1. SameServed
      BY <1>2, SMTT(30) DEF Accept, SameServed, Fresh, BeforeInsert, Testing, Downloading, Following, ServedInv
  <2> QED  BY <2>1, SameServedServed
<1>3. ASSUME NEW c \in Conns, Disconnect(c) PROVE ServedInv' /\ NothingTwice'
  <2>1. SameServed
      BY <1>3, SMTT(30) DEF Disconnect, SameServed, Fresh, BeforeInsert, Testing, Downloading, Following, ServedInv
  <2> QED  BY <2>1, SameServedServed
<1>4. ASSUME NEW c \in Conns, ClientClosed(c) PROVE ServedInv' /\ NothingTwice'
  <2>1. pc[c] = "getting" /\ (\A d \in Conns \ {c} : pc'[d] = pc[d]) /\ pc'[c] \in {"exit"}
      BY <1>4 DEF ClientClosed, EndUnasked
  <2>2. UNCHANGED <<got, written, gone, dataCount>> /\ \A d \in Conns \ {c} : cacheEntry'[d] = cacheEntry[d]
      BY <1>4 DEF ClientClosed, EndUnasked
  <2>3. SameServed
    <3>1. /\ pc'[c] \notin Following \cup {"hit"} /\ (pc'[c] \in Fresh => pc[c] \in Fresh)
          /\ pc'[c] = "count" => cacheEntry'[c] \in Conns
        BY <2>1 DEF Fresh, BeforeInsert, Testing, Downloading, Following
    <3>2. ASSUME NEW e \in Conns PROVE dataCount[e] <= dataCount'[e]
      <4>1. dataCount[e] \in Nat /\ dataCount'[e] \in {dataCount[e], dataCount[e] + 1}
          BY <2>2
      <4> HIDE DEF TypeOK
      <4> QED  BY <4>1
    <3> QED  BY <2>1, <2>2, <3>1, <3>2, MovedOnly
  <2> QED  BY <2>3, SameServedServed
<1>5. ASSUME NEW c \in Conns, GetRequest(c) PROVE ServedInv' /\ NothingTwice'
  <2>1. pc[c] = "getting" /\ (\A d \in Conns \ {c} : pc'[d] = pc[d]) /\ pc'[c] \in {"insert", "testInvalid"}
      BY <1>5 DEF GetRequest
  <2>2. UNCHANGED <<got, written, gone, dataCount>> /\ \A d \in Conns \ {c} : cacheEntry'[d] = cacheEntry[d]
      BY <1>5 DEF GetRequest
  <2>3. SameServed
    <3>1. /\ pc'[c] \notin Following \cup {"hit"} /\ (pc'[c] \in Fresh => pc[c] \in Fresh)
          /\ pc'[c] = "count" => cacheEntry'[c] \in Conns
        BY <2>1 DEF Fresh, BeforeInsert, Testing, Downloading, Following
    <3>2. ASSUME NEW e \in Conns PROVE dataCount[e] <= dataCount'[e]
      <4>1. dataCount[e] \in Nat /\ dataCount'[e] \in {dataCount[e], dataCount[e] + 1}
          BY <2>2
      <4> HIDE DEF TypeOK
      <4> QED  BY <4>1
    <3> QED  BY <2>1, <2>2, <3>1, <3>2, MovedOnly
  <2> QED  BY <2>3, SameServedServed
<1>6. ASSUME NEW c \in Conns, GetOtherRequest(c) PROVE ServedInv' /\ NothingTwice'
  <2>1. SameServed
      BY <1>6, SMTT(30) DEF GetOtherRequest, SameServed, Fresh, BeforeInsert, Testing, Downloading, Following, ServedInv
  <2> QED  BY <2>1, SameServedServed
<1>7. ASSUME NEW c \in Conns, TestInvalid(c) PROVE ServedInv' /\ NothingTwice'
  <2>1. SameServed
      BY <1>7, SMTT(30) DEF TestInvalid, SameServed, Fresh, BeforeInsert, Testing, Downloading, Following, ServedInv
  <2> QED  BY <2>1, SameServedServed
<1>8. ASSUME NEW c \in Conns, Delete(c) PROVE ServedInv' /\ NothingTwice'
  <2>1. SameServed
      BY <1>8, SMTT(30) DEF Delete, SameServed, Fresh, BeforeInsert, Testing, Downloading, Following, ServedInv
  <2> QED  BY <2>1, SameServedServed
<1>9. ASSUME NEW c \in Conns, TestValid(c) PROVE ServedInv' /\ NothingTwice'
  <2>1. SameServed
      BY <1>9, SMTT(30) DEF TestValid, SameServed, Fresh, BeforeInsert, Testing, Downloading, Following, ServedInv
  <2> QED  BY <2>1, SameServedServed
<1>10. ASSUME NEW c \in Conns, TestDownloading(c) PROVE ServedInv' /\ NothingTwice'
  <2>1. pc[c] = "testDownloading" /\ (\A d \in Conns \ {c} : pc'[d] = pc[d]) /\ pc'[c] \in {"count", "getting"}
      BY <1>10 DEF TestDownloading
  <2>2. UNCHANGED <<got, written, gone, dataCount>> /\ \A d \in Conns \ {c} : cacheEntry'[d] = cacheEntry[d]
      BY <1>10, SMTT(30) DEF TestDownloading
  <2>4. pc'[c] = "count" => cacheEntry'[c] \in Conns
      BY <1>10 DEF TestDownloading
  <2>3. SameServed
    <3>1. /\ pc'[c] \notin Following \cup {"hit"} /\ (pc'[c] \in Fresh => pc[c] \in Fresh)
          /\ pc'[c] = "count" => cacheEntry'[c] \in Conns
        BY <2>1, <2>4 DEF Fresh, BeforeInsert, Testing, Downloading, Following
    <3>2. ASSUME NEW e \in Conns PROVE dataCount[e] <= dataCount'[e]
      <4>1. dataCount[e] \in Nat /\ dataCount'[e] \in {dataCount[e], dataCount[e] + 1}
          BY <2>2, <2>4
      <4> HIDE DEF TypeOK
      <4> QED  BY <4>1
    <3> QED  BY <2>1, <2>2, <3>1, <3>2, MovedOnly
  <2> QED  BY <2>3, SameServedServed
<1>11. ASSUME NEW c \in Conns, CountWaiter(c) PROVE ServedInv' /\ NothingTwice'
  <2>1. SameServed
      BY <1>11, SMTT(30) DEF CountWaiter, SameServed, Fresh, BeforeInsert, Testing, Downloading, Following, ServedInv
  <2> QED  BY <2>1, SameServedServed
<1>12. ASSUME NEW c \in Conns, Insert(c) PROVE ServedInv' /\ NothingTwice'
  <2>1. SameServed
      BY <1>12, SMTT(30) DEF Insert, SameServed, Fresh, BeforeInsert, Testing, Downloading, Following, ServedInv
  <2> QED  BY <2>1, SameServedServed
<1>13. ASSUME NEW c \in Conns, InsertFails(c) PROVE ServedInv' /\ NothingTwice'
  <2>1. SameServed
      BY <1>13, SMTT(30) DEF InsertFails, SameServed, Fresh, BeforeInsert, Testing, Downloading, Following, ServedInv
  <2> QED  BY <2>1, SameServedServed
<1>14. ASSUME NEW c \in Conns, Connect(c) PROVE ServedInv' /\ NothingTwice'
  <2>1. pc[c] = "connect" /\ (\A d \in Conns \ {c} : pc'[d] = pc[d]) /\ pc'[c] \in {"connect", "response", "forwarding"}
      BY <1>14 DEF Connect
  <2>2. UNCHANGED <<got, written, gone, dataCount>> /\ \A d \in Conns \ {c} : cacheEntry'[d] = cacheEntry[d]
      BY <1>14 DEF Connect
  <2>3. SameServed
    <3>1. /\ pc'[c] \notin Following \cup {"hit"} /\ (pc'[c] \in Fresh => pc[c] \in Fresh)
          /\ pc'[c] = "count" => cacheEntry'[c] \in Conns
        BY <2>1 DEF Fresh, BeforeInsert, Testing, Downloading, Following
    <3>2. ASSUME NEW e \in Conns PROVE dataCount[e] <= dataCount'[e]
      <4>1. dataCount[e] \in Nat /\ dataCount'[e] \in {dataCount[e], dataCount[e] + 1}
          BY <2>2
      <4> HIDE DEF TypeOK
      <4> QED  BY <4>1
    <3> QED  BY <2>1, <2>2, <3>1, <3>2, MovedOnly
  <2> QED  BY <2>3, SameServedServed
<1>15. ASSUME NEW c \in Conns, ForwardRequest(c) PROVE ServedInv' /\ NothingTwice'
  <2>1. SameServed
      BY <1>15, SMTT(30) DEF ForwardRequest, SameServed, Fresh, BeforeInsert, Testing, Downloading, Following, ServedInv
  <2> QED  BY <2>1, SameServedServed
<1>16. ASSUME NEW c \in Conns, ForwardNothing(c) PROVE ServedInv' /\ NothingTwice'
  <2>1. SameServed
      BY <1>16, SMTT(30) DEF ForwardNothing, SameServed, Fresh, BeforeInsert, Testing, Downloading, Following, ServedInv
  <2> QED  BY <2>1, SameServedServed
<1>17. ASSUME NEW c \in Conns, EndOfResponse(c) PROVE ServedInv' /\ NothingTwice'
  <2>1. SameServed
      BY <1>17, SMTT(30) DEF EndOfResponse, MarkIfAny, SameServed, Fresh, BeforeInsert, Testing, Downloading, Following, ServedInv
  <2> QED  BY <2>1, SameServedServed
<1>18. ASSUME NEW c \in Conns, ReadResponse(c) PROVE ServedInv' /\ NothingTwice'
  <2>1. pc[c] = "response" /\ (\A d \in Conns \ {c} : pc'[d] = pc[d]) /\ pc'[c] \in {"parse", "giveUp", "copy"}
      BY <1>18 DEF ReadResponse
  <2>2. UNCHANGED <<got, written, gone>> /\ \A d \in Conns \ {c} : cacheEntry'[d] = cacheEntry[d]
      BY <1>18 DEF ReadResponse
  <2>4. \A e \in Conns : dataCount[e] \in Nat /\ dataCount'[e] \in {dataCount[e], dataCount[e] + 1}
      BY <1>18 DEF ReadResponse
  <2>3. SameServed
    <3>1. /\ pc'[c] \notin Following \cup {"hit"} /\ (pc'[c] \in Fresh => pc[c] \in Fresh)
          /\ pc'[c] = "count" => cacheEntry'[c] \in Conns
        BY <2>1, <2>4 DEF Fresh, BeforeInsert, Testing, Downloading, Following
    <3>2. ASSUME NEW e \in Conns PROVE dataCount[e] <= dataCount'[e]
      <4>1. dataCount[e] \in Nat /\ dataCount'[e] \in {dataCount[e], dataCount[e] + 1}
          BY <2>2, <2>4
      <4> HIDE DEF TypeOK
      <4> QED  BY <4>1
    <3> QED  BY <2>1, <2>2, <3>1, <3>2, MovedOnly
  <2> QED  BY <2>3, SameServedServed
<1>19. ASSUME NEW c \in Conns, Copy(c) PROVE ServedInv' /\ NothingTwice'
  <2>1. SameServed
      BY <1>19, SMTT(30) DEF Copy, SameServed, Fresh, BeforeInsert, Testing, Downloading, Following, ServedInv
  <2> QED  BY <2>1, SameServedServed
<1>20. ASSUME NEW c \in Conns, GiveUp(c) PROVE ServedInv' /\ NothingTwice'
  <2>1. SameServed
      BY <1>20, SMTT(30) DEF GiveUp, SameServed, Fresh, BeforeInsert, Testing, Downloading, Following, ServedInv
  <2> QED  BY <2>1, SameServedServed
<1>21. ASSUME NEW c \in Conns, PartialHeaders(c) PROVE ServedInv' /\ NothingTwice'
  <2>1. SameServed
      BY <1>21, SMTT(30) DEF PartialHeaders, SameServed, Fresh, BeforeInsert, Testing, Downloading, Following, ServedInv
  <2> QED  BY <2>1, SameServedServed
<1>22. ASSUME NEW c \in Conns, SizedResponse(c) PROVE ServedInv' /\ NothingTwice'
  <2>1. pc[c] = "parse" /\ (\A d \in Conns \ {c} : pc'[d] = pc[d]) /\ pc'[c] \in {"exit", "response"}
      BY <1>22 DEF SizedResponse, Downloaded, MarkIfAny
  <2>2. UNCHANGED <<got, written, gone, dataCount>> /\ \A d \in Conns \ {c} : cacheEntry'[d] = cacheEntry[d]
      BY <1>22 DEF SizedResponse, Downloaded, MarkIfAny
  <2>3. SameServed
    <3>1. /\ pc'[c] \notin Following \cup {"hit"} /\ (pc'[c] \in Fresh => pc[c] \in Fresh)
          /\ pc'[c] = "count" => cacheEntry'[c] \in Conns
        BY <2>1 DEF Fresh, BeforeInsert, Testing, Downloading, Following
    <3>2. ASSUME NEW e \in Conns PROVE dataCount[e] <= dataCount'[e]
      <4>1. dataCount[e] \in Nat /\ dataCount'[e] \in {dataCount[e], dataCount[e] + 1}
          BY <2>2
      <4> HIDE DEF TypeOK
      <4> QED  BY <4>1
    <3> QED  BY <2>1, <2>2, <3>1, <3>2, MovedOnly
  <2> QED  BY <2>3, SameServedServed
<1>23. ASSUME NEW c \in Conns, NextPiece(c) PROVE ServedInv' /\ NothingTwice'
  <2>1. pc[c] = "parse" /\ (\A d \in Conns \ {c} : pc'[d] = pc[d]) /\ pc'[c] \in {"exit", "response"}
      BY <1>23 DEF NextPiece, Downloaded, MarkIfAny
  <2>2. UNCHANGED <<got, written, gone, dataCount>> /\ \A d \in Conns \ {c} : cacheEntry'[d] = cacheEntry[d]
      BY <1>23 DEF NextPiece, Downloaded, MarkIfAny
  <2>3. SameServed
    <3>1. /\ pc'[c] \notin Following \cup {"hit"} /\ (pc'[c] \in Fresh => pc[c] \in Fresh)
          /\ pc'[c] = "count" => cacheEntry'[c] \in Conns
        BY <2>1 DEF Fresh, BeforeInsert, Testing, Downloading, Following
    <3>2. ASSUME NEW e \in Conns PROVE dataCount[e] <= dataCount'[e]
      <4>1. dataCount[e] \in Nat /\ dataCount'[e] \in {dataCount[e], dataCount[e] + 1}
          BY <2>2
      <4> HIDE DEF TypeOK
      <4> QED  BY <4>1
    <3> QED  BY <2>1, <2>2, <3>1, <3>2, MovedOnly
  <2> QED  BY <2>3, SameServedServed
<1>24. ASSUME NEW c \in Conns, ErrorResponse(c) PROVE ServedInv' /\ NothingTwice'
  <2>1. SameServed
      BY <1>24, SMTT(30) DEF ErrorResponse, SameServed, Fresh, BeforeInsert, Testing, Downloading, Following, ServedInv
  <2> QED  BY <2>1, SameServedServed
<1>25. ASSUME NEW c \in Conns, OpenResponse(c) PROVE ServedInv' /\ NothingTwice'
  <2>1. pc[c] = "parse" /\ (\A d \in Conns \ {c} : pc'[d] = pc[d]) /\ pc'[c] \in {"exit", "response"}
      BY <1>25 DEF OpenResponse
  <2>2. UNCHANGED <<got, written, gone, dataCount>> /\ \A d \in Conns \ {c} : cacheEntry'[d] = cacheEntry[d]
      BY <1>25 DEF OpenResponse
  <2>3. SameServed
    <3>1. /\ pc'[c] \notin Following \cup {"hit"} /\ (pc'[c] \in Fresh => pc[c] \in Fresh)
          /\ pc'[c] = "count" => cacheEntry'[c] \in Conns
        BY <2>1 DEF Fresh, BeforeInsert, Testing, Downloading, Following
    <3>2. ASSUME NEW e \in Conns PROVE dataCount[e] <= dataCount'[e]
      <4>1. dataCount[e] \in Nat /\ dataCount'[e] \in {dataCount[e], dataCount[e] + 1}
          BY <2>2
      <4> HIDE DEF TypeOK
      <4> QED  BY <4>1
    <3> QED  BY <2>1, <2>2, <3>1, <3>2, MovedOnly
  <2> QED  BY <2>3, SameServedServed
<1>26. ASSUME NEW c \in Conns, Hit(c) PROVE ServedInv' /\ NothingTwice'
  <2> DEFINE extent == dataCount[cacheEntry[c]]
             sum == IF c \in gone THEN written[c] - 1
                    ELSE IF written[c] < extent THEN written[c] + 1 ELSE written[c]
             given == got[c]
  <2>1. /\ pc[c] = "hit" /\ written' = [written EXCEPT ![c] = sum]
        /\ got' = IF sum > written[c] THEN [got EXCEPT ![c] = Append(given, sum)] ELSE got
        /\ (\A d \in Conns \ {c} : pc'[d] = pc[d]) /\ pc'[c] \in {"exit", "hit"}
        /\ UNCHANGED <<gone, cacheEntry, dataCount>>
      BY <1>26 DEF Hit
  <2>2. /\ sum \in Int /\ sum <= written[c] + 1
        /\ (c \notin gone => sum >= written[c]) /\ (sum > written[c] => c \notin gone)
    <3>1. written[c] \in Int
        OBVIOUS
    <3> HIDE DEF TypeOK, extent
    <3> QED  BY <3>1
  <2>3. c \notin gone => UpTo(c, written[c])
      BY <2>1 DEF ServedInv
  <2>4. given \in Seq(Int) /\ written[c] \in Int
      OBVIOUS
  <2> HIDE DEF sum, extent, given
  <2>5. /\ \A j, k \in 1..Len(got'[c]) : j < k => got'[c][j] < got'[c][k]
        /\ c \notin gone => \A j \in 1..Len(got'[c]) : got'[c][j] <= sum
    <3>1. \A j, k \in 1..Len(given) : j < k => given[j] < given[k]
        BY DEF NothingTwice, given
    <3>2. \A j \in 1..Len(given) : given[j] \in Int
        BY <2>4
    <3>3. c \notin gone => \A j \in 1..Len(given) : given[j] <= written[c]
        BY <2>3 DEF UpTo, given
    <3>4. CASE sum > written[c]
      <4>1. got'[c] = Append(given, sum)
          BY <2>1, <3>4
      <4>2. /\ Len(got'[c]) = Len(given) + 1 /\ got'[c][Len(given) + 1] = sum
            /\ \A j \in 1..Len(given) : got'[c][j] = given[j]
          BY <2>2, <2>4, <4>1
      <4>3. Len(given) \in Nat
          BY <2>4
      <4>4. \A j \in 1..Len(given) : given[j] < sum
        <5>1. c \notin gone /\ sum \in Int /\ written[c] \in Int
            BY <2>2, <2>4, <3>4
        <5> HIDE DEF TypeOK
        <5> QED  BY <3>2, <3>3, <3>4, <5>1
      <4> HIDE DEF TypeOK
      <4>5. \A j \in 1..Len(got'[c]) : j \in 1..Len(given) \/ j = Len(given) + 1
          BY <4>2, <4>3
      <4>6. ASSUME NEW j \in 1..Len(got'[c]), NEW k \in 1..Len(got'[c]), j < k
            PROVE  got'[c][j] < got'[c][k]
        <5>1. j \in 1..Len(given)
            BY <4>2, <4>3, <4>6
        <5> QED  BY <3>1, <4>2, <4>4, <4>5, <4>6, <5>1
      <4>7. \A j \in 1..Len(got'[c]) : got'[c][j] <= sum
          BY <2>2, <3>2, <4>2, <4>4, <4>5
      <4> QED  BY <4>6, <4>7
    <3>5. CASE ~(sum > written[c])
      <4>1. got'[c] = given
          BY <2>1, <3>5 DEF given
      <4>2. c \notin gone => sum = written[c]
        <5>1. sum \in Int /\ written[c] \in Int
            BY <2>2, <2>4
        <5> HIDE DEF TypeOK
        <5> QED  BY <2>2, <3>5, <5>1
      <4> HIDE DEF TypeOK
      <4> QED  BY <3>1, <3>3, <4>1, <4>2
    <3> QED  BY <3>4, <3>5
  <2>6. /\ \A d \in Conns \ {c} : got'[d] = got[d] /\ written'[d] = written[d]
        /\ written'[c] = sum
      BY <2>1
  <2>7. NothingTwice'
      BY <2>5, <2>6 DEF NothingTwice
  <2>9. pc'[c] = "hit" /\ c \notin gone' => UpTo(c, written[c])'
      BY <2>1, <2>5, <2>6 DEF UpTo
  <2>8. ServedInv'
      BY <2>1, <2>6, <2>9, OthersServed DEF Fresh, BeforeInsert, Testing, Downloading, Following
  <2> QED  BY <2>7, <2>8
<1>27. ASSUME NEW c \in Conns, Spin(c) PROVE ServedInv' /\ NothingTwice'
  <2>1. SameServed
      BY <1>27, SMTT(30) DEF Spin, SameServed, Fresh, BeforeInsert, Testing, Downloading, Following, ServedInv
  <2> QED  BY <2>1, SameServedServed
<1>28. ASSUME NEW c \in Conns, Send(c) PROVE ServedInv' /\ NothingTwice'
  <2>1. /\ pc[c] = "send" /\ cacheEntry[c] \in Conns /\ WriteUnsent(c)
        /\ (\A d \in Conns \ {c} : pc'[d] = pc[d])
        /\ pc'[c] \in {"leave", "skip"}
        /\ pc'[c] = "skip" => ~(Unsent(c) # {} /\ c \in gone)
        /\ UNCHANGED <<written, gone, cacheEntry, dataCount>>
      BY <1>28 DEF Send
  <2>2. UpTo(c, written[c]) /\ written[c] \in 0..dataCount[cacheEntry[c]]
      BY <2>1 DEF ServedInv
  <2>3. \A d \in Conns \ {c} : got'[d] = got[d]
      BY <2>1, WriteAppends
  <2>4. /\ \A j, k \in 1..Len(got'[c]) : j < k => got'[c][j] < got'[c][k]
        /\ pc'[c] = "skip" => \A j \in 1..Len(got'[c]) : got'[c][j] <= dataCount[cacheEntry[c]]
      BY <2>1, <2>2, SentInOrder
  <2>5. NothingTwice'
      BY <2>3, <2>4 DEF NothingTwice
  <2>6. ServedInv'
      BY <2>1, <2>3, <2>4 DEF ServedInv, UpTo, Fresh, BeforeInsert, Testing, Downloading, Following
  <2> QED  BY <2>5, <2>6
<1>29. ASSUME NEW c \in Conns, Skip(c) PROVE ServedInv' /\ NothingTwice'
  <2>1. /\ pc[c] = "skip" /\ pc' = [pc EXCEPT ![c] = "spin"] /\ cacheEntry[c] \in Conns
        /\ written' = [written EXCEPT ![c] = dataCount[cacheEntry[c]]]
        /\ UNCHANGED <<got, gone, cacheEntry, dataCount>>
      BY <1>29 DEF Skip
  <2>2. UpTo(c, dataCount[cacheEntry[c]]) /\ dataCount[cacheEntry[c]] \in Nat
      BY <2>1 DEF ServedInv
  <2>3. NothingTwice'
      BY <2>1 DEF NothingTwice
  <2>5. UpTo(c, written[c])' /\ written'[c] = dataCount[cacheEntry[c]]
      BY <2>1, <2>2 DEF UpTo
  <2>6. dataCount[cacheEntry[c]] \in 0..dataCount[cacheEntry[c]]
      BY <2>2, SMTT(30)
  <2>7. pc'[c] = "spin" /\ \A d \in Conns \ {c} : pc'[d] = pc[d] /\ written'[d] = written[d]
      BY <2>1
  <2>4. ServedInv'
      BY <2>1, <2>5, <2>6, <2>7, OthersServed DEF Fresh, BeforeInsert, Testing, Downloading, Following
  <2> QED  BY <2>3, <2>4
<1>30. ASSUME NEW c \in Conns, SendRest(c) PROVE ServedInv' /\ NothingTwice'
  <2>1. /\ pc[c] = "rest" /\ cacheEntry[c] \in Conns /\ WriteUnsent(c)
        /\ (\A d \in Conns \ {c} : pc'[d] = pc[d])
        /\ pc'[c] \in {"leave", "skip"}
        /\ pc'[c] = "skip" => ~(Unsent(c) # {} /\ c \in gone)
        /\ UNCHANGED <<written, gone, cacheEntry, dataCount>>
      BY <1>30 DEF SendRest
  <2>2. UpTo(c, written[c]) /\ written[c] \in 0..dataCount[cacheEntry[c]]
      BY <2>1 DEF ServedInv
  <2>3. \A d \in Conns \ {c} : got'[d] = got[d]
      BY <2>1, WriteAppends
  <2>4. /\ \A j, k \in 1..Len(got'[c]) : j < k => got'[c][j] < got'[c][k]
        /\ pc'[c] = "skip" => \A j \in 1..Len(got'[c]) : got'[c][j] <= dataCount[cacheEntry[c]]
      BY <2>1, <2>2, SentInOrder
  <2>5. NothingTwice'
      BY <2>3, <2>4 DEF NothingTwice
  <2>6. ServedInv'
      BY <2>1, <2>3, <2>4 DEF ServedInv, UpTo, Fresh, BeforeInsert, Testing, Downloading, Following
  <2> QED  BY <2>5, <2>6
<1>31. ASSUME NEW c \in Conns, Leave(c) PROVE ServedInv' /\ NothingTwice'
  <2>1. SameServed
      BY <1>31, SMTT(30) DEF Leave, SameServed, Fresh, BeforeInsert, Testing, Downloading, Following, ServedInv
  <2> QED  BY <2>1, SameServedServed
<1>32. ASSUME NEW c \in Conns, ThreadExit(c) PROVE ServedInv' /\ NothingTwice'
  <2>1. /\ pc[c] = "exit" /\ (\A d \in Conns \ {c} : pc'[d] = pc[d]) /\ pc'[c] \in {"invalidate", "done"}
        /\ UNCHANGED <<cacheEntry, dataCount>>
      BY <1>32 DEF ThreadExit
  <2>2. Free(c) \/ UNCHANGED <<clientVars, servedVars>>
      BY <1>32 DEF ThreadExit
  <2>3. \A d \in Conns \ {c} : got'[d] = got[d] /\ written'[d] = written[d] /\ (d \in gone <=> d \in gone')
      BY <2>2, FreedServed
  <2>4. got'[c] = << >> \/ got'[c] = got[c]
      BY <2>2, FreedServed
  <2>5. NothingTwice'
    <3>1. \A j, k \in 1..Len(got'[c]) : j < k => got'[c][j] < got'[c][k]
      <4>1. CASE got'[c] = << >>
          BY <4>1
      <4>2. CASE got'[c] = got[c]
          BY <4>2 DEF NothingTwice
      <4> QED  BY <2>4, <4>1, <4>2
    <3> QED  BY <2>3, <3>1 DEF NothingTwice
  <2>6. ServedInv'
      BY <2>1, <2>3 DEF ServedInv, UpTo, Fresh, BeforeInsert, Testing, Downloading, Following
  <2> QED  BY <2>5, <2>6
<1>33. ASSUME NEW c \in Conns, Invalidate(c) PROVE ServedInv' /\ NothingTwice'
  <2>1. /\ pc[c] = "invalidate" /\ (\A d \in Conns \ {c} : pc'[d] = pc[d]) /\ pc'[c] \in {"done"}
        /\ UNCHANGED <<cacheEntry, dataCount>>
      BY <1>33 DEF Invalidate
  <2>2. Free(c) \/ UNCHANGED <<clientVars, servedVars>>
      BY <1>33 DEF Invalidate
  <2>3. \A d \in Conns \ {c} : got'[d] = got[d] /\ written'[d] = written[d] /\ (d \in gone <=> d \in gone')
      BY <2>2, FreedServed
  <2>4. got'[c] = << >> \/ got'[c] = got[c]
      BY <2>2, FreedServed
  <2>5. NothingTwice'
    <3>1. \A j, k \in 1..Len(got'[c]) : j < k => got'[c][j] < got'[c][k]
      <4>1. CASE got'[c] = << >>
          BY <4>1
      <4>2. CASE got'[c] = got[c]
          BY <4>2 DEF NothingTwice
      <4> QED  BY <2>4, <4>1, <4>2
    <3> QED  BY <2>3, <3>1 DEF NothingTwice
  <2>6. ServedInv'
      BY <2>1, <2>3 DEF ServedInv, UpTo, Fresh, BeforeInsert, Testing, Downloading, Following
  <2> QED  BY <2>5, <2>6
<1>34. ASSUME NEW c \in Conns, Break(c) PROVE ServedInv' /\ NothingTwice'
  <2>1. SameServed
      BY <1>34, SMTT(30) DEF Break, SameServed, Fresh, BeforeInsert, Testing, Downloading, Following, ServedInv
  <2> QED  BY <2>1, SameServedServed
<1>35. ASSUME NEW c \in Conns, PollFails(c) PROVE ServedInv' /\ NothingTwice'
  <2>1. SameServed
      BY <1>35, SMTT(30) DEF PollFails, Polling, SameServed, Fresh, BeforeInsert, Testing, Downloading, Following, ServedInv
  <2> QED  BY <2>1, SameServedServed
<1>36. ASSUME NEW c \in Conns, PollFailsEarly(c) PROVE ServedInv' /\ NothingTwice'
  <2>1. pc[c] = "getting" /\ (\A d \in Conns \ {c} : pc'[d] = pc[d]) /\ pc'[c] \in {"exit"}
      BY <1>36 DEF PollFailsEarly, EndUnasked
  <2>2. UNCHANGED <<got, written, gone, dataCount>> /\ \A d \in Conns \ {c} : cacheEntry'[d] = cacheEntry[d]
      BY <1>36 DEF PollFailsEarly, EndUnasked
  <2>3. SameServed
    <3>1. /\ pc'[c] \notin Following \cup {"hit"} /\ (pc'[c] \in Fresh => pc[c] \in Fresh)
          /\ pc'[c] = "count" => cacheEntry'[c] \in Conns
        BY <2>1 DEF Fresh, BeforeInsert, Testing, Downloading, Following
    <3>2. ASSUME NEW e \in Conns PROVE dataCount[e] <= dataCount'[e]
      <4>1. dataCount[e] \in Nat /\ dataCount'[e] \in {dataCount[e], dataCount[e] + 1}
          BY <2>2
      <4> HIDE DEF TypeOK
      <4> QED  BY <4>1
    <3> QED  BY <2>1, <2>2, <3>1, <3>2, MovedOnly
  <2> QED  BY <2>3, SameServedServed
<1>37. ASSUME NEW c \in Conns, StopReading(c) PROVE ServedInv' /\ NothingTwice'
  <2>1. SameServed
      BY <1>37, SMTT(30) DEF StopReading, SameServed, Fresh, BeforeInsert, Testing, Downloading, Following, ServedInv
  <2> QED  BY <2>1, SameServedServed
<1>38. ASSUME NEW c \in Conns, Follow(c) PROVE ServedInv' /\ NothingTwice'
  <2>1. SameServed
      BY <1>38, SMTT(30) DEF Follow, SameServed, Fresh, BeforeInsert, Testing, Downloading, Following, ServedInv
  <2> QED  BY <2>1, SameServedServed
<1> QED
    BY <1>1, <1>2, <1>3, <1>4, <1>5, <1>6, <1>7, <1>8, <1>9, <1>10, <1>11, <1>12,
<1>13, <1>14, <1>15, <1>16, <1>17, <1>18, <1>19, <1>20, <1>21, <1>22, <1>23,
<1>24, <1>25, <1>26, <1>27, <1>28, <1>29, <1>30, <1>31, <1>32, <1>33, <1>34,
<1>35, <1>36, <1>37, <1>38 DEF Next, ThreadStep

\* What SerialInv says of one thread.
OnTable(c) ==
    /\ pc[c] \in Testing \cup {"delete"} => found[c] = cached /\ cached # NONE
    /\ pc[c] \in Downloading \cup Following \cup {"count", "hit", "exit", "invalidate"} =>
         \/ cacheEntry[c] = cached /\ cached # NONE
         \/ cacheEntry[c] = NONE /\ head[c] = "length" /\ pc[c] \in {"response", "parse", "exit"}
Idle(c) == pc[c] \in {"accept", "getting", "done"}

\* One connection that is right with the table, the others idle: the threads are one after the other.
LEMMA SerialOfOne ==
    ASSUME TypeOK, NEW c \in Conns, process' # "broken", OnTable(c)', \A d \in Conns \ {c} : Idle(d)'
    PROVE  SerialInv'
BY DEF SerialInv, OnTable, Idle, Serving, Testing, Downloading, Following

\* Unless a risk was taken, a connection in service is right with the table and the others are idle.
LEMMA AloneOnTable ==
    ASSUME SerialInv, risks = {}, NEW c \in Conns, ~Idle(c)
    PROVE  /\ process # "broken" /\ OnTable(c)
           /\ \A d \in Conns \ {c} : Idle(d)
BY DEF SerialInv, OnTable, Idle, Serving

\* Without a risk every step keeps the threads one after the other.
LEMMA SerialStep ==
    TypeOK /\ TableInv /\ OwnerInv /\ SerialInv /\ [Next]_vars => SerialInv'
<1> SUFFICES ASSUME TypeOK, TableInv, OwnerInv, SerialInv, [Next]_vars PROVE SerialInv'
    OBVIOUS
<1> USE ProxyAssumption DEF TypeOK, Testing, Downloading, Following, Runs, Goto, Mark, entryVars, clientVars, responseVars, servedVars
<1>1. CASE UNCHANGED vars
    BY <1>1 DEF vars, SerialInv, Serving
<1>2. ASSUME NEW c \in Conns, Accept(c) PROVE SerialInv'
    BY <1>2 DEF Accept, SerialInv, Serving
<1>3. ASSUME NEW c \in Conns, Disconnect(c) PROVE SerialInv'
    BY <1>3 DEF Disconnect, SerialInv, Serving
<1>4. ASSUME NEW c \in Conns, ClientClosed(c) PROVE SerialInv'
    BY <1>4 DEF ClientClosed, EndUnasked, SerialInv
<1>5. ASSUME NEW c \in Conns, GetRequest(c) PROVE SerialInv'
  <2> SUFFICES ASSUME risks' = {} PROVE SerialInv'
      BY DEF SerialInv
  <2>1. risks = {} /\ process' = "running" /\ (\A d \in Conns \ {c} : pc'[d] = pc[d])
        /\ \A d \in Conns : ~Serving(d)
      BY <1>5 DEF GetRequest
  <2>2. \A d \in Conns \ {c} : Idle(d)'
      BY <2>1 DEF Idle, Serving
  <2>3. found'[c] = cached /\ pc'[c] = (IF cached = NONE THEN "insert" ELSE "testInvalid") /\ cached' = cached
      BY <1>5 DEF GetRequest
  <2>4. OnTable(c)'
      BY <2>3 DEF OnTable
  <2> QED  BY <2>1, <2>2, <2>4, SerialOfOne
<1>6. ASSUME NEW c \in Conns, GetOtherRequest(c) PROVE SerialInv'
    BY <1>6 DEF GetOtherRequest, SerialInv
<1>7. ASSUME NEW c \in Conns, TestInvalid(c) PROVE SerialInv'
  <2> SUFFICES ASSUME risks' = {} PROVE SerialInv'
      BY DEF SerialInv
  <2>1. risks = {} /\ ~Idle(c) /\ process = "running" /\ \A d \in Conns \ {c} : pc'[d] = pc[d]
      BY <1>7 DEF TestInvalid, Idle
  <2>2. OnTable(c) /\ \A d \in Conns \ {c} : Idle(d)
      BY <2>1, AloneOnTable
  <2>3. process' # "broken" /\ OnTable(c)'
      BY <1>7, <2>2 DEF TestInvalid, OnTable
  <2> QED  BY <2>1, <2>2, <2>3, SerialOfOne DEF Idle
<1>8. ASSUME NEW c \in Conns, Delete(c) PROVE SerialInv'
  <2> SUFFICES ASSUME risks' = {} PROVE SerialInv'
      BY DEF SerialInv
  <2>1. risks = {} /\ ~Idle(c) /\ process = "running" /\ \A d \in Conns \ {c} : pc'[d] = pc[d]
      BY <1>8 DEF Delete, Idle
  <2>2. OnTable(c) /\ \A d \in Conns \ {c} : Idle(d)
      BY <2>1, AloneOnTable
  <2>3. process' # "broken" /\ OnTable(c)'
      BY <1>8, <2>2 DEF Delete, OnTable
  <2> QED  BY <2>1, <2>2, <2>3, SerialOfOne DEF Idle
<1>9. ASSUME NEW c \in Conns, TestValid(c) PROVE SerialInv'
  <2> SUFFICES ASSUME risks' = {} PROVE SerialInv'
      BY DEF SerialInv
  <2>1. risks = {} /\ ~Idle(c) /\ process = "running" /\ \A d \in Conns \ {c} : pc'[d] = pc[d]
      BY <1>9 DEF TestValid, Idle
  <2>2. OnTable(c) /\ \A d \in Conns \ {c} : Idle(d)
      BY <2>1, AloneOnTable
  <2>3. process' # "broken" /\ OnTable(c)'
      BY <1>9, <2>2 DEF TestValid, OnTable
  <2> QED  BY <2>1, <2>2, <2>3, SerialOfOne DEF Idle
<1>10. ASSUME NEW c \in Conns, TestDownloading(c) PROVE SerialInv'
  <2> SUFFICES ASSUME risks' = {} PROVE SerialInv'
      BY DEF SerialInv
  <2>1. risks = {} /\ ~Idle(c) /\ process = "running" /\ \A d \in Conns \ {c} : pc'[d] = pc[d]
      BY <1>10 DEF TestDownloading, Idle
  <2>2. OnTable(c) /\ \A d \in Conns \ {c} : Idle(d)
      BY <2>1, AloneOnTable
  <2>3. process' # "broken" /\ OnTable(c)'
      BY <1>10, <2>2 DEF TestDownloading, OnTable
  <2> QED  BY <2>1, <2>2, <2>3, SerialOfOne DEF Idle
<1>11. ASSUME NEW c \in Conns, CountWaiter(c) PROVE SerialInv'
  <2> SUFFICES ASSUME risks' = {} PROVE SerialInv'
      BY DEF SerialInv
  <2>1. risks = {} /\ ~Idle(c) /\ process = "running" /\ \A d \in Conns \ {c} : pc'[d] = pc[d]
      BY <1>11 DEF CountWaiter, Idle
  <2>2. OnTable(c) /\ \A d \in Conns \ {c} : Idle(d)
      BY <2>1, AloneOnTable
  <2>3. process' # "broken" /\ OnTable(c)'
      BY <1>11, <2>2 DEF CountWaiter, OnTable
  <2> QED  BY <2>1, <2>2, <2>3, SerialOfOne DEF Idle
<1>12. ASSUME NEW c \in Conns, Insert(c) PROVE SerialInv'
  <2> SUFFICES ASSUME risks' = {} PROVE SerialInv'
      BY DEF SerialInv
  <2>1. risks = {} /\ ~Idle(c) /\ process = "running" /\ \A d \in Conns \ {c} : pc'[d] = pc[d]
      BY <1>12 DEF Insert, Idle
  <2>2. OnTable(c) /\ \A d \in Conns \ {c} : Idle(d)
      BY <2>1, AloneOnTable
  <2>3. process' # "broken" /\ OnTable(c)'
      BY <1>12, <2>2 DEF Insert, OnTable
  <2> QED  BY <2>1, <2>2, <2>3, SerialOfOne DEF Idle
<1>13. ASSUME NEW c \in Conns, InsertFails(c) PROVE SerialInv'
    BY <1>13 DEF InsertFails, SerialInv
<1>14. ASSUME NEW c \in Conns, Connect(c) PROVE SerialInv'
  <2> SUFFICES ASSUME risks' = {} PROVE SerialInv'
      BY DEF SerialInv
  <2>1. risks = {} /\ ~Idle(c) /\ process = "running" /\ \A d \in Conns \ {c} : pc'[d] = pc[d]
      BY <1>14 DEF Connect, Idle
  <2>2. OnTable(c) /\ \A d \in Conns \ {c} : Idle(d)
      BY <2>1, AloneOnTable
  <2>3. process' # "broken" /\ OnTable(c)'
      BY <1>14, <2>2 DEF Connect, OnTable
  <2> QED  BY <2>1, <2>2, <2>3, SerialOfOne DEF Idle
<1>15. ASSUME NEW c \in Conns, ForwardRequest(c) PROVE SerialInv'
  <2> SUFFICES ASSUME risks' = {} PROVE SerialInv'
      BY DEF SerialInv
  <2>1. risks = {} /\ ~Idle(c) /\ process = "running" /\ \A d \in Conns \ {c} : pc'[d] = pc[d]
      BY <1>15 DEF ForwardRequest, Idle
  <2>2. OnTable(c) /\ \A d \in Conns \ {c} : Idle(d)
      BY <2>1, AloneOnTable
  <2>3. process' # "broken" /\ OnTable(c)'
      BY <1>15, <2>2 DEF ForwardRequest, OnTable
  <2> QED  BY <2>1, <2>2, <2>3, SerialOfOne DEF Idle
<1>16. ASSUME NEW c \in Conns, ForwardNothing(c) PROVE SerialInv'
  <2> SUFFICES ASSUME risks' = {} PROVE SerialInv'
      BY DEF SerialInv
  <2>1. risks = {} /\ ~Idle(c) /\ process = "running" /\ \A d \in Conns \ {c} : pc'[d] = pc[d]
      BY <1>16 DEF ForwardNothing, Idle
  <2>2. OnTable(c) /\ \A d \in Conns \ {c} : Idle(d)
      BY <2>1, AloneOnTable
  <2>3. process' # "broken" /\ OnTable(c)'
      BY <1>16, <2>2 DEF ForwardNothing, OnTable
  <2> QED  BY <2>1, <2>2, <2>3, SerialOfOne DEF Idle
<1>17. ASSUME NEW c \in Conns, EndOfResponse(c) PROVE SerialInv'
  <2> SUFFICES ASSUME risks' = {} PROVE SerialInv'
      BY DEF SerialInv
  <2>1. risks = {} /\ ~Idle(c) /\ process = "running" /\ \A d \in Conns \ {c} : pc'[d] = pc[d]
      BY <1>17 DEF EndOfResponse, MarkIfAny, Idle
  <2>2. OnTable(c) /\ \A d \in Conns \ {c} : Idle(d)
      BY <2>1, AloneOnTable
  <2>3. process' # "broken" /\ OnTable(c)'
      BY <1>17, <2>2 DEF EndOfResponse, MarkIfAny, OnTable
  <2> QED  BY <2>1, <2>2, <2>3, SerialOfOne DEF Idle
<1>18. ASSUME NEW c \in Conns, ReadResponse(c) PROVE SerialInv'
  <2> SUFFICES ASSUME risks' = {} PROVE SerialInv'
      BY DEF SerialInv
  <2>1. risks = {} /\ ~Idle(c) /\ process = "running" /\ \A d \in Conns \ {c} : pc'[d] = pc[d]
      BY <1>18 DEF ReadResponse, Idle
  <2>2. OnTable(c) /\ \A d \in Conns \ {c} : Idle(d)
      BY <2>1, AloneOnTable
  <2>3. process' # "broken" /\ OnTable(c)'
      BY <1>18, <2>2 DEF ReadResponse, OnTable
  <2> QED  BY <2>1, <2>2, <2>3, SerialOfOne DEF Idle
<1>19. ASSUME NEW c \in Conns, Copy(c) PROVE SerialInv'
  <2> SUFFICES ASSUME risks' = {} PROVE SerialInv'
      BY DEF SerialInv
  <2>1. risks = {} /\ ~Idle(c) /\ process = "running" /\ \A d \in Conns \ {c} : pc'[d] = pc[d]
      BY <1>19 DEF Copy, Idle
  <2>2. OnTable(c) /\ \A d \in Conns \ {c} : Idle(d)
      BY <2>1, AloneOnTable
  <2>3. process' # "broken" /\ OnTable(c)'
      BY <1>19, <2>2 DEF Copy, OnTable
  <2> QED  BY <2>1, <2>2, <2>3, SerialOfOne DEF Idle
<1>20. ASSUME NEW c \in Conns, GiveUp(c) PROVE SerialInv'
  <2> SUFFICES ASSUME risks' = {} PROVE SerialInv'
      BY DEF SerialInv
  <2>1. risks = {} /\ ~Idle(c) /\ process = "running" /\ \A d \in Conns \ {c} : pc'[d] = pc[d]
      BY <1>20 DEF GiveUp, Idle
  <2>2. OnTable(c) /\ \A d \in Conns \ {c} : Idle(d)
      BY <2>1, AloneOnTable
  <2>3. process' # "broken" /\ OnTable(c)'
      BY <1>20, <2>2 DEF GiveUp, OnTable
  <2> QED  BY <2>1, <2>2, <2>3, SerialOfOne DEF Idle
<1>21. ASSUME NEW c \in Conns, PartialHeaders(c) PROVE SerialInv'
  <2> SUFFICES ASSUME risks' = {} PROVE SerialInv'
      BY DEF SerialInv
  <2>1. risks = {} /\ ~Idle(c) /\ process = "running" /\ \A d \in Conns \ {c} : pc'[d] = pc[d]
      BY <1>21 DEF PartialHeaders, Idle
  <2>2. OnTable(c) /\ \A d \in Conns \ {c} : Idle(d)
      BY <2>1, AloneOnTable
  <2>3. process' # "broken" /\ OnTable(c)'
      BY <1>21, <2>2 DEF PartialHeaders, OnTable
  <2> QED  BY <2>1, <2>2, <2>3, SerialOfOne DEF Idle
<1>22. ASSUME NEW c \in Conns, SizedResponse(c) PROVE SerialInv'
  <2> SUFFICES ASSUME risks' = {} PROVE SerialInv'
      BY DEF SerialInv
  <2>1. risks = {} /\ ~Idle(c) /\ process = "running" /\ \A d \in Conns \ {c} : pc'[d] = pc[d]
      BY <1>22, SMTT(30) DEF SizedResponse, Downloaded, MarkIfAny, Idle
  <2>2. OnTable(c) /\ \A d \in Conns \ {c} : Idle(d)
      BY <2>1, AloneOnTable
  <2>3. process' # "broken" /\ OnTable(c)'
      BY <1>22, <2>2 DEF SizedResponse, Downloaded, MarkIfAny, OnTable
  <2> QED  BY <2>1, <2>2, <2>3, SerialOfOne DEF Idle
<1>23. ASSUME NEW c \in Conns, NextPiece(c) PROVE SerialInv'
  <2> SUFFICES ASSUME risks' = {} PROVE SerialInv'
      BY DEF SerialInv
  <2>1. risks = {} /\ ~Idle(c) /\ process = "running" /\ \A d \in Conns \ {c} : pc'[d] = pc[d]
      BY <1>23 DEF NextPiece, Downloaded, MarkIfAny, Idle
  <2>2. OnTable(c) /\ \A d \in Conns \ {c} : Idle(d)
      BY <2>1, AloneOnTable
  <2>3. process' # "broken" /\ OnTable(c)'
      BY <1>23, <2>2 DEF NextPiece, Downloaded, MarkIfAny, OnTable
  <2> QED  BY <2>1, <2>2, <2>3, SerialOfOne DEF Idle
<1>24. ASSUME NEW c \in Conns, ErrorResponse(c) PROVE SerialInv'
  <2> SUFFICES ASSUME risks' = {} PROVE SerialInv'
      BY DEF SerialInv
  <2>1. risks = {} /\ ~Idle(c) /\ process = "running" /\ \A d \in Conns \ {c} : pc'[d] = pc[d]
      BY <1>24 DEF ErrorResponse, Idle
  <2>2. OnTable(c) /\ \A d \in Conns \ {c} : Idle(d)
      BY <2>1, AloneOnTable
  <2>3. process' # "broken" /\ OnTable(c)'
      BY <1>24, <2>2 DEF ErrorResponse, OnTable
  <2> QED  BY <2>1, <2>2, <2>3, SerialOfOne DEF Idle
<1>25. ASSUME NEW c \in Conns, OpenResponse(c) PROVE SerialInv'
  <2> SUFFICES ASSUME risks' = {} PROVE SerialInv'
      BY DEF SerialInv
  <2>1. risks = {} /\ ~Idle(c) /\ process = "running" /\ \A d \in Conns \ {c} : pc'[d] = pc[d]
      BY <1>25 DEF OpenResponse, Idle
  <2>2. OnTable(c) /\ \A d \in Conns \ {c} : Idle(d)
      BY <2>1, AloneOnTable
  <2>3. process' # "broken" /\ OnTable(c)'
      BY <1>25, <2>2 DEF OpenResponse, OnTable
  <2> QED  BY <2>1, <2>2, <2>3, SerialOfOne DEF Idle
<1>26. ASSUME NEW c \in Conns, Hit(c) PROVE SerialInv'
  <2> SUFFICES ASSUME risks' = {} PROVE SerialInv'
      BY DEF SerialInv
  <2>1. risks = {} /\ ~Idle(c) /\ process = "running" /\ \A d \in Conns \ {c} : pc'[d] = pc[d]
      BY <1>26 DEF Hit, Idle
  <2>2. OnTable(c) /\ \A d \in Conns \ {c} : Idle(d)
      BY <2>1, AloneOnTable
  <2>3. process' # "broken"
      BY <1>26 DEF Hit
  <2>4. pc[c] = "hit" /\ pc'[c] \in {"exit", "hit"} /\ UNCHANGED <<cached, found, cacheEntry, head>>
      BY <1>26 DEF Hit
  <2>5. OnTable(c)'
      BY <2>2, <2>4 DEF OnTable
  <2> QED  BY <2>1, <2>2, <2>3, <2>5, SerialOfOne DEF Idle
<1>27. ASSUME NEW c \in Conns, Spin(c) PROVE SerialInv'
  <2> SUFFICES ASSUME risks' = {} PROVE SerialInv'
      BY DEF SerialInv
  <2>1. risks = {} /\ ~Idle(c) /\ process = "running" /\ \A d \in Conns \ {c} : pc'[d] = pc[d]
      BY <1>27 DEF Spin, Idle
  <2>2. OnTable(c) /\ \A d \in Conns \ {c} : Idle(d)
      BY <2>1, AloneOnTable
  <2>3. process' # "broken" /\ OnTable(c)'
      BY <1>27, <2>2 DEF Spin, OnTable
  <2> QED  BY <2>1, <2>2, <2>3, SerialOfOne DEF Idle
<1>28. ASSUME NEW c \in Conns, Send(c) PROVE SerialInv'
  <2> SUFFICES ASSUME risks' = {} PROVE SerialInv'
      BY DEF SerialInv
  <2>1. risks = {} /\ ~Idle(c) /\ process = "running" /\ \A d \in Conns \ {c} : pc'[d] = pc[d]
      BY <1>28 DEF Send, Idle
  <2>2. OnTable(c) /\ \A d \in Conns \ {c} : Idle(d)
      BY <2>1, AloneOnTable
  <2>3. process' # "broken" /\ OnTable(c)'
      BY <1>28, <2>2 DEF Send, OnTable
  <2> QED  BY <2>1, <2>2, <2>3, SerialOfOne DEF Idle
<1>29. ASSUME NEW c \in Conns, Skip(c) PROVE SerialInv'
  <2> SUFFICES ASSUME risks' = {} PROVE SerialInv'
      BY DEF SerialInv
  <2>1. risks = {} /\ ~Idle(c) /\ process = "running" /\ \A d \in Conns \ {c} : pc'[d] = pc[d]
      BY <1>29 DEF Skip, Idle
  <2>2. OnTable(c) /\ \A d \in Conns \ {c} : Idle(d)
      BY <2>1, AloneOnTable
  <2>3. process' # "broken" /\ OnTable(c)'
      BY <1>29, <2>2 DEF Skip, OnTable
  <2> QED  BY <2>1, <2>2, <2>3, SerialOfOne DEF Idle
<1>30. ASSUME NEW c \in Conns, SendRest(c) PROVE SerialInv'
  <2> SUFFICES ASSUME risks' = {} PROVE SerialInv'
      BY DEF SerialInv
  <2>1. risks = {} /\ ~Idle(c) /\ process = "running" /\ \A d \in Conns \ {c} : pc'[d] = pc[d]
      BY <1>30 DEF SendRest, Idle
  <2>2. OnTable(c) /\ \A d \in Conns \ {c} : Idle(d)
      BY <2>1, AloneOnTable
  <2>3. process' # "broken" /\ OnTable(c)'
      BY <1>30, <2>2 DEF SendRest, OnTable
  <2> QED  BY <2>1, <2>2, <2>3, SerialOfOne DEF Idle
<1>31. ASSUME NEW c \in Conns, Leave(c) PROVE SerialInv'
  <2> SUFFICES ASSUME risks' = {} PROVE SerialInv'
      BY DEF SerialInv
  <2>1. risks = {} /\ ~Idle(c) /\ process = "running" /\ \A d \in Conns \ {c} : pc'[d] = pc[d]
      BY <1>31 DEF Leave, Idle
  <2>2. OnTable(c) /\ \A d \in Conns \ {c} : Idle(d)
      BY <2>1, AloneOnTable
  <2>3. process' # "broken" /\ OnTable(c)'
      BY <1>31, <2>2 DEF Leave, OnTable
  <2> QED  BY <2>1, <2>2, <2>3, SerialOfOne DEF Idle
<1>32. ASSUME NEW c \in Conns, ThreadExit(c) PROVE SerialInv'
  <2> SUFFICES ASSUME risks' = {} PROVE SerialInv'
      BY DEF SerialInv
  <2>1. risks = {} /\ ~Idle(c) /\ process = "running" /\ \A d \in Conns \ {c} : pc'[d] = pc[d]
      BY <1>32, SMTT(30) DEF ThreadExit, Free, Idle
  <2>2. OnTable(c) /\ \A d \in Conns \ {c} : Idle(d)
      BY <2>1, AloneOnTable
  <2>3. process' # "broken" /\ pc[c] = "exit" /\ UNCHANGED <<cached, cacheEntry>>
      BY <1>32 DEF ThreadExit
  <2>6. pc'[c] \in {"done", "invalidate"}
      BY <1>32 DEF ThreadExit
  <2>7. cacheEntry[c] = NONE => pc'[c] = "done"
      BY <1>32 DEF ThreadExit
  <2>4. pc'[c] = "done" \/ (pc'[c] = "invalidate" /\ cacheEntry[c] # NONE)
      BY <2>6, <2>7
  <2>5. OnTable(c)'
      BY <2>2, <2>3, <2>4 DEF OnTable
  <2> QED  BY <2>1, <2>2, <2>3, <2>5, SerialOfOne DEF Idle
<1>33. ASSUME NEW c \in Conns, Invalidate(c) PROVE SerialInv'
  <2> SUFFICES ASSUME risks' = {} PROVE SerialInv'
      BY DEF SerialInv
  <2>1. risks = {} /\ ~Idle(c) /\ process = "running" /\ \A d \in Conns \ {c} : pc'[d] = pc[d]
      BY <1>33 DEF Invalidate, Free, Idle
  <2>2. OnTable(c) /\ \A d \in Conns \ {c} : Idle(d)
      BY <2>1, AloneOnTable
  <2>3. process' # "broken" /\ OnTable(c)'
      BY <1>33, <2>2 DEF Invalidate, Free, OnTable
  <2> QED  BY <2>1, <2>2, <2>3, SerialOfOne DEF Idle
<1>34. ASSUME NEW c \in Conns, Break(c) PROVE SerialInv'
  <2> SUFFICES ASSUME risks' = {} PROVE SerialInv'
      BY DEF SerialInv
  <2>1. risks = {} /\ ~Idle(c)
      BY <1>34 DEF Break, Idle
  <2>2. OnTable(c) /\ \A d \in Conns \ {c} : Idle(d)
      BY <2>1, AloneOnTable
  <2>3. cached # NONE => cached \in allocated
      BY DEF TableInv
  <2>4. CASE pc[c] \in Testing /\ found[c] \notin allocated
      BY <2>2, <2>3, <2>4 DEF OnTable
  <2>5. CASE pc[c] \in {"count", "hit", "copy", "giveUp", "invalidate"} \cup Following /\ cacheEntry[c] \notin allocated
      BY <2>2, <2>3, <2>5 DEF OnTable
  <2>6. CASE pc[c] \in {"connect", "response", "parse", "exit"} /\ cacheEntry[c] \notin allocated \cup {NONE}
      BY <2>2, <2>3, <2>6 DEF OnTable
  <2>7. CASE pc[c] = "parse" /\ head[c] # "length" /\ cacheEntry[c] = NONE
      BY <2>2, <2>7 DEF OnTable
  <2>8. CASE pc[c] \in {"send", "rest"} /\ cacheEntry[c] \in allocated /\ ~Sendable(c)
    <3>1. pc[cacheEntry[c]] # "copy"
        BY <2>2, <2>8 DEF Idle
    <3>2. ready[cacheEntry[c]] = dataCount[cacheEntry[c]]
        BY <2>8, <3>1 DEF OwnerInv
    <3> QED  BY <2>8, <3>2 DEF Sendable
  <2> QED  BY <1>34, <2>4, <2>5, <2>6, <2>7, <2>8 DEF Break
<1>35. ASSUME NEW c \in Conns, PollFails(c) PROVE SerialInv'
  <2> SUFFICES ASSUME risks' = {} PROVE SerialInv'
      BY DEF SerialInv
  <2>1. risks = {} /\ ~Idle(c) /\ process = "running" /\ \A d \in Conns \ {c} : pc'[d] = pc[d]
      BY <1>35 DEF PollFails, Polling, Idle
  <2>2. OnTable(c) /\ \A d \in Conns \ {c} : Idle(d)
      BY <2>1, AloneOnTable
  <2>3. process' # "broken" /\ OnTable(c)'
      BY <1>35, <2>2 DEF PollFails, Polling, OnTable
  <2> QED  BY <2>1, <2>2, <2>3, SerialOfOne DEF Idle
<1>36. ASSUME NEW c \in Conns, PollFailsEarly(c) PROVE SerialInv'
    BY <1>36 DEF PollFailsEarly, EndUnasked, SerialInv
<1>37. ASSUME NEW c \in Conns, StopReading(c) PROVE SerialInv'
    BY <1>37 DEF StopReading, SerialInv, Serving
<1>38. ASSUME NEW c \in Conns, Follow(c) PROVE SerialInv'
  <2> SUFFICES ASSUME risks' = {} PROVE SerialInv'
      BY DEF SerialInv
  <2>1. risks = {} /\ ~Idle(c) /\ process = "running" /\ \A d \in Conns \ {c} : pc'[d] = pc[d]
      BY <1>38 DEF Follow, Idle
  <2>2. OnTable(c) /\ \A d \in Conns \ {c} : Idle(d)
      BY <2>1, AloneOnTable
  <2>3. process' # "broken" /\ OnTable(c)'
      BY <1>38, <2>2 DEF Follow, OnTable
  <2> QED  BY <2>1, <2>2, <2>3, SerialOfOne DEF Idle
<1> QED
    BY <1>1, <1>2, <1>3, <1>4, <1>5, <1>6, <1>7, <1>8, <1>9, <1>10, <1>11, <1>12,
<1>13, <1>14, <1>15, <1>16, <1>17, <1>18, <1>19, <1>20, <1>21, <1>22, <1>23,
<1>24, <1>25, <1>26, <1>27, <1>28, <1>29, <1>30, <1>31, <1>32, <1>33, <1>34,
<1>35, <1>36, <1>37, <1>38 DEF Next, ThreadStep

\* The proxy starts without entries and without connections.
LEMMA InitProxy == Init => ProxyInv
<1> SUFFICES ASSUME Init PROVE ProxyInv
    OBVIOUS
<1> USE ProxyAssumption DEF Init
<1>1. << >> \in Seq(Int) /\ Len(<< >>) = 0
    OBVIOUS
<1>2. TypeOK
    BY <1>1 DEF TypeOK, Places
<1>3. \A c \in Conns : /\ pc[c] = "accept" /\ cacheEntry[c] = NONE /\ found[c] = NONE /\ got[c] = << >>
                       /\ waitersCount[c] = 0 /\ entryStatus[c] = "ES_DOWNLOADING" /\ written[c] = 0
                       /\ ready[c] = 0 /\ dataCount[c] = 0
    OBVIOUS
<1>4. TableInv /\ StrayInv /\ CountInv /\ allocated = {} /\ process = "running"
    BY DEF TableInv, StrayInv, CountInv
<1> HIDE DEF Init
<1>5. UnbornInv
    BY <1>3, <1>4 DEF UnbornInv
<1>6. OwnerInv
    BY <1>3 DEF OwnerInv, Downloading
<1>7. NothingTwice /\ ServedInv
    BY <1>1, <1>3 DEF NothingTwice, ServedInv, Following
<1>8. SerialInv
    BY <1>3, <1>4 DEF SerialInv, Serving, Testing, Downloading, Following
<1> QED  BY <1>2, <1>4, <1>5, <1>6, <1>7, <1>8 DEF ProxyInv

\* The threads of the proxy keep their places, and the entries their fields.
THEOREM ProxyInvariant == Spec => []ProxyInv
<1>1. ProxyInv /\ [Next]_vars => ProxyInv'
    BY TypeStep, TableStep, UnbornStep, StrayStep, CountStep, OwnerStep, ServedStep, SerialStep DEF ProxyInv
<1> QED  BY <1>1, InitProxy, PTL DEF Spec

\* The count of an entry's waiters is the number of threads that follow it, on
\* every way into the loop of respondingFromProgessCache and out of it, with those
\* whose poll failed before it: handleConnection does not take these back.
THEOREM WaitersAreCounted == Spec => []WaitersCounted
<1>1. ProxyInv => WaitersCounted
    BY DEF ProxyInv, CountInv, Followers, WaitersCounted
<1> QED  BY <1>1, ProxyInvariant, PTL

\* Undefined behaviour takes two requests at once, a client that leaves before
\* it asked, another method, no memory, a hit's close of another's socket, an answer
\* that begins with a piece of one byte, or a request that ends in one of less than three.
THEOREM SerialSafe == Spec => []SerialIsSafe
<1>1. ProxyInv => SerialIsSafe
    BY DEF ProxyInv, SerialInv, SerialIsSafe
<1> QED  BY <1>1, ProxyInvariant, PTL

\* Only its downloader makes an entry's data grow, and nobody once it is valid.
LEMMA ValidIsFrozen == TypeOK /\ TableInv /\ OwnerInv /\ [Next]_vars => FrozenWhenValid
<1> SUFFICES ASSUME TypeOK, TableInv, OwnerInv, [Next]_vars, NEW e \in allocated,
                    entryStatus[e] = "ES_VALID"
             PROVE  dataCount'[e] = dataCount[e]
    BY DEF FrozenWhenValid
<1>1. \A c \in Conns : pc[c] = "response" => c # e
    BY DEF OwnerInv, TypeOK
<1>2. ASSUME NEW c \in Conns, ReadResponse(c) PROVE dataCount'[e] = dataCount[e]
  <2>1. \/ UNCHANGED dataCount
        \/ cacheEntry[c] # NONE /\ dataCount' = [dataCount EXCEPT ![cacheEntry[c]] = @ + 1]
      BY <1>2 DEF ReadResponse
  <2>2. cacheEntry[c] \in {c, NONE} /\ c # e
      BY <1>1, <1>2 DEF ReadResponse, Runs, OwnerInv, Downloading
  <2> QED  BY <2>1, <2>2 DEF TypeOK
<1>3. ASSUME UNCHANGED dataCount PROVE dataCount'[e] = dataCount[e]
    BY <1>3
<1>4. ASSUME NEW c \in Conns, ThreadStep(c), ~ReadResponse(c) PROVE UNCHANGED dataCount
    BY <1>4 DEF ThreadStep, entryVars, ClientClosed, EndUnasked, TestInvalid, Delete, TestValid,
       TestDownloading, CountWaiter, Insert, InsertFails, Connect, ForwardRequest, EndOfResponse,
       Copy, GiveUp, PartialHeaders, SizedResponse, NextPiece, Downloaded, ErrorResponse,
       OpenResponse, Hit, Follow, Spin, Send, Skip, SendRest, Leave, ThreadExit, Invalidate, Break
<1>5. ASSUME NEW c \in Conns,
             \/ Accept(c) \/ Disconnect(c) \/ StopReading(c) \/ PollFails(c) \/ PollFailsEarly(c)
             \/ GetRequest(c) \/ GetOtherRequest(c) \/ ForwardNothing(c)
      PROVE  UNCHANGED dataCount
    BY <1>5 DEF Accept, Disconnect, StopReading, PollFails, PollFailsEarly, EndUnasked, GetRequest,
       GetOtherRequest, ForwardNothing, entryVars
<1>6. CASE UNCHANGED vars
    BY <1>6, <1>3 DEF vars, entryVars
<1> QED  BY <1>2, <1>3, <1>4, <1>5, <1>6 DEF Next

\* Those who read an entry are given each piece once and in order, and what they
\* read does not grow once it is valid.
THEOREM DataStays == Spec => DataIsStable
<1>1. ProxyInv /\ ProxyInv' /\ [Next]_vars => [NothingTwice' /\ FrozenWhenValid]_vars
    BY ValidIsFrozen DEF ProxyInv
<1> QED  BY <1>1, ProxyInvariant, PTL DEF Spec, DataIsStable
-----------------------------------------------------------------------------
(* The text of requests and answers. *)

\* Every nonempty set of numbers has a least one.
LEMMA LeastNatural ==
    ASSUME NEW T, T \subseteq Nat, T # {}
    PROVE  \E n \in T : \A m \in T : n <= m
<1> DEFINE Below == {0..n : n \in T}
<1>1. Below \subseteq FiniteSubsetsOf(Nat)
  <2> SUFFICES ASSUME NEW n \in T PROVE 0..n \in FiniteSubsetsOf(Nat)
      OBVIOUS
  <2> QED  BY FS_Interval DEF FiniteSubsetsOf
<1>2. Below # {}
    OBVIOUS
<1>3. IsWellFoundedOn(StrictSubsetOrdering(Nat), FiniteSubsetsOf(Nat))
    BY FS_StrictSubsetOrderingWellFounded
<1>4. \E U \in Below : \A V \in Below : <<V, U>> \notin StrictSubsetOrdering(Nat)
  <2> HIDE DEF Below
  <2> QED  BY <1>1, <1>2, <1>3, WFMin
<1>5. PICK n \in T : \A V \in Below : <<V, 0..n>> \notin StrictSubsetOrdering(Nat)
    BY <1>4
<1>6. ASSUME NEW m \in T, m < n PROVE FALSE
  <2>1. /\ 0..m \in SUBSET Nat /\ 0..n \in SUBSET Nat
        /\ 0..m \subseteq 0..n /\ n \in 0..n /\ n \notin 0..m
      BY <1>6
  <2>2. <<0..m, 0..n>> \in StrictSubsetOrdering(Nat)
      BY <2>1 DEF StrictSubsetOrdering
  <2> QED  BY <1>5, <2>2
<1> QED  BY <1>5, <1>6

\* The least number that CHOOSE takes is one.
LEMMA LeastChosen ==
    ASSUME NEW T, T \subseteq Nat, T # {}
    PROVE  LET least == CHOOSE i \in T : \A j \in T : i <= j
           IN  least \in T /\ \A j \in T : least <= j
BY LeastNatural, Zenon

\* The characters of requests.
TextChars ==
    (UNION {Range(s) : s \in Methods \cup Hosts \cup Paths})
      \cup {"h", "t", "p", ":", "/", "SP", "v", "1", "LF"}

\* The parts of a request are texts, and only the blanks around the URL are blanks.
LEMMA TextsAreSeqs ==
    /\ \A s \in Methods \cup Hosts \cup Paths : s \in Seq(TextChars) /\ \A i \in 1..Len(s) : s[i] # "SP"
    /\ Http \in Seq(TextChars) /\ Len(Http) = 7 /\ \A i \in 1..7 : Http[i] # "SP"
    /\ <<"SP">> \in Seq(TextChars)
    /\ <<"SP", "v", "/", "1", "LF">> \in Seq(TextChars)
<1>1. ASSUME NEW s \in Methods \cup Hosts \cup Paths
      PROVE  s \in Seq(TextChars) /\ \A i \in 1..Len(s) : s[i] # "SP"
  <2>1. s \in Seq(Range(s)) /\ "SP" \notin Range(s)
      BY TextAssumption
  <2>2. Range(s) \subseteq TextChars
      BY DEF TextChars
  <2>3. \A i \in 1..Len(s) : s[i] \in Range(s)
      BY <2>1, ElementOfSeq
  <2>4. Len(s) \in Nat /\ s \in [1..Len(s) -> Range(s)]
      BY <2>1
  <2>5. s \in [1..Len(s) -> TextChars]
      BY <2>2, <2>4
  <2> QED  BY <2>1, <2>3, <2>4, <2>5
<1>2. {"h", "t", "p", ":", "/", "SP", "v", "1", "LF"} \subseteq TextChars
    BY DEF TextChars
<1>3. Http \in Seq(TextChars) /\ Len(Http) = 7 /\ \A i \in 1..7 : Http[i] # "SP"
  <2> HIDE DEF TextChars
  <2> QED  BY <1>2 DEF Http
<1>4. <<"SP">> \in Seq(TextChars) /\ <<"SP", "v", "/", "1", "LF">> \in Seq(TextChars)
    BY <1>2
<1> QED  BY <1>1, <1>3, <1>4

\* The first place of a character from i on, and a piece of n characters of a text.
IsPlace(q, ch, text, i) ==
    /\ q \in Nat /\ q <= Len(text) + 1
    /\ q <= Len(text) => q >= i /\ text[q] = ch
    /\ \A j \in i..Len(text) : text[j] = ch => q <= j

IsPiece(v, s, i, n) ==
    Len(v) = n /\ \A k \in 1..n : v[k] = s[i + k - 1]

\* Up to the second of them, the blanks of a text are the one behind a characters and
\* the one n characters further on.
BlanksAround(data, a, n) ==
    \A j \in 1..Len(data) : j <= a + n + 2 => (data[j] = "SP" <=> j = a + 1 \/ j = a + n + 2)

\* The place that is found is the first one.
LEMMA PlaceOfIs ==
    ASSUME NEW ch, NEW text, NEW i \in Nat, Len(text) \in Nat
    PROVE  IsPlace(PlaceOf({ch}, text, i), ch, text, i)
<1> DEFINE hits == {j \in i..Len(text) : text[j] \in {ch}}
           places == hits \cup {Len(text) + 1}
<1>1. places \subseteq Nat /\ Len(text) + 1 \in places
    OBVIOUS
<1>2. Min(places) \in places /\ \A j \in places : Min(places) <= j
  <2> HIDE DEF places
  <2>1. places # {}
      BY <1>1
  <2> QED  BY <1>1, <2>1, LeastChosen, Zenon DEF Min
<1>3. PlaceOf({ch}, text, i) = Min(places)
    BY DEF PlaceOf
<1>4. \A j \in i..Len(text) : text[j] = ch => j \in places
    OBVIOUS
<1>5. Min(places) \in hits \/ Min(places) = Len(text) + 1
    BY <1>2
<1>6. Min(places) \in Nat /\ Min(places) <= Len(text) + 1
    BY <1>1, <1>2
<1>7. Min(places) <= Len(text) => Min(places) >= i /\ text[Min(places)] = ch
  <2> SUFFICES ASSUME Min(places) <= Len(text) PROVE Min(places) >= i /\ text[Min(places)] = ch
      OBVIOUS
  <2>1. Min(places) \in hits
      BY <1>5, <1>6
  <2> QED  BY <2>1
<1> HIDE DEF places
<1>8. \A j \in i..Len(text) : text[j] = ch => Min(places) <= j
    BY <1>2, <1>4
<1> DEFINE least == Min(places)
<1>9. least = PlaceOf({ch}, text, i)
    BY <1>3
<1>10. IsPlace(least, ch, text, i)
    BY <1>6, <1>7, <1>8 DEF IsPlace
<1> QED  BY <1>9, <1>10

\* The URL is found when the two blanks around it have arrived, and lies
\* between them.
LEMMA UrlBetween ==
    ASSUME NEW data \in Seq(TextChars), NEW a \in Nat, NEW n \in Nat,
           BlanksAround(data, a, n), getUrlFromData(data) # << >>
    PROVE  /\ PlaceOf({"SP"}, data, 1) = a + 1 /\ Len(data) >= a + n + 2
           /\ getUrlFromData(data) = SubSeq(data, a + 2, a + n + 1)
<1> DEFINE first == PlaceOf({"SP"}, data, 1)
           second == PlaceOf({"SP"}, data, first + 1)
           end == Len(data)
<1>1. end \in Nat
    BY LenProperties
<1>2. /\ first \in Nat /\ first <= end + 1
      /\ first <= end => first >= 1 /\ data[first] = "SP"
      /\ \A j \in 1..end : data[j] = "SP" => first <= j
  <2>1. 1 \in Nat /\ end = Len(data)
      OBVIOUS
  <2>2. IsPlace(first, "SP", data, 1)
      BY <1>1, <2>1, PlaceOfIs
  <2> HIDE DEF first
  <2> QED  BY <2>1, <2>2 DEF IsPlace
<1>3. first + 1 \in Nat
    BY <1>2
<1>4. /\ second \in Nat /\ second <= end + 1
      /\ second <= end => second >= first + 1 /\ data[second] = "SP"
      /\ \A j \in (first + 1)..end : data[j] = "SP" => second <= j
  <2> HIDE DEF first
  <2>1. IsPlace(second, "SP", data, first + 1)
      BY <1>1, <1>3, PlaceOfIs
  <2> HIDE DEF second
  <2> QED  BY <2>1 DEF IsPlace
<1>5. second <= end /\ getUrlFromData(data) = SubSeq(data, first + 1, second - 1)
  <2>1. ~(end < 6 \/ second > end) /\ getUrlFromData(data) = SubSeq(data, first + 1, second - 1)
      BY DEF getUrlFromData
  <2> HIDE DEF second, first, end
  <2> QED  BY <1>1, <1>4, <2>1
<1>6. \A j \in 1..end : j <= a + n + 2 => (data[j] = "SP" <=> j = a + 1 \/ j = a + n + 2)
    BY DEF BlanksAround
<1> HIDE DEF first, second, end
<1>7. end >= a + 1
  <2> SUFFICES ASSUME end < a + 1 PROVE FALSE
      BY <1>1
  <2>1. first > end
      BY <1>1, <1>2, <1>6
  <2> QED  BY <1>1, <1>2, <1>4, <1>5, <2>1
<1>8. first = a + 1
  <2>1. a + 1 \in 1..end /\ data[a + 1] = "SP"
      BY <1>1, <1>6, <1>7
  <2>2. first <= a + 1
      BY <1>2, <2>1
  <2>3. first \in 1..end /\ data[first] = "SP" /\ first <= a + n + 2
      BY <1>1, <1>2, <2>1, <2>2
  <2> QED  BY <1>6, <2>2, <2>3
<1>9. end >= a + n + 2
  <2> SUFFICES ASSUME end < a + n + 2 PROVE FALSE
      BY <1>1
  <2>1. second \in 1..end /\ data[second] = "SP" /\ second # a + 1 /\ second <= a + n + 2
      BY <1>1, <1>2, <1>4, <1>5, <1>8
  <2> QED  BY <1>1, <1>6, <2>1
<1>10. second = a + n + 2
  <2>1. a + n + 2 \in (first + 1)..end /\ a + n + 2 \in 1..end
      BY <1>1, <1>8, <1>9
  <2>2. data[a + n + 2] = "SP"
      BY <1>6, <2>1
  <2>3. second <= a + n + 2
      BY <1>4, <2>1, <2>2
  <2>4. second \in 1..end /\ data[second] = "SP" /\ second > a + 1
      BY <1>1, <1>2, <1>4, <1>5, <1>8
  <2> QED  BY <1>6, <2>3, <2>4
<1>11. first + 1 = a + 2 /\ second - 1 = a + n + 1
    BY <1>8, <1>10
<1>12. getUrlFromData(data) = SubSeq(data, a + 2, a + n + 1)
    BY <1>5, <1>11
<1> QED  BY <1>8, <1>9, <1>12 DEF first, end

\* A piece of a text.
LEMMA PieceOf ==
    ASSUME NEW S, NEW s \in Seq(S), NEW i \in Nat, NEW n \in Nat, i >= 1, i + n - 1 <= Len(s), NEW j, j = i + n - 1
    PROVE  SubSeq(s, i, j) \in Seq(S) /\ IsPiece(SubSeq(s, i, j), s, i, n)
<1> DEFINE v == SubSeq(s, i, j)
           end == Len(s)
<1>1. end \in Nat /\ i \in Int /\ j \in Int
    BY LenProperties
<1>2. \A k \in i..j : k \in 1..end
  <2> HIDE DEF end
  <2> QED  BY <1>1 DEF end
<1>3. \A k \in i..j : s[k] \in S
    BY <1>2, ElementOfSeq
<1>4. /\ v \in Seq(S) /\ Len(v) = IF i <= j THEN j - i + 1 ELSE 0
      /\ \A k \in 1..(j - i + 1) : v[k] = s[i + k - 1]
    BY <1>1, <1>3, SubSeqProperties
<1> HIDE DEF v
<1>5. Len(v) = n
    BY <1>4
<1>6. \A k \in 1..n : v[k] = s[i + k - 1]
  <2>1. j - i + 1 = n
      OBVIOUS
  <2> QED  BY <1>4, <2>1
<1> QED  BY <1>4, <1>5, <1>6 DEF v, IsPiece


\* Three texts one behind another, whichever two are joined first.
LEMMA ThreeJoined ==
    ASSUME NEW S, NEW s \in Seq(S), NEW t \in Seq(S), NEW u \in Seq(S)
    PROVE  s \o (t \o u) = s \o t \o u
BY ConcatAssociative

\* One text behind another.
LEMMA TextsJoined ==
    ASSUME NEW S, NEW s \in Seq(S), NEW t \in Seq(S), NEW u, u = s \o t
    PROVE  /\ u \in Seq(S) /\ Len(u) = Len(s) + Len(t)
           /\ \A i \in 1..Len(s) : u[i] = s[i]
           /\ \A i \in 1..Len(t) : u[Len(s) + i] = t[i]
OBVIOUS

\* The characters of the URL, and of a request around it.
UrlShape(u, h, p) ==
    /\ u \in Seq(TextChars) /\ Len(u) = 7 + Len(h) + Len(p) /\ Len(h) \in Nat /\ Len(p) \in Nat
    /\ \A i \in 1..Len(h) : u[7 + i] = h[i]
    /\ \A i \in 1..Len(p) : u[7 + Len(h) + i] = p[i]
    /\ \A i \in 1..Len(u) : u[i] # "SP"

RequestShape(t, m, u) ==
    /\ t \in Seq(TextChars) /\ Len(t) = Len(m) + Len(u) + 6
    /\ Len(m) \in Nat /\ Len(u) \in Nat
    /\ \A i \in 1..Len(m) : t[i] = m[i] /\ t[i] # "SP"
    /\ t[Len(m) + 1] = "SP"
    /\ \A i \in 1..Len(u) : t[Len(m) + 1 + i] = u[i]
    /\ t[Len(m) + Len(u) + 2] = "SP"

\* The URL is http:// with the host and the path behind it.
LEMMA UrlIs ==
    ASSUME NEW h \in Hosts, NEW p \in Paths, NEW asked, asked = Http \o h \o p
    PROVE  UrlShape(asked, h, p)
<1> DEFINE s == Http \o h
           u == s \o p
<1>01. s = Http \o h
    OBVIOUS
<1>02. u = s \o p
    OBVIOUS
<1>03. u = asked
    OBVIOUS
<1> HIDE DEF s, u
<1>1. h \in Seq(TextChars) /\ p \in Seq(TextChars) /\ Len(h) \in Nat /\ Len(p) \in Nat
    BY TextsAreSeqs, LenProperties
<1>2. Http \in Seq(TextChars) /\ Len(Http) = 7
    BY TextsAreSeqs
<1>9. /\ \A i \in 1..7 : Http[i] # "SP"
      /\ \A i \in 1..Len(h) : h[i] # "SP"
      /\ \A i \in 1..Len(p) : p[i] # "SP"
    BY TextsAreSeqs
<1>3. /\ s \in Seq(TextChars) /\ Len(s) = 7 + Len(h)
      /\ (\A i \in 1..7 : s[i] = Http[i]) /\ \A i \in 1..Len(h) : s[7 + i] = h[i]
  <2>1. /\ s \in Seq(TextChars) /\ Len(s) = Len(Http) + Len(h)
        /\ (\A i \in 1..Len(Http) : s[i] = Http[i]) /\ \A i \in 1..Len(h) : s[Len(Http) + i] = h[i]
    <3>1. Http \in Seq(TextChars) /\ h \in Seq(TextChars)
        BY <1>1, <1>2
    <3> QED  BY <3>1, <1>01, TextsJoined
  <2> QED  BY <1>2, <2>1
<1>4. /\ u \in Seq(TextChars) /\ Len(u) = 7 + Len(h) + Len(p)
      /\ (\A i \in 1..(7 + Len(h)) : u[i] = s[i]) /\ \A i \in 1..Len(p) : u[7 + Len(h) + i] = p[i]
  <2>1. /\ u \in Seq(TextChars) /\ Len(u) = Len(s) + Len(p)
        /\ (\A i \in 1..Len(s) : u[i] = s[i]) /\ \A i \in 1..Len(p) : u[Len(s) + i] = p[i]
    <3>1. s \in Seq(TextChars) /\ p \in Seq(TextChars)
        BY <1>1, <1>3
    <3> QED  BY <3>1, <1>02, TextsJoined
  <2> QED  BY <1>3, <2>1
<1>5. \A i \in 1..7 : u[i] = Http[i]
    BY <1>1, <1>3, <1>4
<1>6. ASSUME NEW i \in 1..Len(h) PROVE u[7 + i] = h[i]
    BY <1>1, <1>3, <1>4
<1>7. ASSUME NEW i \in 1..Len(p) PROVE u[7 + Len(h) + i] = p[i]
    BY <1>1, <1>4
<1>8. ASSUME NEW i \in 1..Len(u) PROVE u[i] # "SP"
  <2>1. CASE i \in 1..7
      BY <1>5, <1>9, <2>1
  <2>2. CASE i \in 8..(7 + Len(h))
    <3>1. i - 7 \in 1..Len(h) /\ 7 + (i - 7) = i
        BY <1>1, <2>2
    <3> QED  BY <1>6, <1>9, <3>1
  <2>3. CASE i \in (8 + Len(h))..Len(u)
    <3>1. i - 7 - Len(h) \in 1..Len(p) /\ 7 + Len(h) + (i - 7 - Len(h)) = i
        BY <1>1, <1>4, <2>3
    <3> QED  BY <1>7, <1>9, <3>1
  <2> QED  BY <1>1, <1>4, <2>1, <2>2, <2>3
<1> QED  BY <1>1, <1>4, <1>5, <1>6, <1>7, <1>8, <1>03 DEF UrlShape

\* A request is the method, a blank, the URL, and a blank with the version.
LEMMA RequestIs ==
    ASSUME NEW m \in Methods, NEW u \in Seq(TextChars),
           NEW text, text = m \o <<"SP">> \o u \o <<"SP", "v", "/", "1", "LF">>
    PROVE  RequestShape(text, m, u)
<1> DEFINE version == <<"SP", "v", "/", "1", "LF">>
           s == m \o <<"SP">>
           w == s \o u
           t == w \o version
<1>01. s = m \o <<"SP">>
    OBVIOUS
<1>02. w = s \o u
    OBVIOUS
<1>03. t = w \o version
    OBVIOUS
<1>04. t = text
    OBVIOUS
<1> HIDE DEF s, w, t
<1>1. m \in Seq(TextChars) /\ Len(m) \in Nat /\ Len(u) \in Nat /\ \A i \in 1..Len(m) : m[i] # "SP"
    BY TextsAreSeqs, LenProperties
<1>2. /\ <<"SP">> \in Seq(TextChars) /\ Len(<<"SP">>) = 1
      /\ version \in Seq(TextChars) /\ Len(version) = 5 /\ version[1] = "SP"
    BY TextsAreSeqs
<1> HIDE DEF version
<1>3. /\ s \in Seq(TextChars) /\ Len(s) = Len(m) + 1
      /\ (\A i \in 1..Len(m) : s[i] = m[i]) /\ s[Len(m) + 1] = "SP"
    BY <1>1, <1>2, <1>01, TextsJoined
<1>5. /\ w \in Seq(TextChars) /\ Len(w) = Len(m) + 1 + Len(u)
      /\ (\A i \in 1..(Len(m) + 1) : w[i] = s[i]) /\ \A i \in 1..Len(u) : w[Len(m) + 1 + i] = u[i]
  <2>1. /\ w \in Seq(TextChars) /\ Len(w) = Len(s) + Len(u)
        /\ (\A i \in 1..Len(s) : w[i] = s[i]) /\ \A i \in 1..Len(u) : w[Len(s) + i] = u[i]
    <3>1. s \in Seq(TextChars) /\ u \in Seq(TextChars)
        BY <1>3
    <3> QED  BY <3>1, <1>02, TextsJoined
  <2> QED  BY <1>3, <2>1
<1>6. /\ t \in Seq(TextChars) /\ Len(t) = Len(m) + 1 + Len(u) + 5
      /\ (\A i \in 1..(Len(m) + 1 + Len(u)) : t[i] = w[i])
      /\ \A i \in 1..5 : t[Len(m) + 1 + Len(u) + i] = version[i]
  <2>1. /\ t \in Seq(TextChars) /\ Len(t) = Len(w) + Len(version)
        /\ (\A i \in 1..Len(w) : t[i] = w[i]) /\ \A i \in 1..Len(version) : t[Len(w) + i] = version[i]
    <3>1. w \in Seq(TextChars) /\ version \in Seq(TextChars)
        BY <1>2, <1>5
    <3> QED  BY <3>1, <1>03, TextsJoined
  <2> QED  BY <1>2, <1>5, <2>1
<1>7. ASSUME NEW i \in 1..Len(m) PROVE t[i] = m[i] /\ t[i] # "SP"
  <2>1. t[i] = w[i] /\ w[i] = s[i]
      BY <1>1, <1>5, <1>6
  <2> QED  BY <1>1, <1>3, <2>1
<1>8. t[Len(m) + 1] = "SP"
  <2>1. Len(m) + 1 \in 1..(Len(m) + 1) /\ Len(m) + 1 \in 1..(Len(m) + 1 + Len(u))
      BY <1>1
  <2>2. t[Len(m) + 1] = w[Len(m) + 1]
      BY <2>1, <1>6
  <2>3. w[Len(m) + 1] = s[Len(m) + 1]
      BY <2>1, <1>5
  <2> QED  BY <1>3, <2>2, <2>3
<1>9. ASSUME NEW i \in 1..Len(u) PROVE t[Len(m) + 1 + i] = u[i]
  <2>1. Len(m) + 1 + i \in 1..(Len(m) + 1 + Len(u))
      BY <1>1
  <2>2. t[Len(m) + 1 + i] = w[Len(m) + 1 + i]
      BY <1>6, <2>1
  <2>3. w[Len(m) + 1 + i] = u[i]
      BY <1>5
  <2> QED  BY <2>2, <2>3
<1>10. t[Len(m) + Len(u) + 2] = "SP"
  <2>1. t[Len(m) + 1 + Len(u) + 1] = version[1] /\ Len(m) + 1 + Len(u) + 1 = Len(m) + Len(u) + 2
      BY <1>1, <1>6
  <2> QED  BY <1>2, <2>1
<1>11. Len(t) = Len(m) + Len(u) + 6
    BY <1>1, <1>6
<1> QED  BY <1>1, <1>6, <1>7, <1>8, <1>9, <1>10, <1>11, <1>04 DEF RequestShape

\* What has arrived of a request.
Arrived(data, t, came) ==
    /\ data \in Seq(TextChars) /\ Len(data) = came /\ came \in Nat /\ came <= Len(t)
    /\ \A i \in 1..came : data[i] = t[i]

\* The blanks of what has arrived are those around the URL.
LEMMA ArrivedIs ==
    ASSUME NEW m, NEW h, NEW p, NEW u, UrlShape(u, h, p), NEW t, RequestShape(t, m, u),
           NEW came \in Nat, came <= Len(t), NEW data, data = SubSeq(t, 1, came)
    PROVE  Arrived(data, t, came) /\ BlanksAround(data, Len(m), Len(u))
<1> DEFINE a == Len(m)
           n == Len(u)
<1>1. /\ t \in Seq(TextChars) /\ Len(t) = a + n + 6 /\ a \in Nat /\ n \in Nat
      /\ t[a + 1] = "SP"
      /\ t[a + n + 2] = "SP"
    BY DEF RequestShape
<1>2. (\A i \in 1..a : t[i] # "SP") /\ \A i \in 1..n : t[a + 1 + i] = u[i]
    BY DEF RequestShape
<1>3. data \in Seq(TextChars) /\ Len(data) = came /\ \A i \in 1..came : data[i] = t[i]
  <2>1. 1 \in Nat /\ 1 >= 1 /\ 1 + came - 1 <= Len(t) /\ came = 1 + came - 1
      BY <1>1
  <2>2. data \in Seq(TextChars) /\ IsPiece(data, t, 1, came)
      BY <1>1, <2>1, PieceOf
  <2>3. \A k \in 1..came : 1 + k - 1 = k
      OBVIOUS
  <2> QED  BY <2>2, <2>3 DEF IsPiece
<1>4. \A i \in 1..n : u[i] # "SP"
    BY DEF UrlShape
<1> HIDE DEF a, n
<1>5. ASSUME NEW j \in 1..came, j <= a + n + 2
      PROVE  data[j] = "SP" <=> j = a + 1 \/ j = a + n + 2
  <2>1. data[j] = t[j]
      BY <1>3
  <2>2. CASE j <= a
    <3>1. j \in 1..a /\ j # a + 1 /\ j # a + n + 2
        BY <1>1, <2>2
    <3> QED  BY <1>2, <2>1, <3>1
  <2>3. CASE j = a + 1
      BY <1>1, <2>1, <2>3
  <2>4. CASE j > a + 1 /\ j < a + n + 2
    <3>1. j - (a + 1) \in 1..n /\ a + 1 + (j - (a + 1)) = j /\ j # a + 1 /\ j # a + n + 2
        BY <1>1, <2>4
    <3>2. t[j] = u[j - (a + 1)]
        BY <1>2, <3>1
    <3> QED  BY <1>4, <2>1, <3>1, <3>2
  <2>5. CASE j = a + n + 2
      BY <1>1, <2>1, <2>5
  <2>6. j <= a \/ j = a + 1 \/ (j > a + 1 /\ j < a + n + 2) \/ j = a + n + 2
      BY <1>1, <1>5
  <2> QED  BY <2>2, <2>3, <2>4, <2>5, <2>6
<1>6. 1..Len(data) = 1..came
    BY <1>3
<1> QED  BY <1>3, <1>5, <1>6 DEF a, n, Arrived, BlanksAround

\* The host lies between the slashes of the URL.
LEMMA HostFound ==
    ASSUME NEW h \in Hosts, NEW p \in Paths, NEW u, UrlShape(u, h, p)
    PROVE  getHostFromUrl(u) = h
<1> DEFINE b == Len(h)
           c == Len(p)
           n == Len(u)
<1>1. u \in Seq(TextChars) /\ n = 7 + b + c /\ b \in Nat /\ c \in Nat /\ n \in Nat
    BY DEF UrlShape
<1>2. (\A i \in 1..b : u[7 + i] = h[i]) /\ \A i \in 1..c : u[7 + b + i] = p[i]
    BY DEF UrlShape
<1>3. h \in Seq(TextChars)
    BY TextsAreSeqs
<1>4. \A i \in 1..b : h[i] # "/"
  <2>1. h \in Seq(Range(h)) /\ "/" \notin Range(h)
      BY TextAssumption
  <2>2. \A i \in 1..b : h[i] \in Range(h)
      BY <2>1, ElementOfSeq
  <2> QED  BY <2>1, <2>2
<1>5. c > 0 => p[1] = "/"
  <2>1. c > 0 => p # << >>
      OBVIOUS
  <2> QED  BY <2>1, TextAssumption
<1> DEFINE q == PlaceOf({"/"}, u, 8)
<1>6. /\ q \in Nat /\ q <= n + 1
      /\ q <= n => q >= 8 /\ u[q] = "/"
      /\ \A j \in 8..n : u[j] = "/" => q <= j
  <2>1. 8 \in Nat
      OBVIOUS
  <2>2. IsPlace(q, "/", u, 8)
      BY <1>1, <2>1, PlaceOfIs
  <2>3. n = Len(u)
      OBVIOUS
  <2> HIDE DEF q, n
  <2> QED  BY <2>2, <2>3 DEF IsPlace
<1>10. b = Len(h) /\ n = Len(u)
    OBVIOUS
<1> HIDE DEF q, n, b, c
<1>7. q = 8 + b
  <2>1. q <= 8 + b
    <3>1. CASE c = 0
        BY <1>1, <1>6, <3>1
    <3>2. CASE c > 0
      <4>1. 1 \in 1..c /\ 7 + b + 1 = 8 + b /\ 8 + b \in 8..n
          BY <1>1, <3>2
      <4>2. u[8 + b] = p[1]
          BY <1>2, <4>1
      <4> QED  BY <1>5, <1>6, <3>2, <4>1, <4>2
    <3> QED  BY <1>1, <3>1, <3>2
  <2>2. ASSUME q < 8 + b PROVE FALSE
    <3>1. q <= n
        BY <1>1, <1>6, <2>2
    <3>2. q >= 8 /\ u[q] = "/"
        BY <1>6, <3>1
    <3>3. q - 7 \in 1..b /\ 7 + (q - 7) = q
        BY <1>1, <1>6, <2>2, <3>2
    <3>4. u[q] = h[q - 7]
        BY <1>2, <3>3
    <3> QED  BY <1>4, <3>2, <3>3, <3>4
  <2> QED  BY <1>1, <1>6, <2>1, <2>2
<1> DEFINE v == SubSeq(u, 8, 7 + b)
<1>8. getHostFromUrl(u) = v
  <2>1. q - 1 = 7 + b
      BY <1>1, <1>7
  <2>2. getHostFromUrl(u) = SubSeq(u, 8, q - 1)
      BY DEF getHostFromUrl, q
  <2> QED  BY <2>1, <2>2
<1>9. v \in Seq(TextChars) /\ Len(v) = b /\ \A k \in 1..b : v[k] = u[8 + k - 1]
  <2>1. 8 \in Nat /\ 8 >= 1 /\ 8 + b - 1 <= Len(u) /\ 7 + b = 8 + b - 1
      BY <1>1, <1>10
  <2>2. v \in Seq(TextChars) /\ IsPiece(v, u, 8, b)
      BY <1>1, <2>1, PieceOf
  <2> HIDE DEF v
  <2> QED  BY <2>2 DEF IsPiece
<1> HIDE DEF v
<1>11. ASSUME NEW k \in 1..b PROVE v[k] = h[k]
  <2>1. 8 + k - 1 = 7 + k
      BY <1>1
  <2> QED  BY <1>2, <1>9, <2>1
<1>12. v = h
    BY <1>3, <1>9, <1>10, <1>11, SeqEqual
<1> QED  BY <1>8, <1>12

\* The URL of a request has arrived, with the blank behind it; what is to be sent on.
UrlArrived(m, h, p, u, t, came, data) ==
    /\ m \in Methods /\ h \in Hosts /\ p \in Paths
    /\ UrlShape(u, h, p) /\ RequestShape(t, m, u)
    /\ came \in Nat /\ came >= Len(m) + Len(u) + 2 /\ Arrived(data, t, came)
    /\ PlaceOf({"SP"}, data, 1) = Len(m) + 1

AskingFor(p, m, u, t, came) == m \o <<"SP">> \o p \o SubSeq(t, Len(m) + 2 + Len(u), came)

\* What is sent to the server asks for the path.
LEMMA PathAsked ==
    ASSUME NEW m, NEW h, NEW p, NEW u, NEW t, NEW came, NEW data,
           UrlArrived(m, h, p, u, t, came, data), p # << >>
    PROVE  HasSlash(data) /\ editRequestToSendToServer(data) = AskingFor(p, m, u, t, came)
<1>0. /\ m \in Methods /\ h \in Hosts /\ p \in Paths
      /\ UrlShape(u, h, p) /\ RequestShape(t, m, u)
      /\ came \in Nat /\ came >= Len(m) + Len(u) + 2 /\ Arrived(data, t, came)
      /\ PlaceOf({"SP"}, data, 1) = Len(m) + 1
    BY DEF UrlArrived
<1> DEFINE a == Len(m)
           b == Len(h)
           c == Len(p)
           n == Len(u)
<1>1. u \in Seq(TextChars) /\ n = 7 + b + c /\ b \in Nat /\ c \in Nat /\ n \in Nat
    BY <1>0 DEF UrlShape
<1>2. (\A i \in 1..b : u[7 + i] = h[i]) /\ (\A i \in 1..c : u[7 + b + i] = p[i]) /\ \A i \in 1..n : u[i] # "SP"
    BY <1>0 DEF UrlShape
<1>3. t \in Seq(TextChars) /\ Len(t) = a + n + 6 /\ a \in Nat /\ t[a + 1] = "SP"
    BY <1>0 DEF RequestShape
<1>4. (\A i \in 1..a : t[i] = m[i]) /\ \A i \in 1..n : t[a + 1 + i] = u[i]
    BY <1>0 DEF RequestShape
<1>5. data \in Seq(TextChars) /\ Len(data) = came /\ \A i \in 1..came : data[i] = t[i]
    BY <1>0 DEF Arrived
<1>6. \A i \in 1..b : h[i] # "/"
  <2>1. h \in Seq(Range(h)) /\ "/" \notin Range(h)
      BY <1>0, TextAssumption
  <2>2. \A i \in 1..b : h[i] \in Range(h)
      BY <2>1, ElementOfSeq
  <2> QED  BY <2>1, <2>2
<1>7. p[1] = "/" /\ c >= 1 /\ m \in Seq(TextChars) /\ p \in Seq(TextChars)
  <2>1. p \in Seq(TextChars)
      BY <1>0, TextsAreSeqs
  <2>2. c >= 1
      BY <2>1
  <2> QED  BY <1>0, <2>1, <2>2, TextAssumption, TextsAreSeqs
<1>8. came \in Nat /\ came >= a + n + 2 /\ came <= a + n + 6
    BY <1>0, <1>3 DEF Arrived
<1> DEFINE first == PlaceOf({"SP"}, data, 1)
           q == PlaceOf({"/"}, data, first + 8)
<1>9. first = a + 1
    BY <1>0
<1>10. /\ q \in Nat /\ q <= came + 1
       /\ q <= came => q >= a + 9 /\ data[q] = "/"
       /\ \A j \in (a + 9)..came : data[j] = "/" => q <= j
  <2> HIDE DEF first, a
  <2>1. first + 8 = a + 9 /\ a + 9 \in Nat /\ Len(data) \in Nat
      BY <1>3, <1>5, <1>9
  <2>2. IsPlace(PlaceOf({"/"}, data, a + 9), "/", data, a + 9)
      BY <2>1, PlaceOfIs
  <2>3. q = PlaceOf({"/"}, data, a + 9)
      BY <2>1
  <2> HIDE DEF q
  <2>4. IsPlace(q, "/", data, a + 9)
      BY <2>2, <2>3
  <2> QED  BY <1>5, <2>4 DEF IsPlace
<1>11. a = Len(m) /\ n = Len(u) /\ c = Len(p)
    OBVIOUS
<1>12. HasSlash(data) <=> q <= came
    BY <1>5 DEF HasSlash
<1>13. editRequestToSendToServer(data) = SubSeq(data, 1, a + 1) \o SubSeq(data, q, came)
    BY <1>5, <1>9 DEF editRequestToSendToServer, Suffix
<1> HIDE DEF q, first, a, b, c, n
<1>14. q = a + 9 + b
  <2>1. q <= a + 9 + b
    <3>1. 1 \in 1..c /\ 7 + b + 1 \in 1..n /\ a + 1 + (7 + b + 1) = a + 9 + b
        BY <1>1, <1>3, <1>7
    <3>2. t[a + 9 + b] = u[7 + b + 1] /\ u[7 + b + 1] = p[1]
        BY <1>2, <1>4, <3>1
    <3>3. a + 9 + b \in (a + 9)..came /\ a + 9 + b \in 1..came
        BY <1>1, <1>3, <1>7, <1>8
    <3> QED  BY <1>5, <1>7, <1>10, <3>2, <3>3
  <2>2. ASSUME q < a + 9 + b PROVE FALSE
    <3>1. q <= came
        BY <1>1, <1>3, <1>7, <1>8, <1>10, <2>2
    <3>2. q >= a + 9 /\ data[q] = "/"
        BY <1>10, <3>1
    <3>3. /\ q \in 1..came /\ q - (a + 1) \in 1..n /\ a + 1 + (q - (a + 1)) = q
          /\ q - (a + 8) \in 1..b /\ 7 + (q - (a + 8)) = q - (a + 1)
        BY <1>1, <1>3, <1>10, <2>2, <3>1, <3>2
    <3>4. data[q] = t[q] /\ t[q] = u[q - (a + 1)] /\ u[q - (a + 1)] = h[q - (a + 8)]
        BY <1>2, <1>4, <1>5, <3>3
    <3> QED  BY <1>6, <3>2, <3>3, <3>4
  <2> QED  BY <1>1, <1>3, <1>10, <2>1, <2>2
<1>15. q <= came
    BY <1>1, <1>3, <1>7, <1>8, <1>14
<1> DEFINE v == SubSeq(data, 1, a + 1)
           w == SubSeq(data, q, came)
           back == SubSeq(t, a + 2 + n, came)
           ms == m \o <<"SP">>
           l == came - (a + n + 1)
<1>16. l \in Nat /\ c + l \in Nat
    BY <1>1, <1>3, <1>8
<1>17. v \in Seq(TextChars) /\ Len(v) = a + 1 /\ \A k \in 1..(a + 1) : v[k] = data[1 + k - 1]
  <2>1. 1 \in Nat /\ a + 1 \in Nat /\ 1 >= 1 /\ 1 + (a + 1) - 1 <= Len(data) /\ a + 1 = 1 + (a + 1) - 1
      BY <1>1, <1>3, <1>5, <1>8
  <2>2. v \in Seq(TextChars) /\ IsPiece(v, data, 1, a + 1)
      BY <1>5, <2>1, PieceOf
  <2> HIDE DEF v
  <2> QED  BY <2>2 DEF IsPiece
<1>18. w \in Seq(TextChars) /\ Len(w) = c + l /\ \A k \in 1..(c + l) : w[k] = data[q + k - 1]
  <2>1. q \in Nat /\ q >= 1 /\ q + (c + l) - 1 <= Len(data) /\ came = q + (c + l) - 1
      BY <1>1, <1>3, <1>5, <1>8, <1>14
  <2> HIDE DEF l
  <2>2. w \in Seq(TextChars) /\ IsPiece(w, data, q, c + l)
      BY <1>5, <1>16, <2>1, PieceOf
  <2> HIDE DEF w
  <2> QED  BY <2>2 DEF IsPiece
<1>19. back \in Seq(TextChars) /\ Len(back) = l /\ \A k \in 1..l : back[k] = t[a + 2 + n + k - 1]
  <2>1. a + 2 + n \in Nat /\ a + 2 + n >= 1 /\ a + 2 + n + l - 1 <= Len(t) /\ came = a + 2 + n + l - 1
      BY <1>1, <1>3, <1>8
  <2> HIDE DEF l
  <2>2. back \in Seq(TextChars) /\ IsPiece(back, t, a + 2 + n, l)
      BY <1>3, <1>16, <2>1, PieceOf
  <2> HIDE DEF back
  <2> QED  BY <2>2 DEF IsPiece
<1>20. ms \in Seq(TextChars) /\ Len(ms) = a + 1 /\ (\A i \in 1..a : ms[i] = m[i]) /\ ms[a + 1] = "SP"
  <2>1. <<"SP">> \in Seq(TextChars) /\ ms = m \o <<"SP">>
      BY <1>0, TextsAreSeqs
  <2>2. /\ ms \in Seq(TextChars) /\ Len(ms) = Len(m) + Len(<<"SP">>)
        /\ \A i \in 1..Len(m) : ms[i] = m[i]
        /\ \A i \in 1..Len(<<"SP">>) : ms[Len(m) + i] = <<"SP">>[i]
      BY <1>7, <2>1, TextsJoined
  <2>3. Len(<<"SP">>) = 1 /\ <<"SP">>[1] = "SP"
      OBVIOUS
  <2> QED  BY <1>11, <2>2, <2>3
<1>21. m \o <<"SP">> \o p \o back = ms \o p \o back /\ editRequestToSendToServer(data) = v \o w
    BY <1>13
<1>22. editRequestToSendToServer(data) = v \o w
    BY <1>13
<1> HIDE DEF v, w, back, ms, l
<1>23. v = ms
  <2>1. ASSUME NEW k \in 1..(a + 1) PROVE v[k] = ms[k]
    <3>1. 1 + k - 1 = k /\ k \in 1..came
        BY <1>1, <1>3, <1>8
    <3>2. v[k] = t[k]
        BY <1>5, <1>17, <3>1
    <3>3. k \in 1..a \/ k = a + 1
        BY <1>3
    <3> QED  BY <1>3, <1>4, <1>20, <3>2, <3>3
  <2> QED  BY <1>17, <1>20, <2>1, SeqEqual
<1>24. w = p \o back
  <2> DEFINE z == p \o back
  <2>1. /\ z \in Seq(TextChars) /\ Len(z) = c + l
        /\ (\A i \in 1..c : z[i] = p[i]) /\ \A i \in 1..l : z[c + i] = back[i]
    <3>1. z = p \o back
        OBVIOUS
    <3> HIDE DEF z
    <3>2. /\ z \in Seq(TextChars) /\ Len(z) = Len(p) + Len(back)
          /\ (\A i \in 1..Len(p) : z[i] = p[i]) /\ \A i \in 1..Len(back) : z[Len(p) + i] = back[i]
      <4>1. p \in Seq(TextChars) /\ back \in Seq(TextChars)
          BY <1>7, <1>19
      <4> QED  BY <4>1, <3>1, TextsJoined
    <3> QED  BY <1>11, <1>19, <3>2
  <2> HIDE DEF z
  <2>2. ASSUME NEW k \in 1..(c + l) PROVE w[k] = z[k]
    <3>1. q + k - 1 \in 1..came
        BY <1>1, <1>3, <1>8, <1>14, <1>16 DEF l
    <3>2. w[k] = t[q + k - 1]
        BY <1>5, <1>18, <3>1
    <3>3. CASE k <= c
      <4>1. /\ k \in 1..c /\ 7 + b + k \in 1..n /\ q + k - 1 = a + 1 + (7 + b + k)
          BY <1>1, <1>3, <1>14, <1>16, <3>3
      <4>2. w[k] = u[7 + b + k] /\ u[7 + b + k] = p[k]
          BY <1>2, <1>4, <3>2, <4>1
      <4> QED  BY <2>1, <4>1, <4>2
    <3>4. CASE k > c
      <4>1. k - c \in 1..l /\ c + (k - c) = k /\ q + k - 1 = a + 2 + n + (k - c) - 1
          BY <1>1, <1>3, <1>14, <1>16, <3>4
      <4>2. w[k] = back[k - c] /\ z[k] = back[k - c]
          BY <1>19, <2>1, <3>2, <4>1
      <4> QED  BY <4>2
    <3> QED  BY <1>1, <1>16, <3>3, <3>4
  <2>3. w = z
      BY <1>18, <2>1, <2>2, SeqEqual
  <2> QED  BY <2>3 DEF z
<1>25. ms \o (p \o back) = ms \o p \o back
  <2>1. p \in Seq(TextChars) /\ back \in Seq(TextChars) /\ ms \in Seq(TextChars)
      BY <1>7, <1>19, <1>20
  <2> HIDE DEF ms, back
  <2>2. ms \o (p \o back) = (ms \o p) \o back
      BY <2>1, ThreeJoined
  <2> QED  BY <2>2
<1>26. editRequestToSendToServer(data) = m \o <<"SP">> \o p \o back
    BY <1>21, <1>22, <1>23, <1>24, <1>25
<1>27. back = SubSeq(t, Len(m) + 2 + Len(u), came)
    BY <1>11 DEF back
<1>28. editRequestToSendToServer(data) = AskingFor(p, m, u, t, came)
    BY <1>26, <1>27 DEF AskingFor
<1> QED  BY <1>12, <1>15, <1>28

\* The characters of answers; the shape of a head, an empty line at its end and
\* nowhere before; what has arrived of an answer; a line in the body that looks like
\* the header.
AnswerChars == Lengths \cup {"x", "LF", "CR", "HTTP"}

HeadShape(top) ==
    /\ top \in Seq(AnswerChars) /\ Len(top) \in Nat /\ Len(top) >= 5
    /\ top[Len(top)] = "LF" /\ top[Len(top) - 2] = "LF"
    /\ \A i \in 1..(Len(top) - 3) : ~(top[i] = "LF" /\ top[i + 2] = "LF")

AnswerArrived(data, top, body, came) ==
    /\ Len(data) = came /\ came \in Nat
    /\ \A i \in 1..came : data[i] = IF i <= Len(top) THEN top[i] ELSE body[i - Len(top)]

LengthIsIn(body, n) == \E i \in 1..n : body[i] \in Lengths

\* The top that HeadOf makes has that shape.
LEMMA HeadIs ==
    ASSUME NEW lines \in Seq(Lengths \cup {"x"})
    PROVE  HeadShape(HeadOf(lines))
<1> DEFINE l == Len(lines)
           n == 3 * l + 5
           top == HeadOf(lines)
<1>1. l \in Nat /\ n \in Nat
    BY LenProperties
<1>2. top = [i \in 1..n |-> IF i % 3 = 0 \/ i = n THEN "LF"
                    ELSE IF i % 3 = 2 \/ i = n - 1 THEN "CR"
                    ELSE IF i = 1 THEN "HTTP" ELSE lines[i \div 3]]
    BY DEF HeadOf
<1>3. \A k \in 1..l : lines[k] \in Lengths \cup {"x"}
    BY ElementOfSeq
<1> HIDE DEF top, l
<1>4. ASSUME NEW i \in 1..n
      PROVE  top[i] \in AnswerChars /\ (top[i] = "LF" <=> i % 3 = 0 \/ i = n)
  <2>1. CASE i % 3 = 0 \/ i = n
      BY <1>2, <2>1 DEF AnswerChars
  <2>2. CASE ~(i % 3 = 0 \/ i = n) /\ (i % 3 = 2 \/ i = n - 1)
      BY <1>2, <2>2 DEF AnswerChars
  <2>3. CASE ~(i % 3 = 0 \/ i = n) /\ ~(i % 3 = 2 \/ i = n - 1) /\ i = 1
      BY <1>2, <2>3 DEF AnswerChars
  <2>4. CASE ~(i % 3 = 0 \/ i = n) /\ ~(i % 3 = 2 \/ i = n - 1) /\ i # 1
    <3>1. i % 3 = 1 /\ i <= 3 * l + 3
        BY <1>1, <2>4
    <3>2. i \div 3 \in 1..l
        BY <1>1, <2>4, <3>1
    <3>3. top[i] = lines[i \div 3]
        BY <1>2, <2>4
    <3>4. top[i] \in Lengths \cup {"x"}
        BY <1>3, <3>2, <3>3
    <3> QED  BY <2>4, <3>4 DEF AnswerChars, Lengths
  <2> QED  BY <2>1, <2>2, <2>3, <2>4
<1>5. top \in Seq(AnswerChars) /\ Len(top) = n
  <2>1. top \in [1..n -> AnswerChars]
      BY <1>2, <1>4
  <2> HIDE DEF n
  <2> QED  BY <1>1, <2>1
<1>6. top[n] = "LF" /\ top[n - 2] = "LF"
  <2>1. n \in 1..n /\ n - 2 \in 1..n /\ (n - 2) % 3 = 0
      BY <1>1
  <2> HIDE DEF n
  <2> QED  BY <1>4, <2>1
<1>7. ASSUME NEW i \in 1..(n - 3), top[i] = "LF", top[i + 2] = "LF" PROVE FALSE
  <2>1. i \in 1..n /\ i + 2 \in 1..n /\ i # n /\ i + 2 # n
      BY <1>1
  <2>2. i % 3 = 0 /\ (i + 2) % 3 = 0
    <3> HIDE DEF n
    <3> QED  BY <1>4, <1>7, <2>1
  <2> QED  BY <1>1, <2>2
<1>8. n >= 5
    BY <1>1
<1> HIDE DEF n
<1> QED  BY <1>1, <1>5, <1>6, <1>7, <1>8 DEF HeadShape, top

\* The first empty line that is found ends the top.
LEMMA EndFound ==
    ASSUME NEW top, NEW body, NEW came, NEW data,
           HeadShape(top), AnswerArrived(data, top, body, came), HeadEnds(data) # {}
    PROVE  came >= Len(top) /\ Min(HeadEnds(data)) = Len(top)
<1> DEFINE n == Len(top)
           ends == HeadEnds(data)
<1>1. /\ n \in Nat /\ n >= 5 /\ top[n] = "LF" /\ top[n - 2] = "LF"
      /\ \A i \in 1..(n - 3) : ~(top[i] = "LF" /\ top[i + 2] = "LF")
    BY DEF HeadShape
<1>2. /\ Len(data) = came /\ came \in Nat
      /\ \A i \in 1..came : i <= n => data[i] = top[i]
    BY DEF AnswerArrived
<1>3. \A e : e \in ends <=> \E i \in 1..(came - 2) : e = i + 2 /\ data[i] = "LF" /\ data[i + 2] = "LF"
    BY <1>2 DEF HeadEnds
<1> HIDE DEF n, ends
<1>4. \A e \in ends : e \in Nat /\ e >= n /\ e <= came
  <2> SUFFICES ASSUME NEW e \in ends PROVE e \in Nat /\ e >= n /\ e <= came
      OBVIOUS
  <2>1. PICK i \in 1..(came - 2) : e = i + 2 /\ data[i] = "LF" /\ data[i + 2] = "LF"
      BY <1>3
  <2>2. ASSUME i + 2 < n PROVE FALSE
    <3>1. i \in 1..(n - 3) /\ i \in 1..came /\ i + 2 \in 1..came /\ i <= n /\ i + 2 <= n
        BY <1>1, <1>2, <2>2
    <3>2. data[i] = top[i] /\ data[i + 2] = top[i + 2]
        BY <1>2, <3>1
    <3> QED  BY <1>1, <2>1, <3>1, <3>2
  <2> QED  BY <1>1, <1>2, <2>1, <2>2
<1>5. ends # {}
    BY DEF ends
<1>6. came >= n
    BY <1>1, <1>2, <1>4, <1>5
<1>7. n \in ends
  <2>1. n - 2 \in 1..(came - 2) /\ n = (n - 2) + 2 /\ n - 2 \in 1..came /\ n \in 1..came /\ n - 2 <= n /\ n <= n
      BY <1>1, <1>2, <1>6
  <2>2. data[n - 2] = "LF" /\ data[(n - 2) + 2] = "LF"
      BY <1>1, <1>2, <2>1
  <2> QED  BY <1>3, <2>1, <2>2
<1>8. Min(ends) \in ends /\ \A e \in ends : Min(ends) <= e
  <2>1. ends \subseteq Nat
      BY <1>4
  <2> QED  BY <1>5, <2>1, LeastChosen, Zenon DEF Min
<1> DEFINE least == Min(ends)
<1>9. least \in Nat /\ least >= n /\ least <= n
    BY <1>4, <1>7, <1>8
<1>10. least = n
  <2> HIDE DEF least
  <2> QED  BY <1>1, <1>9
<1> QED  BY <1>6, <1>10 DEF n, ends

\* The length that is read is the one the top states, or was found behind a top
\* that states none.
LEMMA LengthFound ==
    ASSUME NEW top, NEW body, NEW came, NEW data,
           HeadShape(top), AnswerArrived(data, top, body, came), came >= Len(top)
    PROVE  /\ getContentLengthFromData(data) \in {-1, 1, 2}
           /\ getContentLengthFromData(top) \in {-1, 1, 2}
           /\ \/ getContentLengthFromData(data) = getContentLengthFromData(top)
              \/ getContentLengthFromData(top) = -1 /\ LengthIsIn(body, came - Len(top))
<1> DEFINE n == Len(top)
           Starts(t) == {i \in 2..Len(t) : t[i - 1] = "LF" /\ t[i] \in Lengths}
           Found(t) == IF Starts(t) = {} THEN 0 ELSE LengthIn(t[Min(Starts(t))])
<1>1. n \in Nat /\ n >= 5
    BY DEF HeadShape
<1>2. /\ Len(data) = came /\ came \in Nat /\ came >= n
      /\ (\A i \in 1..came : i <= n => data[i] = top[i])
      /\ \A i \in 1..came : i > n => data[i] = body[i - n]
    BY <1>1 DEF AnswerArrived
<1>3. \A c : LengthIn(c) \in {0, 1, 2}
    BY DEF LengthIn
<1>4. ASSUME NEW t, Len(t) \in Nat
      PROVE  /\ Found(t) \in {0, 1, 2}
             /\ getContentLengthFromData(t) = IF Found(t) > 0 THEN Found(t) ELSE -1
  <2>1. Found(t) \in {0, 1, 2}
      BY <1>3
  <2>2. getContentLengthFromData(t) = IF Found(t) > 0 THEN Found(t) ELSE -1
      BY DEF getContentLengthFromData
  <2> QED  BY <2>1, <2>2
<1>5. ASSUME NEW t, Len(t) \in Nat, Starts(t) # {}
      PROVE  Min(Starts(t)) \in Starts(t) /\ \A i \in Starts(t) : Min(Starts(t)) <= i
  <2>1. Starts(t) \subseteq Nat
      BY <1>5
  <2> HIDE DEF Starts
  <2> QED  BY <1>5, <2>1, LeastChosen, Zenon DEF Min
<1> DEFINE here == Starts(data)
           there == Starts(top)
<1>6. here = {i \in 2..came : data[i - 1] = "LF" /\ data[i] \in Lengths}
    BY <1>2
<1>7. there = {i \in 2..n : top[i - 1] = "LF" /\ top[i] \in Lengths}
    OBVIOUS
<1>8. \A i \in 2..n : (i \in here <=> i \in there) /\ data[i] = top[i]
  <2> SUFFICES ASSUME NEW i \in 2..n PROVE (i \in here <=> i \in there) /\ data[i] = top[i]
      OBVIOUS
  <2>1. i \in 1..came /\ i - 1 \in 1..came /\ i <= n /\ i - 1 <= n /\ i \in 2..came
      BY <1>1, <1>2
  <2>2. data[i] = top[i] /\ data[i - 1] = top[i - 1]
      BY <1>2, <2>1
  <2> HIDE DEF here, there
  <2> QED  BY <1>6, <1>7, <2>1, <2>2
<1>9. CASE there # {}
  <2> DEFINE a == Min(here)
             b == Min(there)
  <2>1. b \in there /\ \A i \in there : b <= i
      BY <1>1, <1>5, <1>9
  <2>2. b \in 2..n
      BY <2>1
  <2>3. b \in here /\ here # {}
    <3> HIDE DEF here, there, b
    <3> QED  BY <1>8, <2>1, <2>2
  <2>4. a \in here /\ \A i \in here : a <= i
      BY <1>2, <1>5, <2>3
  <2>5. a \in 2..came
      BY <1>2, <2>4
  <2> HIDE DEF here, there, a, b
  <2>6. a <= b
      BY <2>3, <2>4
  <2>7. a \in 2..n /\ a \in there
      BY <1>1, <1>8, <2>2, <2>4, <2>5, <2>6
  <2>8. a = b
      BY <2>1, <2>2, <2>5, <2>6, <2>7
  <2>9. data[a] = top[b]
      BY <1>8, <2>2, <2>8
  <2>10. Found(data) = LengthIn(data[a]) /\ Found(top) = LengthIn(top[b])
      BY <1>9, <2>3 DEF here, there, a, b
  <2>11. Found(data) = Found(top)
    <3> HIDE DEF Found
    <3> QED  BY <2>9, <2>10
  <2> HIDE DEF Found
  <2> QED  BY <1>1, <1>2, <1>4, <2>11
<1>10. CASE there = {} /\ here # {}
  <2> DEFINE a == Min(here)
  <2>1. a \in here
      BY <1>2, <1>5, <1>10
  <2>2. a \in 2..came /\ data[a] \in Lengths
      BY <1>2, <2>1
  <2>3. a > n
    <3> HIDE DEF here, there, a
    <3> QED  BY <1>1, <1>8, <1>10, <2>1, <2>2
  <2> HIDE DEF a
  <2>4. a - n \in 1..(came - n) /\ body[a - n] \in Lengths
      BY <1>1, <1>2, <2>2, <2>3
  <2>5. Found(top) = 0
      BY <1>10
  <2> HIDE DEF Found, here, there
  <2>6. LengthIsIn(body, came - n)
      BY <2>4 DEF LengthIsIn
  <2> QED  BY <1>1, <1>2, <1>4, <2>5, <2>6 DEF n
<1>11. CASE there = {} /\ here = {}
  <2>1. Found(top) = 0 /\ Found(data) = 0
      BY <1>11
  <2> HIDE DEF Found, here, there
  <2> QED  BY <1>1, <1>2, <1>4, <2>1
<1> QED  BY <1>9, <1>10, <1>11

\* The invariant of a connection that reads a request and its answer: once the length
\* is known, what is left is what the head states, less what has come behind it, unless
\* the head states none and the length was read in the body.
Stated == getContentLengthFromData(answer.head)

TextOK ==
    /\ textAt \in {"new", "request", "edited", "beyond", "answer", "over", "overrun"}
    /\ textAt = "new" => leftToDownload = -1
    /\ textAt \in {"request", "edited", "beyond"} =>
         /\ request \in [method : Methods, host : Hosts, path : Paths, came : Nat]
         /\ leftToDownload = -1
    /\ textAt \in {"answer", "over"} =>
         /\ answer \in [head : Seq(AnswerChars), body : Seq(AnswerChars), status : {200, 204, 500}, came : Nat]
         /\ HeadShape(answer.head) /\ answer.came <= Len(answer.head) + Len(answer.body)

LeftInv ==
    textAt = "answer" /\ leftToDownload # -1 =>
      /\ leftToDownload \in Nat \ {0}
      /\ IF Stated # -1 THEN leftToDownload = Len(answer.head) + Stated - answer.came
         ELSE LengthIsIn(answer.body, answer.came - Len(answer.head))

TextInv == TextOK /\ LeftInv /\ RequestIsEdited /\ AnswerIsWhole

\* A piece of the request: nothing is found, or the URL with all that follows from it.
LEMMA RequestPiece ==
    ASSUME TextInv, ReadRequest
    PROVE  TextInv'
<1> DEFINE m == request.method
           h == request.host
           p == request.path
           u == UrlIn(request)
           t == TextOf(request)
<1>1. /\ textAt = "request" /\ m \in Methods /\ h \in Hosts /\ p \in Paths /\ request.came \in Nat
      /\ request \in [method : Methods, host : Hosts, path : Paths, came : Nat] /\ leftToDownload = -1
    BY DEF ReadRequest, TextInv, TextOK
<1>2. PICK came \in (request.came + 1)..Len(t) :
        LET data == SubSeq(t, 1, came)
            asked == getUrlFromData(data)
        IN /\ request' = [request EXCEPT !.came = came]
           /\ \/ asked = << >> /\ buffer' = data /\ UNCHANGED <<textAt, urlOf>>
              \/ /\ asked # << >> /\ urlOf' = <<asked, getHostFromUrl(asked)>>
                 /\ textAt' = IF HasSlash(data) THEN "edited" ELSE "beyond"
                 /\ buffer' = IF HasSlash(data) THEN editRequestToSendToServer(data) ELSE data
    BY DEF ReadRequest
<1> DEFINE data == SubSeq(t, 1, came)
           asked == getUrlFromData(data)
<1>3. UrlShape(u, h, p)
  <2>1. u = Http \o h \o p
      BY DEF UrlIn
  <2> HIDE DEF u, h, p
  <2> QED  BY <1>1, <2>1, UrlIs
<1>4. RequestShape(t, m, u)
  <2>1. t = m \o <<"SP">> \o u \o <<"SP", "v", "/", "1", "LF">> /\ u \in Seq(TextChars)
      BY <1>3 DEF TextOf, UrlShape
  <2> HIDE DEF u, m, t
  <2> QED  BY <1>1, <2>1, RequestIs
<1>5. Len(t) \in Nat /\ came \in Nat /\ came <= Len(t)
  <2>1. Len(t) \in Nat
      BY <1>4, LenProperties DEF RequestShape
  <2> HIDE DEF t
  <2> QED  BY <1>1, <1>2, <2>1
<1>6. /\ request' = [request EXCEPT !.came = came] /\ answer' = answer /\ leftToDownload' = leftToDownload /\ how' = how
      /\ \/ asked = << >> /\ textAt' = textAt
         \/ /\ asked # << >> /\ urlOf' = <<asked, getHostFromUrl(asked)>>
            /\ textAt' = IF HasSlash(data) THEN "edited" ELSE "beyond"
            /\ buffer' = IF HasSlash(data) THEN editRequestToSendToServer(data) ELSE data
    BY <1>2 DEF ReadRequest
<1>7. /\ request' \in [method : Methods, host : Hosts, path : Paths, came : Nat]
      /\ request'.method = m /\ request'.host = h /\ request'.path = p /\ request'.came = came
  <2> HIDE DEF t
  <2> QED  BY <1>1, <1>5, <1>6
<1>8. TextOK' /\ LeftInv' /\ AnswerIsWhole'
  <2>1. textAt' \in {"request", "edited", "beyond"}
      BY <1>1, <1>6
  <2> HIDE DEF data, asked, t, u, m, h, p
  <2> QED  BY <1>1, <1>6, <1>7, <2>1 DEF TextOK, LeftInv, AnswerIsWhole
<1>9. u' = u /\ t' = t
    BY <1>7 DEF UrlIn, TextOf
<1>10. RequestIsEdited'
  <2>1. CASE asked = << >>
      BY <1>1, <1>6, <2>1 DEF RequestIsEdited
  <2>2. CASE asked # << >>
    <3>0. data = SubSeq(t, 1, came) /\ asked = getUrlFromData(data)
        OBVIOUS
    <3>a. u' = UrlIn(request') /\ t' = TextOf(request')
        OBVIOUS
    <3>b. UrlIn(request') = u /\ TextOf(request') = t
        BY <1>9, <3>a
    <3> HIDE DEF data, asked, t, u, m, h, p
    <3>1. Arrived(data, t, came) /\ BlanksAround(data, Len(m), Len(u))
        BY <1>3, <1>4, <1>5, <3>0, ArrivedIs, Zenon
    <3>2. /\ data \in Seq(TextChars) /\ Len(data) = came /\ \A i \in 1..came : data[i] = t[i]
        BY <3>1 DEF Arrived
    <3>3. Len(m) \in Nat /\ Len(u) \in Nat /\ u \in Seq(TextChars)
        BY <1>3, <1>4 DEF RequestShape, UrlShape
    <3>4. /\ PlaceOf({"SP"}, data, 1) = Len(m) + 1 /\ came >= Len(m) + Len(u) + 2
          /\ asked = SubSeq(data, Len(m) + 2, Len(m) + Len(u) + 1)
      <4>1. getUrlFromData(data) # << >>
          BY <2>2, <3>0
      <4>2. /\ PlaceOf({"SP"}, data, 1) = Len(m) + 1 /\ Len(data) >= Len(m) + Len(u) + 2
            /\ getUrlFromData(data) = SubSeq(data, Len(m) + 2, Len(m) + Len(u) + 1)
          BY <3>1, <3>2, <3>3, <4>1, UrlBetween, Zenon
      <4> QED  BY <3>0, <3>2, <4>2
    <3>5. asked = u
      <4> DEFINE a == Len(m)
                 n == Len(u)
      <4>1. a + 2 \in Nat /\ n \in Nat /\ a + 2 >= 1 /\ a + 2 + n - 1 <= Len(data) /\ a + n + 1 = a + 2 + n - 1
          BY <1>5, <3>2, <3>3, <3>4
      <4>2. asked \in Seq(TextChars) /\ IsPiece(asked, data, a + 2, n)
          BY <3>2, <3>4, <4>1, PieceOf
      <4>3. n = Len(u) /\ a = Len(m)
          OBVIOUS
      <4>4. (\A i \in 1..n : t[a + 1 + i] = u[i]) /\ a \in Nat /\ came >= a + n + 2
          BY <1>4, <3>3, <3>4 DEF RequestShape
      <4> HIDE DEF a, n
      <4>5. ASSUME NEW i \in 1..n PROVE asked[i] = u[i]
        <5>a. i \in Nat /\ 1 <= i /\ i <= n /\ n \in Nat /\ a \in Nat
            BY <4>1, <4>4
        <5>b. came \in Nat /\ came >= a + n + 2
            BY <1>5, <4>4
        <5>1. a + 2 + i - 1 = a + 1 + i /\ a + 1 + i \in 1..came
            BY <5>a, <5>b
        <5>2. asked[i] = data[a + 1 + i]
            BY <4>2, <5>1 DEF IsPiece
        <5> QED  BY <3>2, <4>4, <5>1, <5>2
      <4>6. Len(asked) = Len(u)
          BY <4>2, <4>3 DEF IsPiece
      <4> QED  BY <3>3, <4>2, <4>3, <4>5, <4>6, SeqEqual
    <3>6. getHostFromUrl(u) = h
        BY <1>1, <1>3, HostFound
    <3>7. urlOf' = <<UrlIn(request'), request'.host>>
        BY <1>6, <1>7, <2>2, <3>5, <3>6, <3>b
    <3>8. ASSUME p # << >>
          PROVE  /\ textAt' = "edited"
                 /\ buffer' = m \o <<"SP">> \o p \o SubSeq(t, Len(m) + 2 + Len(u), came)
      <4>0. UrlArrived(m, h, p, u, t, came, data)
          BY <1>1, <1>3, <1>4, <1>5, <3>1, <3>4 DEF UrlArrived
      <4>a. HasSlash(data)
          BY <3>8, <4>0, PathAsked
      <4>b. editRequestToSendToServer(data) = AskingFor(p, m, u, t, came)
          BY <3>8, <4>0, PathAsked
      <4>1. /\ HasSlash(data)
            /\ editRequestToSendToServer(data) = m \o <<"SP">> \o p \o SubSeq(t, Len(m) + 2 + Len(u), came)
          BY <4>a, <4>b DEF AskingFor
      <4> QED  BY <1>6, <2>2, <4>1
    <3>9. request'.path # << >> =>
            /\ textAt' = "edited"
            /\ buffer' = request'.method \o <<"SP">> \o request'.path
                 \o SubSeq(TextOf(request'), Len(request'.method) + 2 + Len(UrlIn(request')), request'.came)
        BY <1>7, <3>8, <3>b
    <3> QED  BY <3>7, <3>9 DEF RequestIsEdited
  <2> QED  BY <2>1, <2>2
<1> QED  BY <1>8, <1>10 DEF TextInv

\* What has arrived of the answer.
LEMMA AnswerIs ==
    ASSUME NEW k \in Nat, k <= Len(answer.head) + Len(answer.body),
           answer.head \in Seq(AnswerChars), answer.body \in Seq(AnswerChars)
    PROVE  /\ Len(AnswerText) = Len(answer.head) + Len(answer.body)
           /\ AnswerArrived(SubSeq(AnswerText, 1, k), answer.head, answer.body, k)
<1> DEFINE h == answer.head
           b == answer.body
           t == AnswerText
           data == SubSeq(t, 1, k)
<1>1. h \in Seq(AnswerChars) /\ b \in Seq(AnswerChars) /\ t = h \o b /\ k <= Len(h) + Len(b)
    BY DEF AnswerText
<1>2. data = SubSeq(t, 1, k)
    OBVIOUS
<1> HIDE DEF h, b, t, data
<1>3. Len(h) \in Nat /\ Len(b) \in Nat
    BY <1>1, LenProperties
<1>4. /\ t \in Seq(AnswerChars) /\ Len(t) = Len(h) + Len(b)
      /\ \A i \in 1..Len(h) : t[i] = h[i]
      /\ \A i \in 1..Len(b) : t[Len(h) + i] = b[i]
    BY <1>1, TextsJoined
<1>5. data \in Seq(AnswerChars) /\ IsPiece(data, t, 1, k)
  <2>1. 1 \in Nat /\ 1 >= 1 /\ 1 + k - 1 <= Len(t) /\ k = 1 + k - 1
      BY <1>1, <1>3, <1>4
  <2> QED  BY <1>2, <1>4, <2>1, PieceOf
<1>6. ASSUME NEW i \in 1..k
      PROVE  data[i] = IF i <= Len(h) THEN h[i] ELSE b[i - Len(h)]
  <2>1. data[i] = t[i]
    <3>1. 1 + i - 1 = i
        OBVIOUS
    <3> QED  BY <1>5, <3>1 DEF IsPiece
  <2>2. CASE i <= Len(h)
    <3>1. i \in 1..Len(h)
        BY <1>3, <2>2
    <3> QED  BY <1>4, <2>1, <2>2, <3>1
  <2>3. CASE i > Len(h)
    <3>1. i - Len(h) \in 1..Len(b) /\ Len(h) + (i - Len(h)) = i /\ ~(i <= Len(h))
        BY <1>1, <1>3, <2>3
    <3> QED  BY <1>4, <2>1, <3>1
  <2> QED  BY <1>3, <2>2, <2>3
<1>7. AnswerArrived(data, h, b, k)
    BY <1>5, <1>6 DEF AnswerArrived, IsPiece
<1> QED  BY <1>4, <1>7 DEF h, b, t, data

\* A piece of the answer: what is left follows the length, and the answer is over only
\* when none is.
LEMMA AnswerPiece ==
    ASSUME TextInv, ReadAnswer
    PROVE  TextInv'
<1> DEFINE h == answer.head
           b == answer.body
           n == Len(h)
<1>1. /\ textAt = "answer" /\ h \in Seq(AnswerChars) /\ b \in Seq(AnswerChars)
      /\ answer.status \in {200, 204, 500} /\ answer.came \in Nat /\ HeadShape(h)
      /\ answer \in [head : Seq(AnswerChars), body : Seq(AnswerChars), status : {200, 204, 500}, came : Nat]
      /\ answer.came <= n + Len(b)
    BY DEF ReadAnswer, TextInv, TextOK
<1>2. n \in Nat /\ n >= 5 /\ Len(b) \in Nat
    BY <1>1, LenProperties DEF HeadShape
<1>3. Len(AnswerText) = n + Len(b)
    BY <1>1, AnswerIs
<1>4. PICK came \in (answer.came + 1)..Len(AnswerText) :
        /\ answer' = [answer EXCEPT !.came = came]
        /\ ReadHeaders(came) \/ ReadBody(came - answer.came)
    BY DEF ReadAnswer
<1> DEFINE data == SubSeq(AnswerText, 1, came)
           read == getContentLengthFromData(data)
<1>5. came \in Nat /\ came <= n + Len(b) /\ came > answer.came
    BY <1>1, <1>2, <1>3, <1>4
<1>6. AnswerArrived(data, h, b, came)
    BY <1>1, <1>5, AnswerIs
<1>7. /\ answer' \in [head : Seq(AnswerChars), body : Seq(AnswerChars), status : {200, 204, 500}, came : Nat]
      /\ answer'.head = h /\ answer'.body = b /\ answer'.status = answer.status /\ answer'.came = came
  <2>1. /\ answer \in [head : Seq(AnswerChars), body : Seq(AnswerChars), status : {200, 204, 500}, came : Nat]
        /\ answer' = [answer EXCEPT !.came = came] /\ came \in Nat
      BY <1>1, <1>4, <1>5
  <2> QED  BY <2>1
<1>8. request' = request /\ urlOf' = urlOf
    BY DEF ReadAnswer
<1>9. Stated' = Stated
    BY <1>7 DEF Stated
<1>10. Stated \in {-1, 1, 2}
    BY <1>1, <1>2, LengthFound, AnswerIs DEF Stated
<1>11. leftToDownload # -1 =>
         /\ leftToDownload \in Nat \ {0}
         /\ IF Stated # -1 THEN leftToDownload = n + Stated - answer.came
            ELSE LengthIsIn(b, answer.came - n)
    BY <1>1 DEF TextInv, LeftInv
<1>12. LengthIsIn(b, answer.came - n) => LengthIsIn(b, came - n)
    BY <1>1, <1>2, <1>5 DEF LengthIsIn
<1>13. HeadEnds(data) # {} =>
         /\ came >= n /\ Min(HeadEnds(data)) = n
         /\ read \in {-1, 1, 2}
         /\ read = Stated \/ (Stated = -1 /\ LengthIsIn(b, came - n))
  <2> SUFFICES ASSUME HeadEnds(data) # {}
               PROVE  /\ came >= n /\ Min(HeadEnds(data)) = n
                      /\ read \in {-1, 1, 2}
                      /\ read = Stated \/ (Stated = -1 /\ LengthIsIn(b, came - n))
      OBVIOUS
  <2> HIDE DEF data
  <2>1. came >= n /\ Min(HeadEnds(data)) = n
      BY <1>1, <1>6, EndFound
  <2>2. /\ read \in {-1, 1, 2}
        /\ read = Stated \/ (Stated = -1 /\ LengthIsIn(b, came - n))
      BY <1>1, <1>6, <2>1, LengthFound DEF Stated
  <2> QED  BY <2>1, <2>2
<1>14. /\ textAt' = "over" =>
            /\ how' = "no_payload" => answer.status = 204 /\ Stated = -1
            /\ how' # "no_payload" => how' = "length" /\ IF Stated # -1 THEN came >= n + Stated ELSE LengthIsIn(b, came - n)
       /\ textAt' = "overrun" => came = 1
       /\ textAt' \notin {"over", "overrun"} =>
            /\ textAt' = "answer"
            /\ leftToDownload' # -1 =>
                 /\ leftToDownload' \in Nat \ {0}
                 /\ IF Stated # -1 THEN leftToDownload' = n + Stated - came ELSE LengthIsIn(b, came - n)
  <2>1. CASE ReadHeaders(came)
    <3>1. leftToDownload = -1
        BY <2>1 DEF ReadHeaders
    <3>2. CASE HeadEnds(data) = {} /\ UNCHANGED <<textAt, leftToDownload, how>>
        BY <1>1, <3>1, <3>2
    <3>3. CASE /\ HeadEnds(data) # {} /\ read # -1
               /\ \/ LeftAfter(data) <= 0 /\ TransmissionOver("length")
                  \/ LeftAfter(data) > 0 /\ leftToDownload' = LeftAfter(data) /\ UNCHANGED <<textAt, how>>
      <4>1. LeftAfter(data) = read - came + n
          BY <1>6, <1>13, <3>3 DEF LeftAfter, AnswerArrived
      <4>2. /\ read \in {1, 2}
            /\ read = Stated \/ (Stated = -1 /\ LengthIsIn(b, came - n))
          BY <1>13, <3>3
      <4>3. \/ LeftAfter(data) <= 0 /\ textAt' = "over" /\ how' = "length"
            \/ LeftAfter(data) > 0 /\ leftToDownload' = LeftAfter(data) /\ textAt' = textAt
          BY <3>3 DEF TransmissionOver
      <4>4. textAt = "answer" /\ n \in Nat /\ came \in Nat
          BY <1>1, <1>2, <1>5
      <4> HIDE DEF data, read, n, b
      <4>5. CASE LeftAfter(data) <= 0 /\ textAt' = "over" /\ how' = "length"
          BY <1>10, <4>1, <4>2, <4>4, <4>5
      <4>6. CASE LeftAfter(data) > 0 /\ leftToDownload' = LeftAfter(data) /\ textAt' = textAt
          BY <1>10, <4>1, <4>2, <4>4, <4>6
      <4> QED  BY <4>3, <4>5, <4>6
    <3>4. CASE /\ HeadEnds(data) # {} /\ read = -1
               /\ \/ ~isResponseHasPayload(answer.status) /\ TransmissionOver("no_payload")
                  \/ UNCHANGED <<textAt, leftToDownload, how>>
      <4>1. Stated = -1
          BY <1>13, <3>4
      <4>2. ~isResponseHasPayload(answer.status) => answer.status = 204
        <5> DEFINE s == answer.status
        <5>1. s \in {200, 204, 500}
            BY <1>1
        <5> HIDE DEF s
        <5>2. 200 \notin 100..199 /\ 500 \notin 100..199
            OBVIOUS
        <5>3. ~isResponseHasPayload(s) => s \in {204, 304} \cup (100..199)
            BY DEF isResponseHasPayload
        <5>4. ~isResponseHasPayload(s) => s = 204
            BY <5>1, <5>2, <5>3
        <5> QED  BY <5>4 DEF s
      <4>3. \/ answer.status = 204 /\ textAt' = "over" /\ how' = "no_payload"
            \/ textAt' = textAt /\ leftToDownload' = leftToDownload
          BY <3>4, <4>2 DEF TransmissionOver
      <4> HIDE DEF data, read, n, b
      <4> QED  BY <1>1, <3>1, <4>1, <4>3
    <3>5. CASE came = 1 /\ textAt' = "overrun"
        BY <3>5
    <3> QED  BY <2>1, <3>2, <3>3, <3>4, <3>5 DEF ReadHeaders
  <2>2. CASE ReadBody(came - answer.came)
    <3>1. /\ leftToDownload # -1
          /\ \/ came - answer.came >= leftToDownload /\ textAt' = "over" /\ how' = "length"
             \/ /\ came - answer.came < leftToDownload
                /\ leftToDownload' = leftToDownload - (came - answer.came) /\ textAt' = textAt
        BY <2>2 DEF ReadBody, TransmissionOver
    <3>2. /\ leftToDownload \in Nat \ {0}
          /\ IF Stated # -1 THEN leftToDownload = n + Stated - answer.came
             ELSE LengthIsIn(b, came - n)
        BY <1>11, <1>12, <3>1
    <3> HIDE DEF n, b
    <3>3. CASE came - answer.came >= leftToDownload /\ textAt' = "over" /\ how' = "length"
      <4>1. Stated # -1 => came >= n + Stated
          BY <1>1, <1>2, <1>5, <1>10, <3>2, <3>3
      <4> QED  BY <3>2, <3>3, <4>1
    <3>4. CASE /\ came - answer.came < leftToDownload
               /\ leftToDownload' = leftToDownload - (came - answer.came) /\ textAt' = textAt
      <4>1. leftToDownload' \in Nat \ {0}
        <5> DEFINE d == came - answer.came
        <5>1. d \in Nat
            BY <1>1, <1>5
        <5>2. d < leftToDownload /\ leftToDownload' = leftToDownload - d
            BY <3>4
        <5> HIDE DEF d
        <5> QED  BY <3>2, <5>1, <5>2
      <4>2. ASSUME Stated # -1 PROVE leftToDownload' = n + Stated - came
        <5> DEFINE st == Stated
                   was == answer.came
                   l == leftToDownload
        <5>1. st \in Int /\ was \in Int /\ came \in Int /\ n \in Int
            BY <1>1, <1>2, <1>5, <1>10
        <5>2. l = n + st - was
            BY <3>2, <4>2
        <5>3. leftToDownload' = l - (came - was)
            BY <3>4
        <5> HIDE DEF st, was, l
        <5>4. leftToDownload' = n + st - came
            BY <5>1, <5>2, <5>3
        <5> QED  BY <5>4 DEF st
      <4> QED  BY <1>1, <3>2, <3>4, <4>1, <4>2
    <3> QED  BY <3>1, <3>3, <3>4
  <2> QED  BY <1>4, <2>1, <2>2
<1>15. textAt' \in {"answer", "over", "overrun"}
    BY <1>14
<1>16. TextOK'
    BY <1>1, <1>5, <1>7, <1>15 DEF TextOK
<1>17. LeftInv'
    BY <1>7, <1>9, <1>14, <1>15 DEF LeftInv
<1>18. RequestIsEdited'
    BY <1>15 DEF RequestIsEdited
<1>19. AnswerIsWhole'
    BY <1>7, <1>9, <1>14 DEF AnswerIsWhole, Stated, LengthIsIn
<1> QED  BY <1>16, <1>17, <1>18, <1>19 DEF TextInv

\* Nothing has been asked at the beginning.
LEMMA TextStarts ==
    ASSUME TextInit
    PROVE  TextInv
BY DEF TextInit, TextInv, TextOK, LeftInv, RequestIsEdited, AnswerIsWhole

\* A new request.
LEMMA RequestStarts ==
    ASSUME TextInv, NewRequest
    PROVE  TextInv'
<1>1. PICK m \in Methods, h \in Hosts, p \in Paths :
        request' = [method |-> m, host |-> h, path |-> p, came |-> 0]
    BY DEF NewRequest
<1>2. request' \in [method : Methods, host : Hosts, path : Paths, came : Nat]
    BY <1>1
<1>3. textAt' = "request" /\ leftToDownload' = -1
    BY DEF NewRequest, TextInv, TextOK
<1> QED  BY <1>2, <1>3 DEF TextInv, TextOK, LeftInv, RequestIsEdited, AnswerIsWhole

\* A new answer.
LEMMA AnswerStarts ==
    ASSUME TextInv, NewAnswer
    PROVE  TextInv'
<1>1. PICK code \in {200, 204, 500}, n \in 0..MaxHeaders, m \in 0..MaxBody :
        \E lines \in [1..n -> Lengths \cup {"x"}], body \in [1..m -> {"x", "LF", "length1"}] :
            answer' = [head |-> HeadOf(lines), body |-> body, status |-> code, came |-> 0]
    BY DEF NewAnswer
<1>2. PICK lines \in [1..n -> Lengths \cup {"x"}], body \in [1..m -> {"x", "LF", "length1"}] :
        answer' = [head |-> HeadOf(lines), body |-> body, status |-> code, came |-> 0]
    BY <1>1
<1>3. MaxHeaders \in Nat /\ MaxBody \in Nat
    BY TextAssumption
<1>4. lines \in Seq(Lengths \cup {"x"})
    BY <1>3
<1>5. body \in Seq(AnswerChars)
  <2>1. body \in [1..m -> AnswerChars]
      BY DEF AnswerChars, Lengths
  <2> QED  BY <1>3, <2>1
<1>6. HeadShape(HeadOf(lines))
    BY <1>4, HeadIs
<1>7. HeadOf(lines) \in Seq(AnswerChars)
    BY <1>6 DEF HeadShape
<1>8. Len(HeadOf(lines)) \in Nat /\ Len(body) \in Nat
    BY <1>5, <1>7, LenProperties
<1>9. textAt' = "answer" /\ leftToDownload' = -1
    BY DEF NewAnswer, TextInv, TextOK
<1> DEFINE top == HeadOf(lines)
<1> HIDE DEF top
<1>10. /\ answer' = [head |-> top, body |-> body, status |-> code, came |-> 0]
       /\ top \in Seq(AnswerChars) /\ HeadShape(top) /\ 0 <= Len(top) + Len(body)
    BY <1>2, <1>6, <1>7, <1>8 DEF top
<1>11. TextOK'
    BY <1>5, <1>9, <1>10 DEF TextOK
<1> QED  BY <1>9, <1>11 DEF TextInv, LeftInv, RequestIsEdited, AnswerIsWhole

\* The server closes.
LEMMA AnswerStops ==
    ASSUME TextInv, AnswerEnds
    PROVE  TextInv'
<1>1. /\ textAt = "answer" /\ textAt' = "over" /\ how' = "closed" /\ answer' = answer
      /\ answer.came = Len(AnswerText)
    BY DEF AnswerEnds, TransmissionOver
<1>2. TextOK'
    BY <1>1 DEF TextInv, TextOK
<1>3. AnswerText' = AnswerText
    BY <1>1 DEF AnswerText
<1>4. AnswerIsWhole'
    BY <1>1, <1>3 DEF AnswerIsWhole
<1> QED  BY <1>1, <1>2, <1>4 DEF TextInv, LeftInv, RequestIsEdited

\* Nothing happens.
LEMMA TextStands ==
    ASSUME TextInv, UNCHANGED textVars
    PROVE  TextInv'
<1>1. /\ textAt' = textAt /\ request' = request /\ buffer' = buffer /\ urlOf' = urlOf
      /\ answer' = answer /\ leftToDownload' = leftToDownload /\ how' = how
    BY DEF textVars
<1>2. TextOK'
  <2>1. TextOK
      BY DEF TextInv
  <2>2. CASE textAt \in {"answer", "over"}
    <3>1. textAt' = textAt /\ answer' = answer
        BY <1>1
    <3>2. /\ answer \in [head : Seq(AnswerChars), body : Seq(AnswerChars), status : {200, 204, 500}, came : Nat]
          /\ HeadShape(answer.head) /\ answer.came <= Len(answer.head) + Len(answer.body)
        BY <2>1, <2>2 DEF TextOK
    <3>3. textAt' \in {"answer", "over"}
        BY <2>2, <3>1
    <3>4. /\ answer' \in [head : Seq(AnswerChars), body : Seq(AnswerChars), status : {200, 204, 500}, came : Nat]
          /\ HeadShape(answer'.head) /\ answer'.came <= Len(answer'.head) + Len(answer'.body)
        BY <3>1, <3>2
    <3> QED  BY <3>3, <3>4 DEF TextOK
  <2>3. CASE textAt \in {"request", "edited", "beyond"}
    <3>1. textAt' = textAt /\ request' = request /\ leftToDownload' = leftToDownload
        BY <1>1
    <3>2. /\ request \in [method : Methods, host : Hosts, path : Paths, came : Nat]
          /\ leftToDownload = -1
        BY <2>1, <2>3 DEF TextOK
    <3>3. textAt' \in {"request", "edited", "beyond"}
        BY <2>3, <3>1
    <3>4. /\ request' \in [method : Methods, host : Hosts, path : Paths, came : Nat]
          /\ leftToDownload' = -1
        BY <3>1, <3>2
    <3> QED  BY <3>3, <3>4 DEF TextOK
  <2>5. CASE textAt = "new"
    <3>1. textAt' = textAt /\ leftToDownload' = leftToDownload
        BY <1>1
    <3> QED  BY <2>1, <2>5, <3>1 DEF TextOK
  <2>6. CASE textAt = "overrun"
      BY <1>1, <2>6 DEF TextOK
  <2>4. textAt \in {"answer", "over", "overrun", "new", "request", "edited", "beyond"}
      BY <2>1 DEF TextOK
  <2> QED  BY <2>2, <2>3, <2>4, <2>5, <2>6
<1>5. Stated' = Stated
    BY <1>1 DEF Stated
<1>6. LeftInv'
    BY <1>1, <1>5 DEF TextInv, LeftInv
<1>3. RequestIsEdited'
    BY <1>1 DEF TextInv, RequestIsEdited, UrlIn, TextOf
<1>4. AnswerIsWhole'
    BY <1>1 DEF TextInv, AnswerIsWhole, AnswerText
<1> QED  BY <1>2, <1>3, <1>4, <1>6 DEF TextInv

\* Every step keeps the invariant.
LEMMA TextInvariant ==
    ASSUME TextInv, [TextNext]_textVars
    PROVE  TextInv'
<1>1. CASE NewRequest BY <1>1, RequestStarts
<1>2. CASE ReadRequest BY <1>2, RequestPiece
<1>3. CASE NewAnswer BY <1>3, AnswerStarts
<1>4. CASE ReadAnswer BY <1>4, AnswerPiece
<1>5. CASE AnswerEnds BY <1>5, AnswerStops
<1>6. CASE UNCHANGED textVars BY <1>6, TextStands
<1> QED  BY <1>1, <1>2, <1>3, <1>4, <1>5, <1>6 DEF TextNext

\* However a request is cut into pieces, the URL and host that are found are those the
\* client asked for, and what is sent on asks for the path (gettingRequest,
\* editRequestToSendToServer).
THEOREM RequestsEdited == TextSpec => []RequestIsEdited
<1>1. TextInit => TextInv
    BY TextStarts
<1>2. TextInv /\ [TextNext]_textVars => TextInv'
    BY TextInvariant
<1>3. TextInv => RequestIsEdited
    BY DEF TextInv
<1> QED  BY <1>1, <1>2, <1>3, PTL DEF TextSpec

\* However an answer is cut, one with a length is not over before all of it has been
\* passed on (forwardingResponse).
THEOREM AnswersWhole == TextSpec => []AnswerIsWhole
<1>1. TextInit => TextInv
    BY TextStarts
<1>2. TextInv /\ [TextNext]_textVars => TextInv'
    BY TextInvariant
<1>3. TextInv => AnswerIsWhole
    BY DEF TextInv
<1> QED  BY <1>1, <1>2, <1>3, PTL DEF TextSpec
=============================================================================
