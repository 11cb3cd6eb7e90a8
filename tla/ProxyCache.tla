----------------------------- MODULE ProxyCache -----------------------------
(***************************************************************************)
(* http_proxy: the connection threads and the cache entries they share.    *)
(* Each thread serves one client; all clients ask for one URL, whose entry *)
(* is downloaded by the thread that finds none, read by threads that find  *)
(* it VALID, and followed by "waiters" that find it DOWNLOADING.  Most of  *)
(* this happens outside cacheLock: a step reads or writes shared memory    *)
(* once, except under the lock.                                            *)
(*                                                                         *)
(* An entry is named by the thread that allocated it.  A response is its   *)
(* number of pieces (of WRITE_BY bytes).  A use of an entry that was freed,*)
(* of a null or uninitialised pointer, or of data that is being moved is   *)
(* undefined: the process is then "broken" and nothing is said of it.      *)
(*                                                                         *)
(* Two lines that look like a forgotten experiment make main exit before   *)
(* it listens (main.c:73-74); the model is of the server behind them.      *)
(***************************************************************************)
EXTENDS Integers, Sequences, FiniteSets

CONSTANTS MaxConns,     \* bound: connections main accepts, numbered in that order
          MaxPieces,    \* bound: pieces of a response
          MaxFaults,    \* bound: clients that leave or stop reading, other requests,
                      \* failures of malloc and of poll
          NONE, WILD    \* a null pointer, and one that never pointed to an entry

Conns == 1..MaxConns

ASSUME ProxyAssumption ==
    /\ MaxConns \in Nat /\ MaxPieces \in Nat /\ MaxFaults \in Nat
    /\ NONE # WILD /\ NONE \notin Conns /\ WILD \notin Conns

VARIABLES
    process,        \* "running", "exited", or "broken": undefined from here on
    cached,         \* the entry the table has for the URL
    allocated,      \* the entries that were allocated and not freed
    entryStatus, dataCount, waitersCount,   \* the entries' fields
    ready,          \* pieces of the entry's data that are in place
    pc,             \* where each thread is
    gone,           \* the clients that have closed their connection
    deaf,           \* the clients that stay, but have stopped reading
    mute,           \* the threads whose clientSocket is -1
    failedAt,       \* history: where a thread was whose poll failed
    cacheEntry,     \* connection->cacheEntry
    found,          \* the local variable entry of gettingRequest
    head, left,     \* the kind of response, and pieces of it still to come
    received,       \* pieces the server has sent
    written,        \* last_size of a waiter, cacheBytesWritten of a reader
    got,            \* the pieces each client was given from the cache
    risks,          \* history: what has happened that may lead to undefined behaviour
    faults          \* how many there have been

entryVars == <<cached, allocated, entryStatus, dataCount, waitersCount, ready>>
responseVars == <<head, left, received>>
clientVars == <<gone, deaf, mute, failedAt>>
servedVars == <<written, got>>
vars == <<process, entryVars, pc, clientVars, cacheEntry, found, responseVars,
          servedVars, risks, faults>>

Init ==
    /\ process = "running"
    /\ cached = NONE /\ allocated = {}
    /\ entryStatus = [e \in Conns |-> "ES_DOWNLOADING"]
    /\ dataCount = [e \in Conns |-> 0]
    /\ waitersCount = [e \in Conns |-> 0]
    /\ ready = [e \in Conns |-> 0]
    /\ pc = [c \in Conns |-> "accept"]
    /\ gone = {} /\ deaf = {} /\ mute = {}
    /\ failedAt = [c \in Conns |-> "none"]
    /\ cacheEntry = [c \in Conns |-> NONE]
    /\ found = [c \in Conns |-> NONE]
    /\ head = [c \in Conns |-> "none"]
    /\ left = [c \in Conns |-> 0]
    /\ received = [c \in Conns |-> 0]
    /\ written = [c \in Conns |-> 0]
    /\ got = [c \in Conns |-> << >>]
    /\ risks = {} /\ faults = 0

-----------------------------------------------------------------------------
Runs(c, place) == process = "running" /\ pc[c] = place
Goto(c, to) == pc' = [pc EXCEPT ![c] = to]
Mark(e, st) == entryStatus' = [entryStatus EXCEPT ![e] = st]

\* A status assignment behind "if (connection->cacheEntry != NULL)".
MarkIfAny(e, st) ==
    IF e = NONE THEN UNCHANGED entryStatus ELSE e \in allocated /\ Mark(e, st)

\* A thread that has a request to serve.
Serving(c) == pc[c] \notin {"accept", "getting", "done"}
Following == {"follow", "spin", "send", "skip", "rest", "leave"}

\* There is no POLLOUT for a client that does not read, and a write to it sleeps.
Blocked(c) == c \in deaf \ gone

-----------------------------------------------------------------------------
(* Seeded faults: the run is repeated with each in the place of the action   *)
(* it is named after.                                                       *)

\* The entry freed where the code says "may be free", but not taken out.
GiveUp_Free(c) ==
    /\ Runs(c, "giveUp")
    /\ allocated' = allocated \ {cacheEntry[c]}
    /\ cacheEntry' = [cacheEntry EXCEPT ![c] = NONE]
    /\ Goto(c, "exit")
    /\ UNCHANGED <<process, cached, entryStatus, dataCount, waitersCount, ready,
                   clientVars, found, responseVars, servedVars, risks, faults>>

\* The waiter's decrement forgotten on the way out.
Leave_Uncounted(c) ==
    /\ Runs(c, "leave")
    /\ Goto(c, "exit")
    /\ UNCHANGED <<process, entryVars, clientVars, cacheEntry, found,
                   responseVars, servedVars, risks, faults>>

\* last_size left as it was.
Skip_Forgotten(c) ==
    /\ Runs(c, "skip")
    /\ Goto(c, "spin")
    /\ UNCHANGED <<process, entryVars, clientVars, cacheEntry, found,
                   responseVars, servedVars, risks, faults>>

\* No mark on the way out of a download that failed.
GiveUp_Unmarked(c) ==
    /\ Runs(c, "giveUp")
    /\ cacheEntry' = [cacheEntry EXCEPT ![c] = NONE]
    /\ Goto(c, "exit")
    /\ UNCHANGED <<process, entryVars, clientVars, found, responseVars,
                   servedVars, risks, faults>>

-----------------------------------------------------------------------------
(* main, and the clients. *)

Accept(c) ==
    /\ Runs(c, "accept") /\ \A d \in 1..(c - 1) : pc[d] # "accept"
    /\ Goto(c, "getting")
    /\ UNCHANGED <<process, entryVars, clientVars, cacheEntry, found, responseVars,
                   servedVars, risks, faults>>

\* The client closes; writes to it fail from now on (SIGPIPE is ignored).
Disconnect(c) ==
    /\ process = "running"
    /\ pc[c] \notin {"accept", "done"} /\ c \notin gone
    /\ gone' = gone \cup {c}
    /\ faults < MaxFaults /\ faults' = faults + 1
    /\ UNCHANGED <<process, entryVars, pc, deaf, mute, failedAt, cacheEntry, found,
                   responseVars, servedVars, risks>>

\* The client stays, but does not read any more, and its socket is full.
StopReading(c) ==
    /\ process = "running" /\ Serving(c) /\ c \notin gone \cup deaf
    /\ deaf' = deaf \cup {c}
    /\ faults < MaxFaults /\ faults' = faults + 1
    /\ UNCHANGED <<process, entryVars, pc, gone, mute, failedAt, cacheEntry, found,
                   responseVars, servedVars, risks>>

-----------------------------------------------------------------------------
(* handleConnection: a poll that fails ends the thread wherever it polls. *)

Polling == {"forwarding", "response", "hit", "follow"}

\* No count is taken back, and nothing is said of what the thread downloads but by
\* thread_exit_handler.
PollFails(c) ==
    /\ process = "running" /\ pc[c] \in Polling
    /\ failedAt' = [failedAt EXCEPT ![c] = pc[c]]
    /\ Goto(c, "exit")
    /\ faults < MaxFaults /\ faults' = faults + 1
    /\ UNCHANGED <<process, entryVars, gone, deaf, mute, cacheEntry, found,
                   responseVars, servedVars, risks>>

-----------------------------------------------------------------------------
(* gettingRequest. *)

\* The thread ends with the cacheEntry it was born with.  malloc does not clear a
\* connection, so that may be anything, the pointer of a connection that is over
\* among others; it is read, and chosen, here.
EndUnasked(c) ==
    /\ Runs(c, "getting")
    /\ \E e \in {NONE, WILD} \cup {cacheEntry[d] : d \in {d \in Conns : pc[d] = "done"}} :
         cacheEntry' = [cacheEntry EXCEPT ![c] = e]
    /\ Goto(c, "exit")
    /\ risks' = risks \cup {"closedEarly"}
    /\ UNCHANGED <<process, entryVars, clientVars, found, responseVars, servedVars>>

\* POLLHUP, or nothing to read ...
ClientClosed(c) == c \in gone /\ EndUnasked(c) /\ UNCHANGED faults

\* ... or a poll that fails.
PollFailsEarly(c) == EndUnasked(c) /\ faults < MaxFaults /\ faults' = faults + 1

\* A GET or HEAD request is looked up, any other forwarded only.
GetRequest(c) ==
    /\ Runs(c, "getting") /\ c \notin gone
    /\ found' = [found EXCEPT ![c] = cached]
    /\ Goto(c, IF cached = NONE THEN "insert" ELSE "testInvalid")
    /\ risks' = risks \cup {r \in {"overlap"} : \E d \in Conns : Serving(d)}
    /\ UNCHANGED <<process, entryVars, clientVars, cacheEntry, responseVars, servedVars, faults>>

GetOtherRequest(c) ==
    /\ Runs(c, "getting") /\ c \notin gone
    /\ cacheEntry' = [cacheEntry EXCEPT ![c] = NONE]
    /\ Goto(c, "connect")
    /\ risks' = risks \cup {"otherMethod"}
    /\ faults < MaxFaults /\ faults' = faults + 1
    /\ UNCHANGED <<process, entryVars, clientVars, found, responseVars, servedVars>>

\* The first test of the status, outside the lock.
TestInvalid(c) ==
    /\ Runs(c, "testInvalid") /\ found[c] \in allocated
    /\ Goto(c, IF entryStatus[found[c]] = "ES_INVALID" THEN "delete" ELSE "testValid")
    /\ UNCHANGED <<process, entryVars, clientVars, cacheEntry, found, responseVars,
                   servedVars, risks, faults>>

\* ht_delete takes out and frees what the table has by now; with nothing there
\* it dereferences a null pointer unless the bucket holds another URL.
Delete(c) ==
    /\ Runs(c, "delete")
    /\ allocated' = allocated \ {cached}
    /\ cached' = NONE
    /\ process' \in IF cached = NONE THEN {"running", "broken"} ELSE {"running"}
    /\ Goto(c, "insert")
    /\ UNCHANGED <<entryStatus, dataCount, waitersCount, ready, clientVars,
                   cacheEntry, found, responseVars, servedVars, risks, faults>>

\* The second test, ...
TestValid(c) ==
    /\ Runs(c, "testValid") /\ found[c] \in allocated
    /\ IF entryStatus[found[c]] = "ES_VALID"
       THEN cacheEntry' = [cacheEntry EXCEPT ![c] = found[c]] /\ Goto(c, "hit")
       ELSE UNCHANGED cacheEntry /\ Goto(c, "testDownloading")
    /\ UNCHANGED <<process, entryVars, clientVars, found, responseVars, servedVars, risks, faults>>

\* ... and the third: if the download ended in between, none of the three holds
\* and the thread goes back to wait for a request it already has.
TestDownloading(c) ==
    /\ Runs(c, "testDownloading") /\ found[c] \in allocated
    /\ IF entryStatus[found[c]] = "ES_DOWNLOADING"
       THEN cacheEntry' = [cacheEntry EXCEPT ![c] = found[c]] /\ Goto(c, "count")
       ELSE UNCHANGED cacheEntry /\ Goto(c, "getting")
    /\ UNCHANGED <<process, entryVars, clientVars, found, responseVars, servedVars, risks, faults>>

CountWaiter(c) ==
    /\ Runs(c, "count") /\ cacheEntry[c] \in allocated
    /\ waitersCount' = [waitersCount EXCEPT ![cacheEntry[c]] = @ + 1]
    /\ Goto(c, "follow")
    /\ UNCHANGED <<process, cached, allocated, entryStatus, dataCount, ready,
                   clientVars, cacheEntry, found, responseVars, servedVars, risks, faults>>

\* A new entry; ht_set frees the one another thread may have put there.
Insert(c) ==
    /\ Runs(c, "insert")
    /\ allocated' = (allocated \ {cached}) \cup {c}
    /\ cached' = c
    /\ cacheEntry' = [cacheEntry EXCEPT ![c] = c]
    /\ Goto(c, "connect")
    /\ UNCHANGED <<process, entryStatus, dataCount, waitersCount, ready, clientVars,
                   found, responseVars, servedVars, risks, faults>>

\* malloc fails: the response is forwarded only.
InsertFails(c) ==
    /\ Runs(c, "insert")
    /\ cacheEntry' = [cacheEntry EXCEPT ![c] = NONE]
    /\ Goto(c, "connect")
    /\ risks' = risks \cup {"outOfMemory"}
    /\ faults < MaxFaults /\ faults' = faults + 1
    /\ UNCHANGED <<process, entryVars, clientVars, found, responseVars, servedVars>>

\* initServerSocketToUrl, by the url in the entry; a failure ends the process.
\* The request is then written: it is complete, or its rest to be forwarded.
Connect(c) ==
    /\ Runs(c, "connect") /\ cacheEntry[c] \in allocated \cup {NONE}
    /\ \/ UNCHANGED process /\ \E to \in {"response", "forwarding"} : Goto(c, to)
       \/ process' = "exited" /\ UNCHANGED pc
    /\ UNCHANGED <<entryVars, clientVars, cacheEntry, found, responseVars, servedVars, risks, faults>>

\* The client sends the rest of its request, in a piece of three bytes or more.
ForwardRequest(c) ==
    /\ Runs(c, "forwarding") /\ c \notin gone
    /\ Goto(c, "response")
    /\ UNCHANGED <<process, entryVars, clientVars, cacheEntry, found, responseVars,
                   servedVars, risks, faults>>

\* A shorter piece, or none and for ever from a client that has closed: the test
\* for the end of the request looks at what lies in front of the buffer.
ForwardNothing(c) ==
    /\ Runs(c, "forwarding")
    /\ \/ Goto(c, "response") /\ UNCHANGED <<process, risks>>
       \/ /\ process' = "broken" /\ UNCHANGED pc
          /\ risks' = risks \cup {"shortRequest"}
    /\ UNCHANGED <<entryVars, clientVars, cacheEntry, found, responseVars,
                   servedVars, faults>>

-----------------------------------------------------------------------------
(* forwardingResponse: it is called when the client can be written to, or is   *)
(* known to be gone, whoever else waits for the data.                          *)

\* The server has closed, with the response complete or not.
EndOfResponse(c) ==
    /\ Runs(c, "response") /\ ~Blocked(c)
    /\ MarkIfAny(cacheEntry[c], "ES_VALID")
    /\ Goto(c, "exit")
    /\ UNCHANGED <<process, cached, allocated, dataCount, waitersCount, ready,
                   clientVars, cacheEntry, found, responseVars, servedVars, risks, faults>>

\* A piece of the response, forwarded to the client and, if there is an entry, to
\* be stored: with neither a client nor waiters the download is given up, else
\* dataCount grows first ...
ReadResponse(c) ==
    LET e == cacheEntry[c]
        unheard == mute \cup (gone \cap {c})
    IN  /\ Runs(c, "response") /\ ~Blocked(c) /\ received[c] < MaxPieces
        /\ e \in allocated \cup {NONE}
        /\ received' = [received EXCEPT ![c] = @ + 1]
        /\ mute' = unheard
        /\ \/ /\ e = NONE
              /\ Goto(c, "parse") /\ UNCHANGED dataCount
           \/ /\ e # NONE /\ waitersCount[e] < 1 /\ c \in unheard
              /\ Goto(c, "giveUp") /\ UNCHANGED dataCount
           \/ /\ e # NONE /\ ~(waitersCount[e] < 1 /\ c \in unheard)
              /\ Goto(c, "copy") /\ dataCount' = [dataCount EXCEPT ![e] = @ + 1]
    /\ UNCHANGED <<process, cached, allocated, entryStatus, waitersCount, ready,
                   gone, deaf, failedAt, cacheEntry, found, head, left, servedVars,
                   risks, faults>>

\* ... and the data after it, by realloc and memcpy.
Copy(c) ==
    /\ Runs(c, "copy") /\ cacheEntry[c] \in allocated
    /\ ready' = [ready EXCEPT ![cacheEntry[c]] = dataCount[cacheEntry[c]]]
    /\ Goto(c, "parse")
    /\ UNCHANGED <<process, cached, allocated, entryStatus, dataCount, waitersCount,
                   clientVars, cacheEntry, found, responseVars, servedVars, risks, faults>>

GiveUp(c) ==
    /\ Runs(c, "giveUp") /\ cacheEntry[c] \in allocated
    /\ Mark(cacheEntry[c], "ES_INVALID")
    /\ Goto(c, "exit")
    /\ UNCHANGED <<process, cached, allocated, dataCount, waitersCount, ready,
                   clientVars, cacheEntry, found, responseVars, servedVars, risks, faults>>

\* The headers are not complete yet.  If all there is is one byte, buffer_size - 2
\* wraps, and the search for their end runs out of the buffer.
PartialHeaders(c) ==
    /\ Runs(c, "parse") /\ head[c] = "none"
    /\ \/ Goto(c, "response") /\ UNCHANGED <<process, risks>>
       \/ /\ received[c] = 1
          /\ process' = "broken" /\ UNCHANGED pc
          /\ risks' = risks \cup {"tinyPiece"}
    /\ UNCHANGED <<entryVars, clientVars, cacheEntry, found, responseVars,
                   servedVars, faults>>

\* A piece that leaves n of a known length to come; the last makes the entry valid.
Downloaded(c, n) ==
    /\ head' = [head EXCEPT ![c] = "length"]
    /\ left' = [left EXCEPT ![c] = n]
    /\ IF n = 0
       THEN MarkIfAny(cacheEntry[c], "ES_VALID") /\ Goto(c, "exit")
       ELSE UNCHANGED entryStatus /\ Goto(c, "response")
    /\ UNCHANGED <<process, cached, allocated, dataCount, waitersCount, ready,
                   clientVars, cacheEntry, found, received, servedVars, risks, faults>>

\* Headers with Content-Length and code 200, and the pieces after them.
SizedResponse(c) ==
    /\ Runs(c, "parse") /\ head[c] = "none"
    /\ \E n \in 0..(MaxPieces - received[c]) : Downloaded(c, n)

NextPiece(c) ==
    /\ Runs(c, "parse") /\ head[c] = "length"
    /\ Downloaded(c, left[c] - 1)

\* Content-Length and another code: the entry is given up, the client served on.
ErrorResponse(c) ==
    /\ Runs(c, "parse") /\ head[c] = "none"
    /\ cacheEntry[c] \in allocated
    /\ Mark(cacheEntry[c], "ES_INVALID")
    /\ cacheEntry' = [cacheEntry EXCEPT ![c] = NONE]
    /\ \E n \in 0..(MaxPieces - received[c]) :
         /\ head' = [head EXCEPT ![c] = "length"]
         /\ left' = [left EXCEPT ![c] = n]
         /\ Goto(c, IF n = 0 THEN "exit" ELSE "response")
    /\ UNCHANGED <<process, cached, allocated, dataCount, waitersCount, ready,
                   clientVars, found, received, servedVars, risks, faults>>

\* No Content-Length: the entry is marked invalid, with every further piece
\* again, but filled on; without a payload the response is over.
OpenResponse(c) ==
    /\ Runs(c, "parse") /\ head[c] # "length"
    /\ cacheEntry[c] \in allocated
    /\ Mark(cacheEntry[c], "ES_INVALID")
    /\ \/ head' = [head EXCEPT ![c] = "open"] /\ Goto(c, "response")
       \/ head[c] = "none" /\ UNCHANGED head /\ Goto(c, "exit")
    /\ UNCHANGED <<process, cached, allocated, dataCount, waitersCount, ready,
                   clientVars, cacheEntry, found, left, received, servedVars, risks, faults>>

-----------------------------------------------------------------------------
(* respondingFromCache and respondingFromProgessCache. *)

\* One write.  A failed one returns -1, which is added too: the unsigned sum
\* passes dataCount once it is below zero.  At the end a serverSocket is closed
\* that was never opened; it may be anybody's.
Hit(c) ==
    /\ Runs(c, "hit") /\ ~Blocked(c) /\ cacheEntry[c] \in allocated
    /\ LET size == dataCount[cacheEntry[c]]
           sum  == IF c \in gone THEN written[c] - 1
                   ELSE IF written[c] < size THEN written[c] + 1
                   ELSE written[c]
           over == sum < 0 \/ sum >= size
       IN /\ written' = [written EXCEPT ![c] = sum]
          /\ got' = IF sum > written[c] THEN [got EXCEPT ![c] = Append(@, sum)] ELSE got
          /\ Goto(c, IF over THEN "exit" ELSE "hit")
          /\ process' \in IF over /\ \E d \in Conns \ {c} : pc[d] \notin {"accept", "done"}
                          THEN {"running", "broken"} ELSE {"running"}
          /\ risks' = risks \cup {r \in {"strayClose"} : process' = "broken"}
    /\ UNCHANGED <<entryVars, clientVars, cacheEntry, found, responseVars, faults>>

\* The waiter's client can be written to.
Follow(c) ==
    /\ Runs(c, "follow") /\ ~Blocked(c)
    /\ Goto(c, "spin")
    /\ UNCHANGED <<process, entryVars, clientVars, cacheEntry, found, responseVars,
                   servedVars, risks, faults>>

Spin(c) ==
    /\ Runs(c, "spin") /\ cacheEntry[c] \in allocated
    /\ Goto(c, IF entryStatus[cacheEntry[c]] = "ES_DOWNLOADING" THEN "send" ELSE "rest")
    /\ UNCHANGED <<process, entryVars, clientVars, cacheEntry, found, responseVars,
                   servedVars, risks, faults>>

\* What the entry has beyond last_size; the data must not be on the move.
Unsent(c) == {k \in 1..dataCount[cacheEntry[c]] : k > written[c]}
Sendable(c) == Unsent(c) # {} => ready[cacheEntry[c]] = dataCount[cacheEntry[c]]
Sleeps(c) == Unsent(c) # {} /\ Blocked(c)
WriteUnsent(c) ==
    got' = IF c \in gone \/ Unsent(c) = {} THEN got
           ELSE [got EXCEPT ![c] =
                   @ \o [k \in 1..Cardinality(Unsent(c)) |-> written[c] + k]]

Send(c) ==
    /\ Runs(c, "send") /\ cacheEntry[c] \in allocated /\ Sendable(c) /\ ~Sleeps(c)
    /\ WriteUnsent(c)
    /\ Goto(c, IF Unsent(c) # {} /\ c \in gone THEN "leave" ELSE "skip")
    /\ UNCHANGED <<process, entryVars, clientVars, cacheEntry, found, responseVars,
                   written, risks, faults>>

\* dataCount is read anew: what came since the write is never sent.
Skip(c) ==
    /\ Runs(c, "skip") /\ cacheEntry[c] \in allocated
    /\ written' = [written EXCEPT ![c] = dataCount[cacheEntry[c]]]
    /\ Goto(c, "spin")
    /\ UNCHANGED <<process, entryVars, clientVars, cacheEntry, found, responseVars, got, risks, faults>>

SendRest(c) ==
    /\ Runs(c, "rest") /\ cacheEntry[c] \in allocated /\ Sendable(c) /\ ~Sleeps(c)
    /\ WriteUnsent(c)
    /\ Goto(c, "leave")
    /\ UNCHANGED <<process, entryVars, clientVars, cacheEntry, found, responseVars,
                   written, risks, faults>>

Leave(c) ==
    /\ Runs(c, "leave") /\ cacheEntry[c] \in allocated
    /\ waitersCount' = [waitersCount EXCEPT ![cacheEntry[c]] = @ - 1]
    /\ Goto(c, "exit")
    /\ UNCHANGED <<process, cached, allocated, entryStatus, dataCount, ready,
                   clientVars, cacheEntry, found, responseVars, servedVars, risks, faults>>

-----------------------------------------------------------------------------
(* thread_exit_handler, by downloader, reader and waiter alike. *)

\* The connection is freed; what its cacheEntry was may be found there again.
Free(c) ==
    /\ gone' = gone \ {c} /\ deaf' = deaf \ {c} /\ mute' = mute \ {c}
    /\ UNCHANGED failedAt
    /\ found' = [found EXCEPT ![c] = NONE]
    /\ head' = [head EXCEPT ![c] = "none"]
    /\ left' = [left EXCEPT ![c] = 0]
    /\ received' = [received EXCEPT ![c] = 0]
    /\ written' = [written EXCEPT ![c] = 0]
    /\ got' = [got EXCEPT ![c] = << >>]

ThreadExit(c) ==
    /\ Runs(c, "exit") /\ cacheEntry[c] \in allocated \cup {NONE}
    /\ LET e == cacheEntry[c]
           abandoned == e # NONE /\ entryStatus[e] = "ES_DOWNLOADING" /\ waitersCount[e] < 1
       IN IF abandoned
          THEN Goto(c, "invalidate") /\ UNCHANGED <<clientVars, found, responseVars, servedVars>>
          ELSE Goto(c, "done") /\ Free(c)
    /\ UNCHANGED <<process, entryVars, cacheEntry, risks, faults>>

Invalidate(c) ==
    /\ Runs(c, "invalidate") /\ cacheEntry[c] \in allocated
    /\ Mark(cacheEntry[c], "ES_INVALID")
    /\ Goto(c, "done")
    /\ Free(c)
    /\ UNCHANGED <<process, cached, allocated, dataCount, waitersCount, ready,
                   cacheEntry, risks, faults>>

\* The pointer the next step of a thread follows leads nowhere, or to data on
\* the move.
Break(c) ==
    /\ process = "running"
    /\ \/ /\ pc[c] \in {"testInvalid", "testValid", "testDownloading"}
          /\ found[c] \notin allocated
       \/ /\ pc[c] \in {"count", "hit", "copy", "giveUp", "invalidate"} \cup (Following \ {"follow"})
          /\ cacheEntry[c] \notin allocated
       \/ /\ pc[c] \in {"connect", "response", "parse", "exit"}
          /\ cacheEntry[c] \notin allocated \cup {NONE}
       \/ pc[c] = "parse" /\ head[c] # "length" /\ cacheEntry[c] = NONE
       \/ pc[c] \in {"send", "rest"} /\ cacheEntry[c] \in allocated /\ ~Sendable(c)
    /\ process' = "broken"
    /\ UNCHANGED <<entryVars, pc, clientVars, cacheEntry, found, responseVars,
                   servedVars, risks, faults>>

-----------------------------------------------------------------------------
ThreadStep(c) ==
    \/ ClientClosed(c)
    \/ TestInvalid(c) \/ Delete(c) \/ TestValid(c) \/ TestDownloading(c)
    \/ CountWaiter(c) \/ Insert(c) \/ InsertFails(c) \/ Connect(c)
    \/ ForwardRequest(c)
    \/ EndOfResponse(c) \/ ReadResponse(c) \/ Copy(c) \/ GiveUp(c)
    \/ PartialHeaders(c) \/ SizedResponse(c) \/ NextPiece(c) \/ ErrorResponse(c)
    \/ OpenResponse(c)
    \/ Hit(c) \/ Follow(c) \/ Spin(c) \/ Send(c) \/ Skip(c) \/ SendRest(c) \/ Leave(c)
    \/ ThreadExit(c) \/ Invalidate(c) \/ Break(c)

Next == \E c \in Conns :
    \/ Accept(c) \/ Disconnect(c) \/ StopReading(c)
    \/ PollFails(c) \/ PollFailsEarly(c)
    \/ GetRequest(c) \/ GetOtherRequest(c) \/ ForwardNothing(c)
    \/ ThreadStep(c)

Spec == Init /\ [][Next]_vars

\* Threads run, servers answer or close, and a client that stays sends the rest
\* of a request it has begun; nobody has to connect, to ask, to read or to leave.
Fairness == \A c \in Conns : WF_vars(ThreadStep(c))

FairSpec == Spec /\ Fairness

-----------------------------------------------------------------------------
(* Properties. *)

\* Requests for a URL that do not overlap never lead to undefined behaviour, if
\* each client asks, with GET or HEAD, memory suffices, nobody else is connected
\* when a hit ends, no answer begins with a piece of one byte and no request goes on
\* with one of less than three: every race takes two threads that serve at once, and
\* what one leaves behind, pointers to entries too, is safe for the next.
SerialIsSafe == process = "broken" => risks # {}

\* The count of waiters, which keeps a download alive whose own client has left, is
\* that of the threads that follow the entry, and of those whose poll failed before
\* they began to write: on every other way out it is given back.
Counted(c) == pc[c] \in Following \/ failedAt[c] = "follow"
WaitersCounted ==
    process = "running" => \A e \in allocated :
        waitersCount[e] = Cardinality({c \in Conns : cacheEntry[c] = e /\ Counted(c)})

\* The data of a valid entry does not grow any more under those who read it.
FrozenWhenValid ==
    \A e \in allocated : entryStatus[e] = "ES_VALID" => dataCount'[e] = dataCount[e]

\* No client is given a piece twice or out of order.  (A waiter may miss one that
\* arrives between its write and its next look at dataCount.)
NothingTwice ==
    \A c \in Conns : \A j, k \in 1..Len(got[c]) : j < k => got[c][j] < got[c][k]

\* Readers of an entry see its data grow at its end only, and not at all once it is valid.
DataIsStable == [][NothingTwice' /\ FrozenWhenValid]_vars

\* A waiter whose client reads comes to its end, whatever becomes of the download,
\* unless the thread that downloads has lost its poll, has a client that left before
\* its request ended, or one that does not read.
WaitersFreed ==
    \A c \in Conns : pc[c] = "spin" ~>
        \/ pc[c] = "done" \/ process # "running" \/ Blocked(c)
        \/ \E d \in Conns \ {c} :
              /\ cacheEntry[c] = d
              /\ \/ failedAt[d] \in {"forwarding", "response"}
                 \/ pc[d] = "forwarding" /\ d \in gone
                 \/ pc[d] = "response" /\ Blocked(d)
=============================================================================
