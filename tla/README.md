# TLA+ models of os_solutions

The repository holds solutions to exercises of a course on Unix system
programming, numbered as in the course, three network programs, and older copies
of some of them.  The centre of the models is what **several processes or threads do to
shared kernel objects or memory**: the System V semaphore and message queue programs (tasks 30, 31, 32, 34
and 36), and the caching HTTP proxy with its hash table and its threads.  Around it stand the
programs that are alone with the system, a child or a terminal, and the pure algorithms they contain.

    tlc -workers 2 -config MCSemBroadcast.cfg MCSemBroadcast.tla
    tlapm SemBroadcast_proofs.tla     (and the other modules named *_proofs)

`PROJECT.json` lists components, runs, seeded faults, the source lines of every
definition, hazards, findings and theorems.

## 1. Inventory

### 1.1 What is modelled

| Component | State | Operations | Interaction |
|---|---|---|---|
| **36** `src/36/{producer,consumer}.c` | segment, two semaphores with a SEM_UNDO adjustment per process, a queue, `countConsumers` | producer: open by key, count registrations, a round per message, the end, clean-up; consumer: open, register, rounds, exit | one producer, any number of consumers, through the kernel only |
| **34** `src/34/*.c` | segment, two semaphores, ten rounds | write/post/wait, wait/print/post, exit | one producer; the protocol is meant for one consumer, nothing enforces it |
| **31** `src/31/*.c` | a queue; the sender's array of pids | read a line, take registrations, send to each listener, collect answers; register, receive, answer | one queue for registrations, answers and, typed by pid, the lines |
| **32** `src/32/*.c` | a queue; the master's count | register, send, leave; receive any, count, print, remove the queue at zero | any number of senders, one master |
| **30** `src/30/*.c` | a queue | send lines, end, wait for the answer; receive any type, answer the end | one sender; a second receiver may take what is meant for the sender |
| **http_proxy: hash table** `hash_table.c` | array of chains, size, count, destructor | init, get, has, set, delete, resize, traverse, destroy | called by the connection threads; the destructor frees cache entries |
| **http_proxy: connections** `connection.c`, `main.c`, `cache.h` | a thread per client; per URL a cache entry with status, data and count of waiters; one lock, `cacheLock` | get request, connect, forward, store, answer from a complete or a growing entry, leave | threads share entries, most of the time without the lock |
| **http_proxy: texts** `http_utils.c` | a buffer, the length still to come | find URL and host, rewrite the request, find the end of an answer | called for every piece that arrives; the models of threads and of texts meet in kinds of requests and answers |
| **networks/http_server** `my_server.c` | a table of CONNMAX slots, one child per connection | accept, search a slot, fork; receive, send a file, close | the child's table is a copy; the parent keeps every socket |
| **networks/http_client** `urlparser.h`, `http_client.c` | a URL and what is left of it, sockets | parse part by part, try addresses, receive | one user, one server |
| **25, 26** pipes | two ends of a pipe and who holds them | fork, close, read, write, wait | writer, reader and main; in 26 through popen's stream |
| **22** poll | descriptors still open, the round's count | poll, read, close at hang-up | writers of fifos come, put text and go at any time |
| **16, 17, 21, unbuff_test** (and 6, 7) | modes of the terminal, actions of signals | set, use, set back, fail, be signalled | signals at any call; handlers may nest |
| **17** line editor | a line, the row on the screen | type, erase, wrap | what TerminalPrograms calls "edit" |
| **5, 6, 7** lines by number | a table of offsets, a descriptor or mapping | read a number, seek, print, alarm | the alarm's handler moves the same descriptor |
| **19_file_mask** | places in mask and name, places to go back to | one comparison; the search in directories | recursion over a tree of directories |
| **read_line** (4_str_list, 19) | a buffer that doubles | fgets, grow, give up | input with NULs or without an end of line |
| **4_str_list** `dslist.c` | a heap of nodes, heads of lists | append, prepend, insert, remove, reverse, concat, copy, free, look-ups | one caller |
| **9_2_process, 10_exec, 11, 27, 28** | a child, its pipe, its status | popen, fork, exec, wait, pclose | wc, sort, cat or a program from PATH |
| **18_ls, 3_file_access** | what stat, getpwuid, fopen and setuid say | a line per file; two openings | the file system, external |

What is hard about each, and what makes it correct:

- **36.** All consumers drain the same semaphore, so a fast one may take a second
  token of the round; registrations arrive at any time and confirmations carry no
  name; objects are found by key, and a consumer's `IPC_CREAT` can make a second
  set when the producer has removed its own; values and adjustments have limits; every
  exit undoes every `semop` of the process, the last posts too.  Correct means:
  every confirmed consumer gets consecutive texts, each once, then the end; the
  segment is never written under a reader; nobody waits for ever for a
  producer that is gone, but in cases that are named.
- **34.** The consumer sleeps with the text in shared memory; its exit takes its last
  token back.  Correct: each text is printed once, in order, whole.
- **31.** A line is sent to listeners one by one, with sleeps in between, and looks
  atomic only if the set of listeners is fixed first.  Registrations race with
  the end; a restarted sender finds old messages; the queue can be full.  Correct: what
  a receiver prints is gapless, and a registered receiver gets everything up to the
  end.
- **32.** The master stops when its count is zero, which a late registration,
  a killed sender or an old message can upset.  Correct: senders known to the master are
  printed completely and in order; the count is the number of active senders.
- **30.** Receivers take messages of any type, hence each other's answers.
  Taking a line and printing it are two steps, with other receivers in between.
  Correct: no line twice or out of order; the answer means that all lines were taken, and that all
  will be printed; the answer gets through.
- **Hash table.** Chains, a counter and a destructor have to agree over every
  sequence of calls.  Correct: it is a map, and a datum is destroyed exactly when it
  leaves the map.
- **Connections.** Look-up, test and insertion are separate steps; an entry can be freed
  under its users, counted late, given up while somebody starts to wait, or grow
  while it is read; polls fail, and clients leave or stop reading.  Correct: the count of waiters is
  explained on every way out, waiters come to their end unless one of the named things became of their downloader, nobody is given a
  piece twice, complete data stays as it is, undefined behaviour takes an overlap or a named risk.
- **Texts of the proxy.**  Requests and answers are searched again whenever a piece has come, wherever it was cut.
  Correct: the server is asked for the URL's path, an answer is not over too early, and the search for the end of
  its headers stays in the buffer, but for an answer whose first piece is one byte.
- **http_server.**  Nothing clears the parent's slots.  Correct: those who fit are served and their
  connections end; the model also shows that no more than CONNMAX ever are.
- **http_client.**  Every part of a URL ends at delimiters of its own.  Correct: the parts of a URL that is accepted are all of it, in their
  places, with the authority of RFC 3986 where a slash ends it.  Which URLs are refused is modelled, not judged.
- **25, 26.**  An end held open too long keeps a reader waiting, one closed early kills the writer; success
  and failure of three processes have to become one status.  Correct: success means that all was printed; all end.
- **22.**  poll's answer is old when it is used, and a new writer may have come since; hang-up and text come together.  Correct: text is lost only
  behind a hang-up that poll saw, and only so much; the program ends.
- **Terminal programs.**  Any call may fail, a signal may come at any of them.  Correct: the modes are those
  from before whenever the program ends of itself.
- **5, 6, 7, 17, 19, read_line.**  Boundaries: a full row, a line that ends with the buffer, a star behind a
  star, the alarm between a test and a read.  Correct: compared with what the text itself says.
- **4_str_list.**  Two directions, two ends and a counter have to agree after every sequence of calls.  Correct: the list
  implements a sequence; three calls are known to break it.
- **Child programs.**  A child that cannot start, dies or is never waited for.  Correct: what is told of it is
  true; nobody waits for ever.

### 1.2 What is not modelled, and why

| Part | Why |
|---|---|
| `http_proxy/address_utils.c`, coloured log, `cache.c`, `tests.c` | resolver and socket calls in a row, wording; `cache.c` is an emptied stub that nothing calls |
| `http_server`: texts of headers, `get_mime_type` | wording |
| `http_client`: wording of the request, malloc failures, length of the URL (scanf does not limit it) | wording; undefined behaviour without a bound to state |
| `2_time` | putenv, time and ctime one after the other: no state of its own |
| `From Solaris VM/` | copies, most of them identical or reworded.  Variants that behave differently and are modelled are named with their programs: `21` with sigset, `6`, `7` with scanf or without ISIG, two older `25`, `9_fork`, `11` with O_CLOEXEC, `18_ls`.  Not modelled: the producer of 36 that sleeps in msgrcv while its count is 0 (`Documents/36`), the sender of 31 that reads with read, the receiver of 30 that goes on after an empty message, the editor's project templates |
| `manual` | course notes |

Inside modelled parts: a restart of 36's producer on what a killed one left (`producer.c:149`; the values left behind
are unbounded in kind, and the proofs start from fresh objects); 31 with more listeners than its array's first
block holds (`send.c:47`, undefined behaviour); widths, wording and layout of everything printed.

## 2. Modules

| Module | What it is |
|---|---|
| `SysVSem` | one `semop` with SEM_UNDO: value, adjustment, limits, undo at exit (external: the kernel) |
| `SysVQueue` | a message queue: first message of a type, room (external: the kernel) |
| `SemBroadcast` | task 36, EXTENDS `SysVSem`; holds the inductive invariant |
| `LockstepBroadcast` | what 36 promises: a broadcast in rounds with seats |
| `SemBroadcast_proofs` | the theorems about `SemBroadcast` |
| `SemHandoff` | task 34, EXTENDS `SysVSem` |
| `SemHandoff_proofs`, `QueueBroadcast_proofs`, `QueueMaster_proofs`, `QueueAnswer_proofs` | the invariants and theorems about those modules |
| `HttpProxy_proofs` | the theorems about `ProxyCache` and `HttpText` |
| `Containers_proofs` | the theorems about the containers `HashTable` and `StrList` (EXTENDS `MCContainers`) |
| `Programs_proofs` | the theorems about `HttpServer`, `PollFiles`, `ReadLine`, `LineEditor`, `TerminalPrograms`, `Pipes`, `FileMask`, `LinesByNumber`, `FilePrograms`, `ChildPrograms` and `HttpClient`, which share no variables |
| `QueueBroadcast` | task 31, EXTENDS `SysVQueue` |
| `AtomicMulticast` | what 31 promises: a line reaches all members in one step; an inbox is a set, and the least of it is taken first |
| `QueueMaster`, `QueueAnswer` | tasks 32 and 30, EXTEND `SysVQueue` |
| `HashTable` | `hash_table.c`, one action per function that changes the table |
| `KeyValueStore` | what the table keeps to: a map and its destroyed data |
| `ProxyCache` | the connection threads and the cache entries they share |
| `HttpText` | `http_utils.c` with its callers: requests and answers cut anywhere |
| `HttpServer` | the accept loop, its table, the children |
| `HttpClient` | `parse_url`, the loops over addresses and URLs |
| `Pipes` | 25, two older versions of it, and 26 |
| `PollFiles` | 22 |
| `TerminalPrograms` | 16, 17, 21, unbuff_test, 6, 7: calls in order, failures, signals, handlers |
| `LineEditor` | the loop over keys of 17 |
| `LinesByNumber` | 5, 6, 7: the table, the numbers, the line, the alarm |
| `FileMask` | 19: `pattern_match` step by step, `findFiles` on a tree |
| `ReadLine` | `read_line` |
| `StrList` | `dslist.c` on a heap of nodes |
| `TextLists` | what the lists keep to: a sequence each and an operator per call, until a call breaks one |
| `ChildPrograms` | 27, 28, 9_2_process, 9_fork, 10_exec, 11 |
| `FilePrograms` | 18_ls, its older version, 3_file_access |
| `MCContainers`, `MCPrograms`, `MCProxyCache` | side-by-side compositions: behaviours of one component at a time |
| other `MC*` | instances and symmetry sets for TLC; the `.cfg` files give the constants |

Modules do not use each other beyond this: programs of different tasks never run on the same
objects (the tasks that use `getuid()` as key are exercises on their own).  `MCContainers`, `MCPrograms` and `MCProxyCache` put components that share nothing
**side by side**: a behaviour of such a run is a behaviour of exactly one of them, so
a property of one says of it what it would say in a run of its own.  The proxy's threads
see the table as one variable, the entry of the URL; `HashTable` justifies
that the table is a map as long as it is called by one thread at a time, which
`cacheLock` ensures for `ht_set` and `ht_delete`, and not for `ht_get`; `HttpText` justifies the
kinds of requests and answers they tell apart.  `LineEditor` and `LinesByNumber` are what happens in the
calls `"edit"` and `"lines"` of `TerminalPrograms`.

### 2.1 Conventions

- **A place per blocking call.**  A process or thread has a program counter whose values
  are the places where others can get a word in: system calls, and in the proxy every access to shared
  memory outside the lock.  Local computation belongs to the step
  before or after it; printing and logging are left out, except for the texts that were printed.
- **Data.**  Texts, lines and pieces of a response are their numbers.  A
  message is a record with its type; 36's registrations are the number of them in the
  queue, since they carry nothing.  Process ids are the processes.
- **Failures** are disjuncts or actions of their own: identifiers run out, the queue or the set is removed
  under a sleeping caller, a limit is met, malloc fails, a client leaves, a
  process is killed.
- **Undefined behaviour** (`ProxyCache`): the following of a null, freed or uninitialised pointer,
  and reading data that is being moved, is the step `Break` to `process = "broken"`.
  The two places where the code itself reads in front of or behind a buffer (`connection.c:430`, `:527`) may break or go on.
  An uninitialised `cacheEntry` is chosen among NONE, WILD and the pointers
  freed connections have left.  The step from `Delete` on an empty bucket may
  go either way.
- **Seeded faults.**  Operators such as `WaitReading_One` are the action they are named after with a
  plausible slip.  Every property fails with one of them in place of the action.
- **Properties in parts.**  Where a property is a conjunction, each conjunct is an operator with a comment of its own, and the
  property's name says what they mean together (`LineIsRight`, `ChildIsTold`, `FilesAreTold`, `ChainsAreSound`, `ListenersServed`, `EverybodyEnds`).

### 2.2 Where model and code meet

`SemBroadcast`: `InitSem`, `InitQueue`, `InitShm` are initIpc; `TakeReg`, `Confirm`,
`UpdDone` are updConsumers (one `msgrcv`, one `msgsnd`, ENOMSG); `Reset`,
`WriteMessage`, `Produced`, `WaitReading` are the body of the loop of produce; `WriteEnd`,
`ProducedEnd`, `WaitEnd` what follows it; `RemoveObject` each `IPC_RMID` of destroyIpc, or of main's
failure path, in the order of the code, which differs between the two.
A consumer's places are those of regInProducer and consume.  `bound[k]` is what the key refers
to: nothing, the producer's object, nothing again, or an *orphan* object a late
consumer has created.

`QueueBroadcast`: `AddListener`/`AddDone`/`DelDone` are updListeners, `SendToListener`/`SendDone` the loop of
sendMessage, `TakeAnswer`/`AnswersDone` waitAnswers with find and removeItem.  The array of pids is a sequence.
`ListenersAssumption` says why it may be: pushBack calls realloc with `length + 1`
*bytes*, and six pids fit into the smallest block malloc gives out.  With more
listeners the behaviour is undefined and the model says nothing.

`QueueMaster`: `Receive` is msgrcv of any type; `Switch` with `CountReg`, `CountDel`, `PrintData` the switch and the loop's test.

`QueueAnswer`: `GetMessage` is the msgrcv of getMessages, `PrintMessage` its printf, `QueueGone` its other way out, which is not told apart; `taken` is what a
receiver has received, `Printed` what of it is printed.
`SendEndAnswer`, `AnswerFails` are sendEndAnswer and main's test of its result.  That test is the wrong way round
(`src/30/recv.c:50`): a receiver that has answered ends in `"failure"`, one that could not in
`"success"`, and so does the model.

`HashTable`: `find_list`, `ht_get`, `ht_has`, `ht_has_strict` and `Entries` (traverse) are operators,
`ht_set`, `ht_delete`, `ht_resize`, `ht_destroy` actions.  The hash is a constant function that
respects the size it is given.

`ProxyCache`: `GetRequest` … `InsertFails` are gettingRequest access by access;
`Connect` is initServerSocketToUrl and writingRequest; `ReadResponse` … `OpenResponse` are
forwardingResponse; `Hit` is one call of respondingFromCache; `Spin`, `Send`, `Skip`, `SendRest` the loop of
respondingFromProgessCache, `Leave` the decrement after it; `ThreadExit`, `Invalidate` are thread_exit_handler.
`PollFails` is the first return of handleConnection, from the states that poll with a request at hand (the states that connect and write the request are
one step, and a poll that fails there is one that fails right behind it); `PollFailsEarly` is the same before there is a request, where it meets the uninitialised
`cacheEntry`, as `ClientClosed` does.  `deaf` are clients that stay and do not read: `Blocked` says that there is no POLLOUT for them and that a write sleeps, which
guards `ReadResponse`, `Hit`, `Follow` and, by `Sleeps`, the writes of a waiter.  `ForwardNothing` is a read of less than three bytes in
forwardingRequest, `PartialHeaders` a piece that does not end the headers.
`main` contains `printf("%d", sizeof(heap_info)); exit(0);` (`main.c:73-74`) before it listens: as committed the
proxy never serves.  The model is of the code behind those lines.

`HttpText`: `getUrlFromData`, `editRequestToSendToServer`, `getContentLengthFromData` are functions of the buffer; `ReadRequest` is
gettingRequest's call per piece, `ReadHeaders`, `ReadBody` the branches of forwardingResponse.  A first piece of one byte makes `buffer_size - 2` wrap: the search runs
on behind the buffer, `"overrun"`, or happens to stop.  "length 1" stands for a header line's name with its number.

`HttpServer`: `Accept` with `Search` is the loop of main, one turn each; `Receive`, `SendFile`, `Close` are respond.  The words of a request are
kinds (`Requests`); a missing word is a null pointer and the child `"crashed"`.

`HttpClient`: one action per part of the URL, in the order of parse_url; `PartsAreUrl` compares with the URL read as a whole.

`Pipes`: `pipeAt` has an entry per process, `ends` says who holds which end; a step is a system call.  `PollFiles`: `Poll`, `ReadPiece`, `HangUp` are the three parts of
the loop's body, `NextFile` its counter.  `StartWriting`, `WritePiece`, `StopWriting` are the others, who open, fill and close a fifo
between any two of these; `polled` remembers what a fifo held when poll answered.

`TerminalPrograms`: a program is a sequence of calls with what each failure leads to (`Calls16`, …); `Succeed` and `Fail` interpret it, `Signal`, `sigDel`, `sigcatch`,
`printAllString` run handlers on a stack.  Both meanings of signal() are tried (`sysv`).

`LinesByNumber`: `parseFile` is the table, `UseNumber` … `NextNumber` printLines, `Alarm` the handler, which may come before any of
these steps while the alarm is on.  `FileMask`: `MatchStep` is one turn of the loop of pattern_match; `Fits` is the reference.  `findFiles` includes the exit
for a prefix that does not fit `name[NAME_MAX + 1]`; that listDir cuts what does not fit PATH_MAX is left out.

`StrList`: an action per function, a node is a record in `node`, NULL is 0.  Calls that leave links broken set `broken` and end the history, so that
the run shows *which* calls do (`ListAgrees` is an equivalence), and what holds until then.  `AsNamed` ties each call to its operator of `TextLists`.

`ChildPrograms`: `parent` names the program, its places are its system calls, `worker` is the child; what wc, sort and cat compute is taken from their
manuals.  `FilePrograms`: a column per field, an action per look-up.

## 3. Runs

| Run | Bounds | Shows |
|---|---|---|
| `broadcast` | 3 consumers, up to 3 messages, SEMVMX = 5 | the inductive invariant on every failure path; rounds are exclusive, success means delivered, confirmed consumers share the producer's objects; **refines `LockstepBroadcast`**; confirmed consumers end, the producer sleeps for ever in its last wait at most, and nobody outlives it, with the exceptions of section 3.2 |
| `handoff` | 1–3 consumers, 4 rounds | no text overwritten; texts are shared before the first exit, only the last repeats after it; what strands the producer; consumers end |
| `multicast_safety` | 3 receivers, 2 lines, 1 killed receiver, queue of 4, symmetry | who is a listener gets all, the others nothing; no unexpected answer; **refines `AtomicMulticast`** |
| `multicast_live` | 2 receivers, 3 lines, 2 kills of the sender, queue of 3 | gapless lines over restarts; sender and receivers terminate |
| `master` | 3 senders, 1 text each, 2 kills, queue of 2 | order, completeness, the count, termination |
| `answer` | 3 receivers, 2 lines, 2 kills, queue of 2 | order; the answer comes when all lines are taken and, but for one per receiver in printf, printed; it arrives, all end, all is printed |
| `containers` | table: 4 keys, sizes 1–3, 4 sets; lists: 2 lists, 2 data, 4 nodes | sound chains of both; the table **refines `KeyValueStore`**, the lists **refine `TextLists`**, each call by its own operator; look-ups agree with each other |
| `table_has_doc`, `table_resize_doc`, `table_delete_doc` | the table as above | three comments of `hash_table.h` the code does not keep (section 3.3) |
| `proxy` | 2 connections, 2 pieces, 2 faults; texts: 2 header lines, 3 characters of body | undefined behaviour needs an overlap or a risk; the count of waiters; what frees them and what does not; nothing twice; valid data is frozen; requests are rewritten and answers end right wherever they are cut |
| `programs` | CONNMAX 2 with 3 connections; URLs of a head and 4 characters; 3 letters typed; 2 files with 2 pieces; 3 bells; LINESIZE 3; COUNT_LINES 3, texts up to 4; masks up to 4 on names up to 3, searches with masks up to 5 and NAME_MAX 3; buffer of 3, input up to 8; file of 4; NUM_INT 4 in rows of 2, MAX 3, 4 directories in PATH; 2 files listed, int of 3 bits | one property per program or algorithm (section 1.1), and that servers' clients, pipes, children and polls come to an end |

### 3.1 Bounds, and why they are enough

- *36.*  Two consumers are the least with which one can steal another's token; the
  third can register in the middle of a round that two others are in.  Three messages give a first, a middle and a
  last round.  The counters do not grow otherwise.  The limit of 5 lets the producer
  meet the limit of its adjustment in the second round of three consumers, or in the third of two; with the
  real one (32767) no run is long enough.  `EverybodyEnds` does not hang on these numbers: it was also checked with limits of 2, 3 and 4, where consumers
meet theirs in the middle of a round and the producer aborts with a confirmation still in the queue.
- *34.*  Four rounds instead of ten: the rounds are alike, the last one differs.
- *31.*  The queues of 3 and 4 places do fill up.  The liveness run needs **room for at least as many messages as there
  are receivers**: with less, TLC finds the deadlock in which all places are taken by
  registrations, or lines for one receiver that is itself in msgsnd.  The real limit is
  16384 bytes, far above what six receivers can fill with registrations, so the assumption is sound,
  but nothing in the code states it.
- *32, 30.*  Three processes: one in the middle, one before, one after.  Queues of two places are full most of
  the time.
- *Hash table.*  Four keys over three buckets make chains of up to four, with deletions
  at the head, in the middle and at the end.
- *Proxy.*  Two connections give every pair of roles (downloader, reader, waiter, late-comer) both
  overlapping and one after the other; two pieces are needed for data to grow after the headers;
  two faults let both clients leave or stop reading, a poll fail beside either, or a client both stop and leave.  A third thread multiplies states without a
  role of its own.
- *Texts.*  Two header lines: the length in the first, the second, both or none; three characters of body for a length of up to two and
  a line that looks like the header.
- *Lists.*  Four nodes: two lists of two, or one of four, which has a middle, both ends and an even length.
- *Server.*  One connection more than slots.
- *URLs.*  Four characters behind a head reach every part of the URL with every delimiter on either side.
- *Masks.*  Four characters hold two stars with a character behind each, the least for which going back to the last star only matters.  A NAME_MAX of 3 lets a mask of five have a prefix that fits and one that does not.
- *Rows, lines, buffers.*  A row of three holds two words or one; a buffer of three doubles once in eight characters, with
  a line ending exactly at, before and after its end.
- *Int.*  Three bits: sizes 4 and 5 do not fit.
- *Children.*  Four numbers in two rows, of three values, so that some are equal; four directories with the program in any of them or none.

Deadlock is not checked by TLC's own test in any run: a program of this kind stops when it has
ended, and in 34 and 36 the producer's sleep in its last wait is what the code does (`ExitStrandsProducer`,
`FirstExitStrandsProducer`).  The liveness properties say who may not be left behind.

### 3.2 Fairness

Weak fairness of each process's own steps: a process that can run does run, a `semop` that can succeed at last succeeds.
The kernel's queues of sleepers justify that for a process that is continuously able to run; strong fairness
is nowhere assumed, so a consumer may be overtaken any number of times.

- Starting a consumer, receiver, sender or client is **not** fair, nor are kills, disconnects and malloc failures.
- The user ends the input at last (`MaxLines`), and a master or sender that was killed is started again (its start is one of its steps).
- A parent, a child, a writer, a reader and the loop over polled files go on when they can; users type, fifos are opened, written and hung up, signals come as they please.
- The child of 10 is the user's own program, of which the code says nothing: that it ends at last is an assumption of `ChildrenEnd`, not something it shows.
- The server of `HttpServer` accepts and searches, a child answers once its client sent something or closed.  Starts, connections and Interrupt are not fair.
- In the proxy the server answers or closes, and a client that stays sends the rest of a request it has begun.  A client need not read: behind one that
  does not, the thread that serves it has no POLLOUT and is not asked to go on.

Termination is stated with the exceptions the code has:

- 36: the producer may sleep in its last wait.  A consumer that meets the limit of its adjustment in its loop (`LimitMet`) gives all the tokens back that it
  ever took: the producer then sleeps in the middle of a round, and the others read on without it.  A consumer whose registration is answered while the producer
  aborts (`Orphaned`: the set is removed, the queue not yet) takes that confirmation, makes a set of its own and sleeps on it.
- 30: the answer need not arrive once the sender was killed.  32: nor need the master terminate once somebody was.
- Proxy: a waiter may spin for ever when its own client or that of its downloader does not read, when its downloader's client left before its request was complete, or
  when its downloader's poll failed before all was there; TLC finds each of these when it is taken out of `WaitersFreed`.

### 3.3 Findings

| Comment | Code |
|---|---|
| `hash_table.h:45`: ht_has checks whether the key exists | it answers for the bucket (`hash_table.c:133`) |
| `hash_table.h:59-61`: ht_resize moves all existing List structures | only the head of each chain is moved (`:166`) |
| `hash_table.h:50`: ht_delete deletes the key, if it is there | an empty bucket dereferences a null pointer (`:238`) |

Things the models show that no comment contradicts:

- http_client: `urlparser.h:42-43` says "Implented according to: ... RFC 3986", where the authority ends at the first `/`, `?` or `#`.  The parser ends
  a host at `:` or `/` and a port at `/` only, so it accepts `H://h?h` with the query in the host and `H://h:h#h` with the fragment in the port.
  `AuthorityEnds` states the comment's claim, and TLC refutes it when it is put among the invariants of `MCPrograms.cfg`; `PartsAreUrl` is what remains: it
  holds of URLs whose authority a slash ends (`AuthorityClosed`).
- 36: at the limit of a semaphore's adjustment a consumer strands the producer, and an aborting producer may leave a consumer behind (section 3.2).
- 30: the answer may reach the sender while another receiver has still to print the line it took.
- 36, 34: with SEM_UNDO on every post, a consumer that exits before the producer has come back from its last wait
  leaves it asleep, with objects that are never removed.
- 30: the exit statuses are inverted; after a restart of the sender a receiver may hold the answer
  to the *old* end before a full queue while the new sender waits for room.
- 31: a killed listener never answers, and the sender waits for it for ever.
- http_server: the parent never frees a slot, so it serves CONNMAX connections and then searches for ever.
- 4_str_list: dslist_insert in the middle, dslist_remove_next at the ends break the list; dslist_reverse does nothing to even lengths;
  dslist_remove_few never gets beyond the first node; dslist_remove_all goes on at the node it has freed.
- 11: the last directory of PATH is never searched.
- 25 (older): letters of a longer block are printed again behind a shorter one.
- 22: what a fifo holds beyond one read when its writer hangs up is lost, and so is what a new writer puts in it between poll's answer and the close; a directory among the files is read for ever.
- 19: listDir tries what is left of the mask on every name, slashes included, and pattern_match takes what follows a slash literally: the mask `*/b` also finds
  `ab`, a file next to the directories it was to search.  `FindsOnly` says of what kind these strays are.  A mask with a prefix longer than NAME_MAX finds nothing (`task19.c:193`).
- 28: when the shell does not find sort, every fscanf fails and the program succeeds with rows of the uninitialised `val`; `RowsAreSorted` speaks of runs
  in which sort did its work.
- 21: where signal() sets the action back, the next SIGINT inside the handler kills, with the terminal unrestored.
- Proxy: without a path in the URL the slash of the version, or what lies behind the buffer, is taken for it (`http_utils.c:150`).
- Proxy: a waiter reads `dataCount` again after its write (`connection.c:176`), so pieces that came in
  between are never sent to it; a server that closes early makes a truncated entry VALID (`:385`); a client that leaves
  while its request is incomplete makes its thread, and with it all waiters, spin (`:515`); overlapping requests for
  one URL can use a freed entry.
- Proxy: when poll fails (`connection.c:54`) a waiter's count is never taken back, so that the download is kept up for nobody, and a downloader leaves its entry
  ES_DOWNLOADING under its waiters; a downloader's client that stays but does not read stops the download for all (`:101`, `:395`).
- Proxy: an answer whose first piece is one byte makes the unsigned `buffer_size - 2` wrap (`:430`), and a piece of less than three bytes, or none, in the
  middle of a request is tested at places in front of the buffer (`:527`): undefined with one connection alone.

## 4. Proofs

TLC checks small instances; the theorems below hold **for every value of the constants** that satisfies the named
assumptions, which are all about constants.  A theorem named like "invariant" states the inductive invariant,
the others a property some run checks, under the name the run has for it.

| Module | Theorem | Statement | Assumptions |
|---|---|---|---|
| `SemBroadcast_proofs` (36) | `SemInvariant` | `Spec => []SemInv` | `ConsumersAssumption` (a finite set), `MaxMessagesAssumption`, `SEMVMXAssumption` |
| | `TypeCorrect` | `Spec => []TypeOK`: no value or adjustment leaves the kernel's range | |
| | `ExclusiveWriting` | `Spec => []NoOverwrite` | |
| | `DeliveredOnSuccess` | `Spec => []SuccessMeansDelivered` | |
| | `SharedObjects` | `Spec => []ConfirmedSharesObjects` | |
| | `LockInvariant` | `Spec => []LockInv` | |
| | `BroadcastImplementsLockstep` | `Spec => ImplementsLockstep`: the refinement of `LockstepBroadcast` | |
| `SemHandoff_proofs` (34) | `HandoffInvariant` | `Spec => []HandoffInv` | `CountAssumption` (as many rounds as a semaphore can count), `SEMVMXAssumption` |
| | `TextsOnce` | `Spec => []EachTextOnce` | |
| | `PostsInvariant` | `Spec => []PostInv` | |
| | `AfterExits` | `Spec => AfterFirstExit`: what is printed and what strands the producer | |
| `QueueBroadcast_proofs` (31) | `ListenersInvariant` | `Spec => []ListenersInv` | `ListenersAssumption` (at most six), `BoundsAssumption`, `QueueLimitAssumption`, `TypesAssumption` |
| | `LinesGapless` | `Spec => []GaplessLines`, over restarts too | |
| | `ServiceIsComplete` | `Spec => []ListenersServed` | |
| | `SenderImplementsMulticast` | `Spec /\ []NoRestart => ImplementsMulticast` | |
| `QueueMaster_proofs` (32) | `CountedInvariant` | `Spec => []CountedInv` | `MasterAssumption`, `QueueLimitAssumption` |
| | `LinesCounted` | `Spec => []LinesAreCounted` | |
| `QueueAnswer_proofs` (30) | `AnswerInvariant` | `Spec => []AnswerInv` | `AnswerAssumption` |
| | `LinesFirst` | `Spec => []LinesBeforeAnswer` | |
| `HttpProxy_proofs` (http_proxy) | `ProxyInvariant` | `Spec => []ProxyInv` | `ProxyAssumption` |
| | `WaitersAreCounted` | `Spec => []WaitersCounted`, with the polls that failed | |
| | `SerialSafe` | `Spec => []SerialIsSafe`, but for the named risks | |
| | `DataStays` | `Spec => DataIsStable` | |
| | `RequestsEdited` | `TextSpec => []RequestIsEdited` | `TextAssumption` (texts without blanks, hosts without a slash, paths that are empty or begin with one) |
| | `AnswersWhole` | `TextSpec => []AnswerIsWhole` | `TextAssumption` |
| `Containers_proofs` (http_proxy: hash table) | `TableIsWellFormed` | `TableSpec => []WellFormed` | `TableAssumption` (hash values below the size they are given, `MaxSets` a number) |
| | `TableImplementsStore` | `TableSpec => ImplementsStore`: the refinement of `KeyValueStore` | `TableAssumption` |
| (4_str_list) | `ListsAgree` | `ListSpec => [](ListAgrees /\ LookupsAgree)` | `ListAssumption` (memory is a number of nodes) |
| | `ListsImplementTexts` | `ListSpec => ImplementsLists`: the refinement of `TextLists` | `ListAssumption` |
| (both containers) | `ContainersSound` | `MCSpec => []ChainsAreSound` | `TableAssumption`, `ListAssumption` |
| `Programs_proofs` | `ServerIsBounded` (http_server) | `ServerSpec => []ServesConnMaxClients` | `ServerAssumption` |
| | `TextsAreRead` (22) | `PollSpec => LostOnlyAtHangup` | `PollAssumption` |
| | `LinesReadWhole` (read_line) | `ReadSpec => []LineIsWhole` | `LineAssumption` |
| | `ScreenIsRight` (17) | `EditSpec => []ScreenShowsText` | `EditorAssumption` |
| | `ModesAreRestored` (16, 17, 21, unbuff_test, 6, 7) | `TermSpec => []TerminalRestored` | `BellsAssumption` |
| | `BellsAreTold` (21) | `TermSpec => CountTold` | `BellsAssumption` |
| | `TextIsPrinted` (25, 26) | `PipesSpec => []SuccessMeansPrinted` | `PipesAssumption` |
| | `MasksAreMatched` (19) | `MaskSpec => []MatchIsRight` | `MaskAssumption` (no text holds the NUL that ends it) |
| | `LinesByTheirNumbers` (5, 6, 7) | `LinesSpec => []LineIsRight` | `LinesAssumption` |
| | `FilesToldRight` (18, 3) | `FilesSpec => []FilesAreTold` | `FilesAssumption` (paths are not empty, sizes are numbers) |
| | `ProgramsTold` (27, 28, 9, 10, 11) | `ChildSpec => []ChildIsTold` | `ChildAssumption` |
| | `PartsMakeUrl` (http_client) | `ClientSpec => []PartsAreUrl` | `ClientAssumption` ("80", which stands for the port that is not given, is no character of a URL) |

### 4.1 The inductive invariants

None of the properties of programs that meet others is inductive.  Each module names the parts of its invariant, with a comment
each; there is one lemma per action or per part, and the invariant's theorem puts them together.

**36.**  That nobody reads while the producer writes follows from the
tokens, and those from who is where.  `SemInv` is `TypeOK` and

- `ProgressInv`: the producer's counter and what the segment holds, place by place;
- `ObjectsInv`: until the producer cleans up, each key has referred to one object only;
- `AdjustmentInv`: a consumer has posted as often as it has taken, or once less, so its adjustments stay
  opposite and the exit's undo is known;
- `BetweenInv`: between rounds both semaphores are zero, all consumers wait, and those waiting plus the open confirmations do not exceed the count;
- `RoundInv`: in a round either tokens may be left and nobody is through (`TakingInv`), or all are taken and
  everyone who waits has posted (`PostingInv`).  The consumers' own wait for zero between take and post
  is what separates the two phases; it is why no consumer takes two tokens of a round;
- `EndInv`: the last round has no such wait, but no consumer comes back for a second token;
- `DestroyInv`: at the end as many have left as were counted.

The invariant speaks of numbers of consumers at places (`Count`).  `CountMove` says what a step of one consumer does to
such a number; with it a step's proof is arithmetic.  There is one lemma per action, `SemInv /\ A => SemInv'`, with
one step per conjunct it may disturb; `SemInvariant` puts them together.

`LockInv`, inductive together with `SemInv`, adds what the refinement of `LockstepBroadcast` needs, which texts the consumers have seen:

- `RegistrationInv`, `SeatInv`: registrations counted, queued and confirmed are never more than consumers, and there is a seat
  for everybody who has the text or may still ask for it;
- `AnnounceInv`: the announced text and number of readers, next to the producer's counters and the segment;
- `AbortInv`: an aborting producer leaves no consumer with a token;
- `FreshInv`, `GatherInv`, `RoundSeenInv`: at each place, who has printed the current text and who is due to.

A step of the broadcast is a step of the producer that announces a text (a round begins), a print (a reader takes its seat's text) or
a stutter.  A print is the step that matters: the reader took the announced text's token, so it has not had that text yet, and it has the one before.

**34.**  `HandoffInv` is about the time before the first consumer has finished: its `TokenInv` says that a round has one token, which waits to be
taken, is with exactly one consumer, or waits to be given back, and that no consumer is ahead of
the posts to the producer.  The last part gives `LateInv`, that a consumer can be through only in
the producer's last round; so the producer does not write again after the first exit has given tokens back, and `NoOverwrite` holds with no
assumption about exits.  `PostInv` holds after that exit too: every post is in the adjustment of who made it, and `SEM_PRODUCER` never has
more tokens than posts of those who still run, which is why nobody wakes the producer once they are gone.

**31.**  `ListenersInv`: `PlaceInv` (which places need the queue, pids are distinct), `RegInv` (a receiver registers once, and gets nothing before that was read),
`LineInv` (what a receiver printed and what the queue holds for it, in order, are consecutive lines), `DueInv` (every listener that has one line has
every line up to the one at hand, which it has unless the loop has yet to come to it), `EndInv` (behind the empty
message comes nothing, and it is answered once) and `KeptInv` (before a kill a listener stays in the array until it has answered).
`ImplementsMulticast`: a line is published in the step that fixes the listeners (`DelDone`), and what the sender has still to send counts as in the inbox,
so that sending is a stutter and the sleeps between two sends cannot be seen.  A killed sender has published what it has not sent,
hence the hypothesis `[]NoRestart`; the run makes the same one by its bound.

**32.**  `CountedInv`: a sender's place and what it has sent (`PlaceInv`); what was printed of a sender, what the master holds and what is queued
are its lines in order (`OrderInv`), none from the future (`SentInv`), none missing (`NoLineLost`); so the printed ones are the
first ones (`PrintedInv`), the count is the number of active senders (`CountIsActive`), and the master leaves its loop with nobody counted (`ClosedInv`).

**30.**  `AnswerInv`: lines in the queue are in order behind those that receivers took (`OrderInv`), none is missing, and before a kill the end and
the answers come behind the last line, so that once somebody holds one of them no line is left in the queue (`EndInv`, `DoneInv`); a receiver has printed all it took but
the last, while it is in printf.

**Proxy.**  `ProxyInv`: the table never keeps a freed entry (`TableInv`); nobody knows an entry that its thread has not made yet (`UnbornInv`); an entry's
counter is the number of threads that follow it or lost their poll before they wrote (`CountInv`), and such a thread is on its way out or over (`StrayInv`); a download fills its own thread's entry and its data is in place but for
one step (`OwnerInv`); what a thread has written to its client is the beginning of the data (`ServedInv`); and without a
race one thread serves at a time, on the entry in the table (`SerialInv`).

**Hash table.**  `ChainInv`: every entry is in the bucket its hash names for the size there is, and no chain holds a key twice (`ChainsOK`); all data in
the table were brought by calls of ht_set, no two by one, and the others are with the destructor (`DataInv`); the counter is the number of entries (`CountOK`).
The entries of all chains are numbered (`Seats`), so that one more or one less in one chain is one more or one less in their sum (`SumIsSeats`).
ht_resize puts the entries into new chains one after the other; `Refilled` is what holds in the middle of its loop.  A get, set, delete or traverse of the
table is one of the map by `Holds` and `GetIs`: a key is found if and only if some chain holds it, with that entry's datum.

**Lists.**  `ListInv`: unless a call has broken a list, there is a sequence of nodes `w[l]` for every list (`Shape`) such that neighbours point at each
other (`LinkedAs`), the head names its ends and counts it (`ListHead`), no node is in two lists or twice in one (`Apart`), and every
node of the heap is in one; and a call that breaks a list leaves one that is not `Sound`.  What `Chain` meets from either end
is derived once from the links (`ChainIs`); after that a call replaces the sequences of the lists it is given (`Changes`), and the
others stay.  For the refinement the data of `w[l]` are the list's text, and every call is its operator of `TextLists` (`AsNamed`).  That dslist_reverse turns odd lengths round
and leaves even ones as they were is `SwappedIs`.  Behind a broken list nothing is promised and nothing more is called.

**Texts of the proxy.**  `TextInv`: the URL lies between the first two blanks of what came, so a request that was found in a
piece of the text is found in the whole; what was edited is the text without the URL's beginning (`TextOK`, `RequestIsEdited`).  An answer's head ends at its first
empty line; what is left to download is head and stated length less what came, or its length is yet to be found in the
body (`LeftInv`, `AnswerIsWhole`).

**URLs.**  `UrlInv`: the parts found so far, joined with what is left, make the URL with a scheme in small letters (`LeftOf`, one line per
place of the parser); no part is there twice (`Unique`), and none holds the character that would have ended it (`KeptApart`).
Each step moves a piece from what is left to the parts: `TextMended` says that the cut can be undone, `Joined` that it does not matter where the brackets are.

**Single programs.**  `SlotInv` (server): the slot the parent accepts into is free, and accepted connections are in distinct slots.
`PollInv`: what poll said of a descriptor was true when it answered, and what became of its text since is counted (`EventsInv`).  `ReadInv`: the buffer holds what was taken of the input and has room for more (`BufferInv`).
`EditInv`: the rows and the row at hand, put together, are the line; erasing and wrapping cut them at the same place.
`TermInv`: at every call, which signals have handlers, which frames may be on the stack, and that the modes are changed
between two known calls only (`CallsInv`, `TrapsInv`, `HandlersInv`); `BellsInv` for 21's counter.  `PipesInv`: who can hold which end at which
place (`EndsInv`), what an ended process says of pipe and buffers (`EndedInv`, `ClosedInv`), and that printed text, pipe and
buffer together are what was typed (`LettersInv`; `StringsInv` for the version that prints a block as a string).
`MatchInv`: at every comparison, the mask fits the name from the start if and only if it does from the places at hand, or from the last star and a later place
(`Decides`); behind a star only that star matters (`StarFollows`), which is why pattern_match need not return to one before.
`LinesInv`: the table holds the ends of the lines in order (`IsTable`, by the number of ends before an offset), the alarm is off while a line is printed (`PrintInv`), and the only line
that comes after the alarm was asked for before it (`LateInv`).  `AskInv`: what was listed is what the system said of the file, field by field (`ListInv`), and which user the two openings were
made as (`OpeningsInv`).  `ChildInv`: for each program, what the parent knows of its child at each place; the count of empty lines is that of the part read so far, and the
printed rows are the beginning of the sorted numbers, in which every number is as often as it was sent.

Three techniques recur.  Numbers of processes at places (`Count`) are changed by one process at a time, and a lemma says how.  What a
sequence keeps when its first, or first suitable, element is taken is a lemma about `RemoveAt` and `SubSeq`.  And where the library's folds and recursive functions are
used, a least-number principle (`LeastNatural`, from the well-foundedness of inclusion of finite sets) takes the place of induction.

### 4.2 Model-checked only

- **Liveness**, everywhere: it needs ENABLED and fairness, which are out of the prover's reach.  Temporal properties
  that are safety (`AfterFirstExit`, `DataIsStable`, `CountTold`, `LostOnlyAtHangup`, the refinements of 31, 36, the hash table and the lists) are proved.
- `ImplementsMulticast` after a kill of the sender does not hold and is not claimed.
- `FindsAll` and `FindsOnly`, the half of `MaskFinds` about directories: `listDir` is a recursion over a tree, and what it computes needs induction over the tree.

The library's theorems on induction take an operator and cannot be used; `LeastNatural` can, as `ScreenIsRight` shows for the concatenation of rows and
`MasksAreMatched` for the table of places a mask fits from, but costs a page for each recursive definition.

## 5. Plan

1. *Done*: the programs on System V objects with proofs of all their safety properties and of both refinements; the proxy's threads, with proofs; the
   server, poll, read_line, the editor, the terminal and the pipes, with proofs; the hash table, the lists and their refinements, the texts of the proxy, URLs,
   masks, lines by number, listed files and child programs, with proofs; all other models with their runs.
2. *Proofs next*: `FindsAll` and `FindsOnly`.
3. *Models*: a run for the claim of `urlparser.h:42` beside those for `hash_table.h`; kill and restart of 36's producer on semaphores that are never reset (`producer.c:149`); two URLs in the proxy, with the table's
   buckets between them.
