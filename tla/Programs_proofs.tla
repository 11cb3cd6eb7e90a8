-------------------------- MODULE Programs_proofs ---------------------------
(***************************************************************************)
(* Proofs about the programs that share nothing with another: the server   *)
(* (HttpServer), the files that are polled (PollFiles), read_line          *)
(* (ReadLine), the line editor (LineEditor), the modes of the terminal     *)
(* (TerminalPrograms), pipes (Pipes), pattern_match (FileMask), lines by   *)
(* number (LinesByNumber), what is said of a file (FilePrograms), the      *)
(* programs that start another one (ChildPrograms) and the client's URLs   *)
(* (HttpClient); each part has its own invariant, for every value of the   *)
(* constants of its module.                                                *)
(***************************************************************************)
EXTENDS HttpServer, PollFiles, ReadLine, LineEditor, TerminalPrograms,
        Pipes, FileMask, LinesByNumber, FilePrograms, ChildPrograms, HttpClient,
        FiniteSetTheorems, SequenceTheorems, TLAPS

-----------------------------------------------------------------------------
(* The least number of a set, by which recursive definitions are reasoned    *)
(* about, and the beginning of a sequence.                                  *)

\* Every nonempty set of numbers has a least one.
LEMMA LeastNatural ==
    ASSUME NEW T, T \subseteq Nat, T # {}
    PROVE  \E n \in T : \A m \in T : n <= m
<1> DEFINE Below == {0..n : n \in T}
<1>1. Below \subseteq FiniteSubsetsOf(Nat)
  <2> SUFFICES ASSUME NEW n \in T PROVE 0..n \in FiniteSubsetsOf(Nat)
      OBVIOUS
  <2> QED  BY FS_Interval DEF FiniteSubsetsOf
<1>2. Below # {}
    OBVIOUS
<1>3. IsWellFoundedOn(StrictSubsetOrdering(Nat), FiniteSubsetsOf(Nat))
    BY FS_StrictSubsetOrderingWellFounded
<1>4. \E U \in Below : \A V \in Below : <<V, U>> \notin StrictSubsetOrdering(Nat)
  <2> HIDE DEF Below
  <2> QED  BY <1>1, <1>2, <1>3, WFMin
<1>5. PICK n \in T : \A V \in Below : <<V, 0..n>> \notin StrictSubsetOrdering(Nat)
    BY <1>4
<1>6. ASSUME NEW m \in T, m < n PROVE FALSE
  <2>1. /\ 0..m \in SUBSET Nat /\ 0..n \in SUBSET Nat
        /\ 0..m \subseteq 0..n /\ n \in 0..n /\ n \notin 0..m
      BY <1>6
  <2>2. <<0..m, 0..n>> \in StrictSubsetOrdering(Nat)
      BY <2>1 DEF StrictSubsetOrdering
  <2> QED  BY <1>5, <2>2
<1> QED  BY <1>5, <1>6

\* The one that CHOOSE takes is it.
LEMMA LeastChosen ==
    ASSUME NEW T, T \subseteq Nat, T # {}
    PROVE  LET least == CHOOSE i \in T : \A j \in T : i <= j
           IN  least \in T /\ \A j \in T : least <= j
BY LeastNatural, Zenon

\* The first n elements of a sequence.
LEMMA Beginning ==
    ASSUME NEW S, NEW s \in Seq(S), NEW n \in 0..Len(s)
    PROVE  /\ SubSeq(s, 1, n) \in Seq(S) /\ Len(SubSeq(s, 1, n)) = n
           /\ \A i \in 1..n : SubSeq(s, 1, n)[i] = s[i]
<1> DEFINE first == SubSeq(s, 1, n)
<1>1. n \in Int /\ n \in Nat /\ \A i \in 1..n : s[i] \in S
    BY LenProperties, ElementOfSeq
<1>2. /\ first \in Seq(S) /\ Len(first) = IF 1 <= n THEN n - 1 + 1 ELSE 0
      /\ \A i \in 1..(n - 1 + 1) : first[i] = s[1 + i - 1]
    BY <1>1, SubSeqProperties
<1> HIDE DEF first
<1>3. first \in Seq(S) /\ Len(first) = n /\ \A i \in 1..n : first[i] = s[i]
    BY <1>1, <1>2
<1> QED  BY <1>3 DEF first

-----------------------------------------------------------------------------
(* http_server *)

ServerTypeOK ==
    /\ server \in {"new", "accept", "search", "gone"}
    /\ clients \in [Slots -> Conns \cup {-1}] /\ slot \in Slots
    /\ backlog \in Seq(Conns)
    /\ link \in [Conns -> {"none", "queued", "open", "shut"}]
    /\ child \in [Conns -> {"none", "recv", "file", "close", "crashed", "exited"}]

\* The parent accepts into a free slot only.
FreeSlot == server \in {"new", "accept"} => clients[slot] = -1

\* Only a connection that was accepted has a child that could shut it down.
ChildrenAccepted == \A c \in Conns : child[c] # "none" => c \in Accepted

\* Nothing ever leaves the table.
AcceptedKeepSlots == \A c \in Accepted : \E s \in Slots : clients[s] = c

SlotInv == ServerTypeOK /\ FreeSlot /\ ChildrenAccepted /\ AcceptedKeepSlots

-----------------------------------------------------------------------------
\* Before start_server no slot is taken and no child runs.
LEMMA InitSlotInv == ServerInit => SlotInv
BY ServerAssumption DEF ServerInit, SlotInv, ServerTypeOK, FreeSlot, ChildrenAccepted, AcceptedKeepSlots, Accepted, Slots

\* The new connection takes the free slot, the others keep theirs.
LEMMA AcceptStep == SlotInv /\ Accept => SlotInv'
<1> SUFFICES ASSUME SlotInv, Accept PROVE SlotInv'
    OBVIOUS
<1> DEFINE c == Head(backlog)
<1>1. /\ c \in Conns /\ c # -1 /\ slot \in Slots /\ Tail(backlog) \in Seq(Conns)
      /\ clients' = [clients EXCEPT ![slot] = c] /\ clients[slot] = -1
      /\ link' = [link EXCEPT ![c] = "open"]
    BY ServerAssumption DEF SlotInv, ServerTypeOK, FreeSlot, Accept
<1>2. ServerTypeOK' /\ FreeSlot'
    BY <1>1 DEF SlotInv, ServerTypeOK, FreeSlot, Accept
<1>3. Accepted' = Accepted \cup {c}
    BY <1>1 DEF SlotInv, ServerTypeOK, Accepted
<1>4. ChildrenAccepted'
    BY <1>1, <1>3 DEF SlotInv, ServerTypeOK, ChildrenAccepted, Accept
<1>5. AcceptedKeepSlots'
  <2> SUFFICES ASSUME NEW k \in Accepted' PROVE \E s \in Slots : clients'[s] = k
      BY DEF AcceptedKeepSlots
  <2>1. CASE k = c
      BY <1>1, <2>1 DEF SlotInv, ServerTypeOK
  <2>2. CASE k # c
    <3>1. k \in Conns /\ k # -1
        BY ServerAssumption DEF Accepted
    <3>2. PICK s \in Slots : clients[s] = k
        BY <1>3, <2>2 DEF SlotInv, AcceptedKeepSlots
    <3>3. s # slot
        BY <1>1, <3>1, <3>2
    <3> QED
        BY <1>1, <3>2, <3>3 DEF SlotInv, ServerTypeOK
  <2> QED
      BY <2>1, <2>2
<1> QED
    BY <1>2, <1>4, <1>5 DEF SlotInv

\* Steps that accept nobody: the table stays as it is, and so do the accepted.
LEMMA OtherServerSteps ==
    ASSUME SlotInv,
           Listen \/ Search \/ Interrupt \/ \E c \in Conns : Respond(c) \/ Connect(c)
    PROVE  SlotInv'
<1> USE ServerAssumption DEF SlotInv, ServerTypeOK, FreeSlot, ChildrenAccepted, AcceptedKeepSlots, Accepted
<1>1. CASE Listen
    BY <1>1 DEF Listen, start_server
<1>2. CASE Search
  <2>1. (slot + 1) % CONNMAX \in Slots
      BY DEF Slots
  <2> QED
      BY <1>2, <2>1 DEF Search
<1>3. CASE Interrupt
    BY <1>3 DEF Interrupt
<1>4. ASSUME NEW c \in Conns, Receive(c) PROVE SlotInv'
    BY <1>4 DEF Receive
<1>5. ASSUME NEW c \in Conns, SendFile(c) PROVE SlotInv'
    BY <1>5 DEF SendFile
<1>6. ASSUME NEW c \in Conns, Close(c) PROVE SlotInv'
    BY <1>6 DEF Close
<1>7. ASSUME NEW c \in Conns, Connect(c) PROVE SlotInv'
    BY <1>7 DEF Connect
<1> QED
    BY <1>1, <1>2, <1>3, <1>4, <1>5, <1>6, <1>7 DEF Respond

\* Every step of server, children and clients keeps the table right.
LEMMA SlotInvStep == SlotInv /\ [ServerNext]_serverVars => SlotInv'
<1> SUFFICES ASSUME SlotInv, [ServerNext]_serverVars PROVE SlotInv'
    OBVIOUS
<1>1. CASE ServerNext
    BY <1>1, AcceptStep, OtherServerSteps DEF ServerNext
<1>2. CASE UNCHANGED serverVars
    BY <1>2 DEF serverVars, SlotInv, ServerTypeOK, FreeSlot, ChildrenAccepted, AcceptedKeepSlots, Accepted
<1> QED
    BY <1>1, <1>2

-----------------------------------------------------------------------------
\* Connections that keep different slots are no more than there are slots.
LEMMA SlotsBound == SlotInv => IsFiniteSet(Accepted) /\ ServesConnMaxClients
<1> SUFFICES ASSUME SlotInv PROVE IsFiniteSet(Accepted) /\ ServesConnMaxClients
    OBVIOUS
<1> DEFINE slotOf == [c \in Accepted |-> CHOOSE s \in Slots : clients[s] = c]
<1>1. IsFiniteSet(Slots) /\ Cardinality(Slots) = CONNMAX
    BY FS_Interval, ServerAssumption DEF Slots
<1>2. \A c \in Accepted : slotOf[c] \in Slots /\ clients[slotOf[c]] = c
    BY DEF SlotInv, AcceptedKeepSlots
<1>3. slotOf \in Injection(Accepted, Slots)
  <2>1. slotOf \in [Accepted -> Slots]
      BY <1>2
  <2>2. \A c, d \in Accepted : slotOf[c] = slotOf[d] => c = d
      BY <1>2
  <2> QED
      BY <2>1, <2>2 DEF Injection, IsInjective
<1> QED
    BY <1>1, <1>3, FS_Injection DEF ServesConnMaxClients

\* At any number of slots and under any schedule of parent, children and clients, no more than
\* CONNMAX connections are ever accepted, whether their children have ended or not.
THEOREM ServerIsBounded == ServerSpec => []ServesConnMaxClients
<1> QED
    BY InitSlotInv, SlotInvStep, SlotsBound, PTL DEF ServerSpec

-----------------------------------------------------------------------------
(* 22: several files *)

PollTypeOK ==
    /\ pollAt \in {"start", "poll", "read", "hangup", "end"}
    /\ file \in Nat /\ revents \subseteq {"POLLIN", "POLLHUP"}
    /\ opened \subseteq Files /\ writing \subseteq Files
    /\ fileKind \in [Files -> {"regular", "fifo", "directory", "absent"}]
    /\ waiting \in [Files -> Nat] /\ put \in [Files -> Nat]
    /\ polled \in [waiting : Nat, put : Nat]

\* Only fifos are written, and only what was put in a file can be read from it.
FilesInv ==
    /\ pollAt = "start" => opened = {}
    /\ \A f \in Files : waiting[f] <= put[f]
    /\ \A f \in writing : fileKind[f] = "fifo"

\* What a file holds between poll and close is what it held when poll answered,
\* with what was put in it since and without what was read; a fifo that can be read
\* is not empty until it is read.  Whether somebody writes it may have changed.
EventsInv ==
    /\ pollAt \in {"read", "hangup"} => file \in Files /\ polled.put <= put[file]
    /\ pollAt = "read" =>
          /\ file \in opened /\ (fileKind[file] = "fifo" => polled.waiting > 0)
          /\ waiting[file] = polled.waiting + (put[file] - polled.put)
    /\ pollAt \in {"read", "hangup"} /\ "POLLHUP" \in revents => fileKind[file] = "fifo"
    /\ pollAt = "hangup" /\ "POLLHUP" \in revents =>
          waiting[file] <= (IF polled.waiting > 1 THEN polled.waiting - 1 ELSE 0)
                              + (put[file] - polled.put)

PollInv == PollTypeOK /\ FilesInv /\ EventsInv

\* Before the start no file is open, nothing is written and nothing was put anywhere.
LEMMA InitPollInv == PollInit => PollInv
BY DEF PollInit, PollInv, PollTypeOK, FilesInv, EventsInv

\* Moving on to the next file or round, with nothing else changed, keeps the types,
\* and leaves for a place where nothing is said of events.
LEMMA NextFileMoves ==
    ASSUME PollTypeOK, NEW n, NextFile(n)
    PROVE  pollAt' \in {"poll", "end"} /\ file' \in Nat
BY DEF PollTypeOK, NextFile

\* The files are opened: each holds what was put in it, and fifos are written.
LEMMA OpenFilesStep == PollInv /\ OpenFiles => PollInv'
<1> SUFFICES ASSUME PollInv, OpenFiles PROVE PollInv'
    OBVIOUS
<1>1. PICK k \in [Files -> {"regular", "fifo", "directory", "absent"}],
           n \in [Files -> 0..MaxPieces] :
         /\ fileKind' = k /\ waiting' = n /\ put' = n
         /\ opened' = {f \in Files : k[f] # "absent"}
         /\ writing' = {f \in Files : k[f] = "fifo"}
    BY DEF OpenFiles
<1>2. n \in [Files -> Nat]
    BY PollAssumption
<1>3. PollTypeOK'
    BY <1>1, <1>2 DEF PollInv, PollTypeOK, OpenFiles
<1>4. FilesInv'
    BY <1>1, <1>2 DEF FilesInv, OpenFiles
<1>5. EventsInv'
    BY DEF EventsInv, OpenFiles
<1> QED
    BY <1>3, <1>4, <1>5 DEF PollInv

\* Those who write put pieces, come and go: what is put in a file is both in it and
\* counted.
LEMMA WritersStep ==
    ASSUME PollInv, NEW f \in Files, WritePiece(f) \/ StartWriting(f) \/ StopWriting(f)
    PROVE  PollInv'
<1> USE DEF PollInv, PollTypeOK, FilesInv, EventsInv
<1>1. CASE WritePiece(f)
    BY <1>1 DEF WritePiece
<1>2. CASE StartWriting(f)
    BY <1>2 DEF StartWriting
<1>3. CASE StopWriting(f)
    BY <1>3 DEF StopWriting
<1> QED
    BY <1>1, <1>2, <1>3

\* The steps of the loop: poll looks at what the file holds, and a read takes a piece
\* of that.
LEMMA LoopStep == PollInv /\ PollStep => PollInv'
<1> SUFFICES ASSUME PollInv, PollStep PROVE PollInv'
    OBVIOUS
<1> USE DEF PollInv, PollTypeOK, FilesInv, EventsInv
<1>1. CASE SkipFile
    BY <1>1, NextFileMoves DEF SkipFile
<1>2. CASE Poll
  <2>1. file \in opened /\ UNCHANGED <<opened, fileKind, writing, waiting, put>>
      BY <1>2 DEF Poll
  <2>2. CASE /\ Events(file) # {} /\ revents' = Events(file)
             /\ pollAt' = (IF "POLLIN" \in Events(file) THEN "read" ELSE "hangup")
             /\ polled' = [waiting |-> waiting[file], put |-> put[file]]
             /\ UNCHANGED <<file, notAlive>>
    <3>1. Events(file) \subseteq {"POLLIN", "POLLHUP"}
        BY DEF Events
    <3>2. "POLLHUP" \in Events(file) => fileKind[file] = "fifo"
        BY DEF Events
    <3>3. /\ "POLLIN" \in Events(file) /\ fileKind[file] = "fifo" => waiting[file] > 0
          /\ "POLLIN" \notin Events(file) => ~(waiting[file] > 0)
        BY DEF Events
    <3> QED
        BY <2>1, <2>2, <3>1, <3>2, <3>3
  <2>3. CASE Events(file) = {} /\ NextFile(notAlive) /\ UNCHANGED <<revents, polled>>
      BY <2>1, <2>3, NextFileMoves
  <2> QED
      BY <1>2, <2>2, <2>3 DEF Poll
<1>3. CASE ReadPiece
    BY <1>3 DEF ReadPiece
<1>4. CASE HangUp
  <2>1. pollAt' \in {"poll", "end"} /\ file' \in Nat
      BY <1>4, NextFileMoves DEF HangUp
  <2> QED
      BY <1>4, <2>1 DEF HangUp
<1> QED
    BY <1>1, <1>2, <1>3, <1>4 DEF PollStep

\* Every step of the program and of those who write keeps PollInv.
LEMMA PollInvStep == PollInv /\ [PollNext]_pollVars => PollInv'
<1> SUFFICES ASSUME PollInv, [PollNext]_pollVars PROVE PollInv'
    OBVIOUS
<1>1. CASE UNCHANGED pollVars
    BY <1>1 DEF pollVars, PollInv, PollTypeOK, FilesInv, EventsInv
<1> QED
    BY <1>1, OpenFilesStep, LoopStep, WritersStep DEF PollNext

\* A file is closed in two steps only: when a read found its end, and then it is
\* empty, and when it was hung up.
LEMMA ClosingLoses ==
    ASSUME PollInv, [PollNext]_pollVars, NEW f \in opened \ opened', waiting'[f] > 0
    PROVE  /\ fileKind[f] = "fifo" /\ "POLLHUP" \in revents
           /\ waiting'[f] <= (IF polled.waiting > 1 THEN polled.waiting - 1 ELSE 0)
                                + (put[f] - polled.put)
<1> USE DEF PollInv, PollTypeOK, FilesInv, EventsInv
<1>1. CASE ReadPiece
  <2>1. ~(waiting[file] > 0) /\ f = file /\ UNCHANGED waiting
      BY <1>1 DEF ReadPiece
  <2> QED
      BY <2>1
<1>2. CASE HangUp
  <2>1. /\ pollAt = "hangup" /\ "POLLHUP" \in revents /\ f = file
        /\ UNCHANGED waiting
      BY <1>2 DEF HangUp
  <2> QED
      BY <2>1
<1>3. CASE OpenFiles
    BY <1>3 DEF OpenFiles
<1>4. CASE SkipFile \/ Poll \/ UNCHANGED pollVars
    BY <1>4 DEF SkipFile, Poll, pollVars
<1>5. CASE \E g \in Files : WritePiece(g) \/ StartWriting(g) \/ StopWriting(g)
    BY <1>5 DEF WritePiece, StartWriting, StopWriting
<1> QED
    BY <1>1, <1>2, <1>3, <1>4, <1>5 DEF PollNext, PollStep

\* However many files there are, whoever writes them and whenever: text is lost only
\* behind a hang-up that poll saw, and lost is at most what one read did not take and
\* what was put in the fifo after poll had answered.
THEOREM TextsAreRead == PollSpec => LostOnlyAtHangup
<1>1. PollInv /\ [PollNext]_pollVars =>
        [\A f \in opened \ opened' : waiting'[f] > 0 =>
            /\ fileKind[f] = "fifo" /\ "POLLHUP" \in revents
            /\ waiting'[f] <= (IF polled.waiting > 1 THEN polled.waiting - 1 ELSE 0)
                                 + (put[f] - polled.put)]_pollVars
    BY ClosingLoses
<1> QED
    BY <1>1, InitPollInv, PollInvStep, PTL DEF PollSpec, LostOnlyAtHangup

-----------------------------------------------------------------------------
(* read_line *)

Letter == {"c", "nl", "nul"}

ReadTypeOK ==
    /\ readAt \in {"start", "read", "line", "null"}
    /\ input \in Seq(Letter) /\ taken \in 0..Len(input)
    /\ buf \in Seq(Letter) /\ bufSize \in Nat

NoNul(n) == \A i \in 1..n : input[i] # "nul"

\* While it reads there is room in the buffer for a character and a NUL, and what
\* it has is all that was taken, characters of one line.
BufferInv ==
    /\ readAt = "start" => taken = 0 /\ buf = << >>
    /\ readAt \in {"start", "read"} => Len(buf) + 1 < bufSize
    /\ readAt = "read" /\ NoNul(taken) =>
          Len(buf) = taken /\ \A i \in 1..taken : buf[i] = "c" /\ input[i] = "c"

ReadInv == ReadTypeOK /\ BufferInv /\ LineIsWhole

\* Before the start the buffer is empty and has room.
LEMMA InitReadInv == ReadInit => ReadInv
<1> SUFFICES ASSUME ReadInit PROVE ReadInv
    OBVIOUS
<1>1. Len(buf) = 0 /\ Len(input) = 0 /\ buf \in Seq(Letter) /\ input \in Seq(Letter)
    BY EmptySeq DEF ReadInit
<1> QED  BY <1>1, LineAssumption DEF ReadInit, ReadInv, ReadTypeOK, BufferInv, LineIsWhole

\* fgets takes what comes next, at most n characters, up to the end of the line; less
\* only when that is all there is.
LEMMA TakenIsNext ==
    ASSUME input \in Seq(Letter), taken \in 0..Len(input), NEW n \in Nat
    PROVE  LET part == Taken(n)
           IN  /\ part \in Seq(Letter) /\ Len(part) <= n /\ taken + Len(part) <= Len(input)
               /\ \A i \in 1..Len(part) : part[i] = input[taken + i]
               /\ \A i \in 1..Len(part) : i < Len(part) => part[i] # "nl"
               /\ \/ Len(part) = n \/ taken + Len(part) = Len(input)
                  \/ part # << >> /\ part[Len(part)] = "nl"
<1> DEFINE remains == SubSeq(input, taken + 1, Len(input))
           most == IF n < Len(remains) THEN n ELSE Len(remains)
           all == SubSeq(remains, 1, most)
           breaks == {i \in DOMAIN all : all[i] = "nl"}
           least == CHOOSE i \in breaks : \A j \in breaks : i <= j
           part == Taken(n)
<1>1. /\ remains \in Seq(Letter) /\ Len(remains) = Len(input) - taken
      /\ \A i \in 1..Len(remains) : remains[i] = input[taken + i]
    BY SubSeqProperties
<1> HIDE DEF remains
<1>2. /\ Len(input) \in Nat /\ taken \in Nat /\ most \in Nat /\ most <= n /\ most <= Len(remains)
      /\ most = n \/ most = Len(remains)
    BY <1>1, LenProperties
<1> HIDE DEF most
<1>3. all \in Seq(Letter) /\ Len(all) = most /\ \A i \in 1..most : all[i] = remains[i]
    BY <1>1, <1>2, SubSeqProperties
<1> HIDE DEF all
<1>4. breaks = {i \in 1..most : all[i] = "nl"}
    BY <1>3, LenProperties
<1>5. part = IF breaks = {} THEN all ELSE SubSeq(all, 1, least)
    BY Zenon DEF Taken, breaks, least, all, most, remains
<1>6. ASSUME NEW i \in 1..most PROVE all[i] = input[taken + i]
  <2>1. i \in 1..Len(remains)
      BY <1>1, <1>2
  <2> QED  BY <1>1, <1>3, <2>1
<1> HIDE DEF part, least
<1>7. CASE breaks = {}
  <2>1. part = all
      BY <1>5, <1>7
  <2>2. \A i \in 1..most : all[i] # "nl"
      BY <1>4, <1>7
  <2>3. /\ part \in Seq(Letter) /\ Len(part) = most
        /\ \A i \in 1..Len(part) : part[i] = input[taken + i] /\ part[i] # "nl"
      BY <1>3, <1>6, <2>1, <2>2
  <2>4. /\ Len(part) <= n /\ taken + Len(part) <= Len(input)
        /\ Len(part) = n \/ taken + Len(part) = Len(input)
      BY <1>1, <1>2, <2>3
  <2> QED  BY <2>3, <2>4 DEF part
<1>8. CASE breaks # {}
  <2>1. least \in breaks /\ \A j \in breaks : least <= j
    <3> HIDE DEF breaks
    <3>1. breaks \subseteq Nat
        BY <1>2, <1>4
    <3> QED  BY <1>8, <3>1, LeastChosen DEF least
  <2>2. /\ least \in 1..most /\ all[least] = "nl"
        /\ \A i \in 1..most : i < least => all[i] # "nl"
      BY <1>2, <1>4, <2>1
  <2>3. part = SubSeq(all, 1, least)
      BY <1>5, <1>8
  <2>4. part \in Seq(Letter) /\ Len(part) = least /\ \A i \in 1..least : part[i] = all[i]
      BY <1>2, <1>3, <2>2, <2>3, SubSeqProperties
  <2>5. part # << >> /\ part[Len(part)] = "nl"
      BY <2>2, <2>4
  <2>6. Len(part) <= n /\ taken + Len(part) <= Len(input)
      BY <1>1, <1>2, <2>2, <2>4
  <2>7. \A i \in 1..Len(part) : part[i] = input[taken + i]
    <3>1. \A i \in 1..least : i \in 1..most
        BY <1>2, <2>2
    <3> QED  BY <1>6, <2>4, <3>1
  <2>8. \A i \in 1..Len(part) : i < Len(part) => part[i] # "nl"
      BY <1>2, <2>2, <2>4
  <2> QED  BY <2>4, <2>5, <2>6, <2>7, <2>8 DEF part
<1> QED  BY <1>7, <1>8

\* strlen stops at the first NUL.
LEMMA UpToNulStops ==
    ASSUME NEW s \in Seq(Letter)
    PROVE  /\ UpToNul(s) \in Seq(Letter) /\ Len(UpToNul(s)) <= Len(s)
           /\ (\A i \in 1..Len(s) : s[i] # "nul") => UpToNul(s) = s
<1> DEFINE nuls == {i \in DOMAIN s : s[i] = "nul"}
           least == CHOOSE i \in nuls : \A j \in nuls : i <= j
<1>1. Len(s) \in Nat /\ DOMAIN s = 1..Len(s)
    BY LenProperties
<1>2. UpToNul(s) = IF nuls = {} THEN s ELSE SubSeq(s, 1, least - 1)
    BY Zenon DEF UpToNul
<1> HIDE DEF least
<1>3. CASE nuls = {}
    BY <1>1, <1>2, <1>3
<1>4. CASE nuls # {}
  <2>1. least \in nuls
    <3>1. nuls \subseteq Nat
        BY <1>1
    <3> HIDE DEF nuls
    <3> QED  BY <1>4, <3>1, LeastChosen DEF least
  <2>2. least \in 1..Len(s) /\ s[least] = "nul"
      BY <1>1, <2>1
  <2>3. UpToNul(s) = SubSeq(s, 1, least - 1)
      BY <1>2, <1>4
  <2>4. UpToNul(s) \in Seq(Letter) /\ Len(UpToNul(s)) <= Len(s)
      BY <1>1, <2>2, <2>3, SubSeqProperties
  <2> QED  BY <2>2, <2>4
<1> QED  BY <1>3, <1>4

\* A part is read: it is put in the buffer, and returned if the line breaks with it.
LEMMA ReadPartStep == ReadInv /\ ReadPart => ReadInv'
<1> SUFFICES ASSUME ReadTypeOK, BufferInv, LineIsWhole, ReadPart PROVE ReadInv'
    BY DEF ReadInv
<1> DEFINE room == bufSize - Len(buf) - 1
           part == Taken(room)
           s == buf \o UpToNul(part)
<1>1. /\ readAt = "read" /\ input' = input /\ taken' = taken + Len(part)
      /\ \/ part = << >> /\ buf # << >> /\ Returns(buf) /\ UNCHANGED bufSize
         \/ readAt' = "null" /\ UNCHANGED <<buf, bufSize>>
         \/ UpToNul(part) # << >> /\ Finished(s) /\ Returns(s) /\ UNCHANGED bufSize
         \/ UpToNul(part) # << >> /\ ~Finished(s) /\ Double /\ buf' = s /\ UNCHANGED readAt
    BY DEF ReadPart
<1>2. /\ input \in Seq(Letter) /\ taken \in 0..Len(input) /\ Len(input) \in Nat
      /\ buf \in Seq(Letter) /\ bufSize \in Nat /\ Len(buf) \in Nat
    BY LenProperties DEF ReadTypeOK
<1>3. room \in Nat /\ room > 0 /\ room = bufSize - Len(buf) - 1
    BY <1>1, <1>2 DEF BufferInv
<1> HIDE DEF room
<1>4. /\ part \in Seq(Letter) /\ Len(part) <= room /\ taken + Len(part) <= Len(input)
      /\ \A i \in 1..Len(part) : part[i] = input[taken + i]
      /\ \A i \in 1..Len(part) : i < Len(part) => part[i] # "nl"
      /\ \/ Len(part) = room \/ taken + Len(part) = Len(input)
         \/ part # << >> /\ part[Len(part)] = "nl"
    BY <1>2, <1>3, TakenIsNext
<1> HIDE DEF part
<1>5. /\ Len(part) \in Nat /\ UpToNul(part) \in Seq(Letter) /\ Len(UpToNul(part)) <= Len(part)
      /\ Len(UpToNul(part)) \in Nat
      /\ (\A i \in 1..Len(part) : part[i] # "nul") => UpToNul(part) = part
    BY <1>4, LenProperties, UpToNulStops
<1>6. /\ s \in Seq(Letter) /\ Len(s) = Len(buf) + Len(UpToNul(part))
      /\ \A i \in 1..Len(s) : s[i] = IF i <= Len(buf) THEN buf[i] ELSE UpToNul(part)[i - Len(buf)]
    BY <1>2, <1>5, ConcatProperties
<1> HIDE DEF s
<1>7. Len(s) \in Nat /\ Len(s) + 1 <= bufSize
    BY <1>2, <1>3, <1>4, <1>5, <1>6
<1>8. taken' \in 0..Len(input) /\ taken' \in Nat
    BY <1>1, <1>2, <1>4, <1>5
\* What was taken is in the buffer, but for NULs.
<1>9. ASSUME NoNul(taken)'
      PROVE  /\ UpToNul(part) = part /\ Len(s) = taken' /\ Len(buf) = taken
             /\ \A i \in 1..taken : buf[i] = "c" /\ input[i] = "c"
             /\ \A i \in 1..Len(s) : s[i] = input[i] /\ s[i] # "nul" /\ (i < Len(s) => s[i] = "c")
  <2>1. \A i \in 1..taken' : input[i] # "nul"
      BY <1>1, <1>9 DEF NoNul
  <2>2. Len(buf) = taken /\ \A i \in 1..taken : buf[i] = "c" /\ input[i] = "c"
    <3>1. NoNul(taken)
        BY <1>1, <1>2, <1>5, <2>1 DEF NoNul
    <3> QED  BY <1>1, <3>1 DEF BufferInv
  <2>3. \A i \in 1..Len(part) : part[i] # "nul"
    <3>1. \A i \in 1..Len(part) : taken + i \in 1..taken'
        BY <1>1, <1>2, <1>5
    <3> QED  BY <1>4, <2>1, <3>1
  <2>4. UpToNul(part) = part /\ Len(s) = taken'
      BY <1>1, <1>5, <1>6, <2>2, <2>3
  <2>5. ASSUME NEW i \in 1..Len(s)
        PROVE  s[i] = input[i] /\ s[i] # "nul" /\ (i < Len(s) => s[i] = "c")
    <3>1. CASE i <= taken
        BY <1>2, <1>6, <2>2, <3>1
    <3>2. CASE i > taken
      <4> DEFINE j == i - taken
      <4>1. j \in 1..Len(part) /\ taken + j = i /\ (i < Len(s) => j < Len(part))
          BY <1>1, <1>2, <1>5, <2>4, <3>2
      <4>2. s[i] = part[j] /\ part[j] = input[i] /\ part[j] # "nul" /\ part[j] \in Letter
          BY <1>2, <1>4, <1>6, <2>2, <2>3, <2>4, <3>2, <4>1, ElementOfSeq
      <4> QED  BY <1>4, <4>1, <4>2 DEF Letter
    <3> QED  BY <1>2, <3>1, <3>2
  <2> QED  BY <2>2, <2>4, <2>5
<1>10. CASE part = << >> /\ buf # << >> /\ Returns(buf) /\ UNCHANGED bufSize
  <2>1. /\ readAt' = "line" /\ taken' = taken
        /\ buf' = WithoutNewline(buf) /\ Len(buf) > 0
      BY <1>1, <1>2, <1>10, EmptySeq, LenProperties DEF Returns
  <2>2. buf' \in Seq(Letter)
    <3>1. SubSeq(buf, 1, Len(buf) - 1) \in Seq(Letter)
        BY <1>2, SubSeqProperties, ElementOfSeq
    <3> QED  BY <1>2, <2>1, <3>1 DEF WithoutNewline
  <2>3. LineIsWhole'
    <3> SUFFICES ASSUME NoNul(taken)'
                 PROVE  /\ \A i \in DOMAIN buf' : buf'[i] = "c" /\ input[i] = "c"
                        /\ Len(buf') >= Len(input)
        BY <1>1, <1>2, <2>2, LenProperties DEF LineIsWhole, NoNul
    <3>1. Len(buf) = taken /\ \A i \in 1..taken : buf[i] = "c" /\ input[i] = "c"
        BY <1>9
    <3>2. buf' = buf
        BY <1>2, <2>1, <3>1 DEF WithoutNewline
    <3>3. taken = Len(input)
        BY <1>2, <1>3, <1>4, <1>10
    <3> QED  BY <1>2, <3>1, <3>2, <3>3, LenProperties
  <2> QED  BY <1>1, <1>2, <1>8, <1>10, <2>1, <2>2, <2>3 DEF ReadInv, ReadTypeOK, BufferInv
<1>11. CASE readAt' = "null" /\ UNCHANGED <<buf, bufSize>>
    BY <1>1, <1>2, <1>8, <1>11 DEF ReadInv, ReadTypeOK, BufferInv, LineIsWhole
<1>12. CASE UpToNul(part) # << >> /\ Finished(s) /\ Returns(s) /\ UNCHANGED bufSize
  <2>1. readAt' = "line" /\ buf' = WithoutNewline(s) /\ Len(s) > 0
      BY <1>2, <1>5, <1>6, <1>12, EmptySeq, LenProperties DEF Returns
  <2>2. /\ SubSeq(s, 1, Len(s) - 1) \in Seq(Letter) /\ Len(SubSeq(s, 1, Len(s) - 1)) = Len(s) - 1
        /\ \A i \in 1..(Len(s) - 1) : SubSeq(s, 1, Len(s) - 1)[i] = s[i]
    <3>1. Len(s) - 1 \in 0..Len(s)
        BY <1>7, <2>1
    <3> QED  BY <1>6, <3>1, Beginning
  <2>3. buf' \in Seq(Letter)
      BY <1>6, <2>1, <2>2 DEF WithoutNewline
  <2>4. LineIsWhole'
    <3> SUFFICES ASSUME NoNul(taken)'
                 PROVE  /\ \A i \in 1..Len(buf') : buf'[i] = "c" /\ input[i] = "c"
                        /\ Len(buf') < Len(input) => input[Len(buf') + 1] = "nl" /\ taken' = Len(buf') + 1
        BY <1>1, <1>2, <2>3, LenProperties DEF LineIsWhole, NoNul
    <3>1. /\ UpToNul(part) = part /\ Len(s) = taken' /\ Len(buf) = taken
          /\ \A i \in 1..Len(s) : s[i] = input[i] /\ s[i] # "nul" /\ (i < Len(s) => s[i] = "c")
        BY <1>9
    <3>2. CASE s[Len(s)] = "nl"
      <4>1. buf' = SubSeq(s, 1, Len(s) - 1)
          BY <2>1, <3>2 DEF WithoutNewline
      <4>2. \A i \in 1..Len(buf') : i \in 1..Len(s) /\ i < Len(s)
          BY <1>7, <2>1, <2>2, <4>1
      <4> QED  BY <1>7, <2>1, <2>2, <3>1, <3>2, <4>1, <4>2
    <3>3. CASE s[Len(s)] # "nl"
      <4>1. buf' = s
          BY <2>1, <3>3 DEF WithoutNewline
      <4>2. Len(s) + 1 < bufSize
          BY <1>12, <3>3 DEF Finished
      <4>3. Len(part) # room
          BY <1>2, <1>3, <1>5, <1>6, <3>1, <4>2
      <4>4. taken' = Len(input)
        <5>1. part # << >> => part[Len(part)] # "nl"
          <6>1. ASSUME part # << >> PROVE s[Len(s)] = part[Len(part)]
            <7>1. Len(s) \in 1..Len(s) /\ Len(s) > Len(buf) /\ Len(s) - Len(buf) = Len(part)
                BY <1>2, <1>4, <1>5, <1>6, <3>1, <6>1, EmptySeq, LenProperties
            <7> QED  BY <1>6, <3>1, <7>1
          <6> QED  BY <3>3, <6>1
        <5> QED  BY <1>1, <1>4, <4>3, <5>1
      <4>5. s[Len(s)] = "c"
        <5>1. Len(s) \in 1..Len(s) /\ s[Len(s)] \in Letter
            BY <1>6, <1>7, <2>1, ElementOfSeq
        <5> QED  BY <3>1, <3>3, <5>1 DEF Letter
      <4>6. \A i \in 1..Len(s) : s[i] = "c" /\ input[i] = "c"
          BY <1>7, <3>1, <4>5
      <4> QED  BY <1>2, <3>1, <4>1, <4>4, <4>6
    <3> QED  BY <3>2, <3>3
  <2> QED  BY <1>1, <1>2, <1>8, <1>12, <2>1, <2>3, <2>4 DEF ReadInv, ReadTypeOK, BufferInv
<1>13. CASE UpToNul(part) # << >> /\ ~Finished(s) /\ Double /\ buf' = s /\ UNCHANGED readAt
  <2>1. bufSize' = 2 * bufSize /\ bufSize' \in Nat /\ Len(s) + 1 < bufSize' /\ s[Len(s)] # "nl"
      BY <1>2, <1>3, <1>7, <1>13 DEF Finished, Double
  <2>2. NoNul(taken)' => Len(s) = taken' /\ \A i \in 1..taken' : s[i] = "c" /\ input[i] = "c"
    <3> SUFFICES ASSUME NoNul(taken)'
                 PROVE  Len(s) = taken' /\ \A i \in 1..taken' : s[i] = "c" /\ input[i] = "c"
        OBVIOUS
    <3>1. /\ Len(s) = taken'
          /\ \A i \in 1..Len(s) : s[i] = input[i] /\ s[i] # "nul" /\ (i < Len(s) => s[i] = "c")
        BY <1>9
    <3>2. \A i \in 1..Len(s) : s[i] \in Letter
        BY <1>6, ElementOfSeq
    <3> QED  BY <1>7, <2>1, <3>1, <3>2 DEF Letter
  <2>3. BufferInv'
      BY <1>1, <1>13, <2>1, <2>2 DEF BufferInv, NoNul
  <2> QED  BY <1>1, <1>2, <1>6, <1>8, <1>13, <2>1, <2>3 DEF ReadInv, ReadTypeOK, LineIsWhole
<1> QED  BY <1>1, <1>10, <1>11, <1>12, <1>13

\* A line without NULs comes back whole, for every input and every size of the
\* first buffer (read_line).
THEOREM LinesReadWhole == ReadSpec => []LineIsWhole
<1>1. ReadInv /\ [ReadNext]_readVars => ReadInv'
  <2> SUFFICES ASSUME ReadInv, [ReadNext]_readVars PROVE ReadInv'
      OBVIOUS
  <2>1. CASE UNCHANGED readVars
      BY <2>1 DEF readVars, ReadInv, ReadTypeOK, BufferInv, LineIsWhole, NoNul
  <2>2. ASSUME readAt = "start", NEW n \in 0..MaxInput, NEW txt \in [1..n -> {"c", "nl", "nul"}],
               StartReading(txt)
        PROVE  ReadInv'
    <3>1. txt \in Seq(Letter)
        BY LineAssumption, IsASeq DEF Letter
    <3>2. taken = 0 /\ Len(buf) = 0 /\ Len(txt) \in Nat
        BY <2>2, <3>1, LenProperties DEF ReadInv, BufferInv
    <3> QED
        BY <2>2, <3>1, <3>2 DEF StartReading, ReadInv, ReadTypeOK, BufferInv, LineIsWhole, NoNul
  <2>3. CASE ReadPart
      BY <2>3, ReadPartStep
  <2> QED  BY <2>1, <2>2, <2>3 DEF ReadNext
<1>2. ReadInv => LineIsWhole
    BY DEF ReadInv
<1> QED  BY <1>1, <1>2, InitReadInv, PTL DEF ReadSpec

-----------------------------------------------------------------------------
(* 17: the line editor *)

\* f[i] is the first i of the sequences, one after the other.
Joins(f, seqs, n) ==
    f = [i \in 1..n |-> IF i = 1 THEN seqs[i] ELSE f[i - 1] \o seqs[i]]

\* Sequences can be joined, however many they are.
LEMMA JoinExists ==
    ASSUME NEW seqs, NEW n \in Nat \ {0} PROVE \E f : Joins(f, seqs, n)
<1> DEFINE T == {m \in Nat \ {0} : ~ \E f : Joins(f, seqs, m)}
<1>1. SUFFICES ASSUME T # {} PROVE FALSE
    OBVIOUS
<1>2. PICK m \in T : \A k \in T : m <= k
  <2>1. T \subseteq Nat
      OBVIOUS
  <2> HIDE DEF T
  <2> QED  BY <1>1, <2>1, LeastNatural
<1>3. m # 1
  <2>1. Joins([i \in 1..1 |-> seqs[i]], seqs, 1)
      BY DEF Joins
  <2> QED  BY <2>1
<1>4. PICK f : Joins(f, seqs, m - 1)
    BY <1>2, <1>3
<1> DEFINE g == [i \in 1..m |-> IF i <= m - 1 THEN f[i] ELSE f[m - 1] \o seqs[m]]
<1>5. \A i \in 1..m : g[i] = IF i = 1 THEN seqs[i] ELSE g[i - 1] \o seqs[i]
  <2>1. \A i \in 1..(m - 1) : f[i] = IF i = 1 THEN seqs[i] ELSE f[i - 1] \o seqs[i]
    <3> DEFINE e(i) == IF i = 1 THEN seqs[i] ELSE f[i - 1] \o seqs[i]
    <3>1. f = [i \in 1..(m - 1) |-> e(i)]
        BY <1>4 DEF Joins
    <3> HIDE DEF e
    <3>2. \A i \in 1..(m - 1) : f[i] = e(i)
        BY <3>1
    <3> QED  BY <3>2 DEF e
  <2>2. TAKE i \in 1..m
  <2>0. m \in Nat /\ m > 1 /\ i \in 1..m
      BY <1>2, <1>3
  <2>3. CASE i = 1
      BY <2>0, <2>1, <2>3
  <2>4. CASE i # 1 /\ i < m
    <3>1. i \in 1..(m - 1) /\ i - 1 \in 1..m /\ i - 1 <= m - 1 /\ i <= m - 1
        BY <2>0, <2>4
    <3>2. g[i] = f[i] /\ g[i - 1] = f[i - 1]
        BY <2>0, <3>1
    <3>3. f[i] = f[i - 1] \o seqs[i]
        BY <2>1, <2>4, <3>1
    <3> QED  BY <2>4, <3>2, <3>3
  <2>5. CASE i # 1 /\ i = m
    <3>1. i - 1 \in 1..m /\ i - 1 <= m - 1 /\ ~(i <= m - 1)
        BY <2>0, <2>5
    <3> QED  BY <2>5, <3>1
  <2> QED  BY <2>0, <2>3, <2>4, <2>5
<1>6. Joins(g, seqs, m)
  <2> DEFINE e(i) == IF i = 1 THEN seqs[i] ELSE g[i - 1] \o seqs[i]
  <2>1. g = [i \in 1..m |-> g[i]]
      OBVIOUS
  <2>2. \A i \in 1..m : g[i] = e(i)
      BY <1>5
  <2>3. g = [i \in 1..m |-> e(i)]
    <3> HIDE DEF g, e
    <3> QED  BY <2>1, <2>2
  <2> QED  BY <2>3, Zenon DEF Joins, e
<1> QED  BY <1>6

\* What a join is at each place.
LEMMA JoinAt ==
    ASSUME NEW seqs, NEW n, NEW f, Joins(f, seqs, n), NEW i \in 1..n
    PROVE  f[i] = IF i = 1 THEN seqs[i] ELSE f[i - 1] \o seqs[i]
<1> DEFINE e(j) == IF j = 1 THEN seqs[j] ELSE f[j - 1] \o seqs[j]
<1>1. f = [j \in 1..n |-> e(j)]
    BY DEF Joins
<1> HIDE DEF e
<1>2. f[i] = e(i)
    BY <1>1
<1> QED  BY <1>2 DEF e

\* What a join ends with.
LEMMA JoinNext ==
    ASSUME NEW seqs, NEW n \in Nat, NEW f, Joins(f, seqs, n + 1)
    PROVE  f[n + 1] = IF n = 0 THEN seqs[n + 1] ELSE f[n] \o seqs[n + 1]
<1>1. n + 1 \in 1..(n + 1) /\ n + 1 - 1 = n /\ (n + 1 = 1 <=> n = 0)
    OBVIOUS
<1>2. ASSUME NEW m, m = n + 1
      PROVE  f[m] = IF m = 1 THEN seqs[m] ELSE f[m - 1] \o seqs[m]
  <2>1. m \in 1..m /\ Joins(f, seqs, m)
      BY <1>1, <1>2
  <2> QED  BY <2>1, JoinAt
<1> QED  BY <1>1, <1>2

\* Both have the same n elements at the beginning.
BeginAlike(seqs, more, n) == \A i \in 1..n : seqs[i] = more[i]

\* There is one way to join sequences that begin alike.
LEMMA JoinUnique ==
    ASSUME NEW seqs, NEW more, NEW n \in Nat, NEW m \in Nat, n <= m,
           BeginAlike(seqs, more, n),
           NEW f, NEW g, Joins(f, seqs, n), Joins(g, more, m), NEW k \in 1..n
    PROVE  f[k] = g[k]
<1> DEFINE T == {i \in 1..n : f[i] # g[i]}
<1>1. SUFFICES ASSUME T # {} PROVE FALSE
    OBVIOUS
<1>2. PICK i \in T : \A j \in T : i <= j
  <2>1. T \subseteq Nat
      OBVIOUS
  <2> HIDE DEF T
  <2> QED  BY <1>1, <2>1, LeastNatural
<1>3. /\ i \in 1..n /\ i \in 1..m /\ f[i] # g[i] /\ seqs[i] = more[i]
    BY <1>2 DEF BeginAlike
<1>4. /\ f[i] = IF i = 1 THEN seqs[i] ELSE f[i - 1] \o seqs[i]
      /\ g[i] = IF i = 1 THEN more[i] ELSE g[i - 1] \o more[i]
    BY <1>3, JoinAt
<1>5. i # 1 => f[i - 1] = g[i - 1]
    BY <1>2, <1>3
<1> QED  BY <1>3, <1>4, <1>5

\* FlattenSeq is the whole of the join.
LEMMA FlattenIsJoin ==
    ASSUME NEW seqs, NEW n \in Nat \ {0}, Len(seqs) = n, NEW f, Joins(f, seqs, n)
    PROVE  FlattenSeq(seqs) = f[n]
<1> DEFINE h == CHOOSE g : Joins(g, seqs, n)
<1>1. Joins(h, seqs, n)
    BY JoinExists, Zenon
<1>2. FlattenSeq(seqs) = h[n]
    BY Zenon DEF FlattenSeq, Joins, h
<1>3. h[n] = f[n]
  <2>1. BeginAlike(seqs, seqs, n) /\ n \in Nat /\ n <= n /\ n \in 1..n
      BY DEF BeginAlike
  <2> QED  BY <1>1, <2>1, JoinUnique
<1> QED  BY <1>2, <1>3

\* One more row goes to the end.
LEMMA FlattenAppend ==
    ASSUME NEW S, NEW seqs \in Seq(Seq(S)), FlattenSeq(seqs) \in Seq(S), NEW x \in Seq(S)
    PROVE  FlattenSeq(Append(seqs, x)) = FlattenSeq(seqs) \o x
<1> DEFINE n == Len(seqs)
           more == Append(seqs, x)
<1>1. /\ n \in Nat /\ Len(more) = n + 1 /\ n + 1 \in Nat \ {0}
      /\ \A i \in 1..n : seqs[i] = more[i]
      /\ more[n + 1] = x
    BY LenProperties, AppendProperties
<1> HIDE DEF more
<1>2. PICK g : Joins(g, more, n + 1)
    BY <1>1, JoinExists
<1>3. FlattenSeq(more) = g[n + 1] /\ (n # 0 => g[n + 1] = g[n] \o x) /\ (n = 0 => g[n + 1] = x)
  <2>1. FlattenSeq(more) = g[n + 1]
      BY <1>1, <1>2, FlattenIsJoin
  <2>2. Joins(g, more, n + 1) /\ n \in Nat
      BY <1>1, <1>2
  <2> HIDE DEF n
  <2>3. g[n + 1] = IF n = 0 THEN more[n + 1] ELSE g[n] \o more[n + 1]
      BY <2>2, JoinNext
  <2>4. CASE n = 0
      BY <1>1, <2>1, <2>3, <2>4, Zenon
  <2>5. CASE n # 0
      BY <1>1, <2>1, <2>3, <2>5, Zenon
  <2> QED  BY <2>4, <2>5, Zenon
<1>4. CASE n = 0
  <2>1. seqs = << >>
      BY <1>4, EmptySeq
  <2>2. FlattenSeq(seqs) = << >>
      BY <1>4, <2>1 DEF FlattenSeq
  <2>3. << >> \o x = x
      BY ConcatEmptySeq
  <2> QED  BY <1>3, <1>4, <2>2, <2>3 DEF more
<1>5. CASE n # 0
  <2>1. PICK f : Joins(f, seqs, n)
      BY <1>1, <1>5, JoinExists
  <2>2. FlattenSeq(seqs) = f[n]
      BY <1>1, <1>5, <2>1, FlattenIsJoin
  <2>3. f[n] = g[n]
    <3>1. ASSUME NEW k \in Nat \ {0}, NEW m \in Nat, k = n, m = n + 1 PROVE f[k] = g[k]
      <4>1. Joins(f, seqs, k) /\ Joins(g, more, m) /\ BeginAlike(seqs, more, k)
          BY <1>1, <1>2, <2>1, <3>1 DEF BeginAlike
      <4>2. k \in Nat /\ k \in 1..k /\ k <= m
          BY <3>1
      <4> QED  BY <4>1, <4>2, JoinUnique
    <3> QED  BY <1>1, <1>5, <3>1
  <2> QED  BY <1>3, <1>5, <2>2, <2>3 DEF more
<1> QED  BY <1>4, <1>5

\* There is a longest end, and it is bounded by a character of the other kind.
LEMMA TailBounds ==
    ASSUME NEW S, NEW s \in Seq(S), NEW spaces \in BOOLEAN
    PROVE  LET n == TailLength(s, spaces)
           IN  /\ n \in 0..Len(s)
               /\ \A i \in (Len(s) - n + 1)..Len(s) : (s[i] = " ") = spaces
               /\ n = Len(s) \/ (s[Len(s) - n] = " ") # spaces
<1> DEFINE EndsHere(n) == n = Len(s) \/ (s[Len(s) - n] = " ") # spaces
           T == {n \in 0..Len(s) : EndsHere(n)}
           P(n) == /\ \A i \in (Len(s) - n + 1)..Len(s) : (s[i] = " ") = spaces
                   /\ EndsHere(n)
<1>1. Len(s) \in Nat /\ EndsHere(Len(s))
  <2>1. EndsHere(Len(s))
      BY Zenon
  <2> HIDE DEF EndsHere
  <2> QED  BY <2>1, LenProperties
<1> HIDE DEF EndsHere
<1>2. PICK n \in T : \A m \in T : n <= m
  <2>1. T \subseteq Nat
      BY <1>1
  <2>2. Len(s) \in T
      BY <1>1
  <2> HIDE DEF T
  <2> QED  BY <2>1, <2>2, LeastNatural
<1>3. n \in 0..Len(s) /\ EndsHere(n) /\ \A m \in 0..Len(s) : m < n => ~EndsHere(m)
    BY <1>1, <1>2
<1>4. ASSUME NEW i \in (Len(s) - n + 1)..Len(s) PROVE (s[i] = " ") = spaces
  <2> DEFINE m == Len(s) - i
  <2>1. m \in 0..Len(s) /\ m < n /\ i = Len(s) - m
      BY <1>1, <1>3
  <2> HIDE DEF m
  <2>2. ~EndsHere(m)
      BY <1>3, <2>1
  <2>3. (s[Len(s) - m] = " ") = spaces
      BY <2>2, Zenon DEF EndsHere
  <2> QED  BY <2>1, <2>3
<1>5. P(n)
    BY <1>3, <1>4, Zenon
<1> HIDE DEF P
<1>6. TailLength(s, spaces) = CHOOSE k \in 0..Len(s) : P(k)
    BY Zenon DEF TailLength, P, EndsHere
<1>7. TailLength(s, spaces) \in 0..Len(s) /\ P(TailLength(s, spaces))
  <2> DEFINE k == CHOOSE k \in 0..Len(s) : P(k)
  <2>1. k \in 0..Len(s) /\ P(k)
      BY <1>3, <1>5, Zenon
  <2> QED  BY <1>6, <2>1, Zenon
<1> QED  BY <1>7, Zenon DEF P, EndsHere

Space == " "

\* The last word of a line.
LEMMA WordBounds ==
    ASSUME NEW S, NEW s \in Seq(S)
    PROVE  LET n == WordLength(s)
           IN  /\ n \in 0..Len(s)
               /\ \A i \in (Len(s) - n + 1)..Len(s) : s[i] # Space
               /\ n = Len(s) \/ s[Len(s) - n] = Space
<1> DEFINE n == TailLength(s, FALSE)
<1>1. WordLength(s) = n
    BY Zenon DEF WordLength
<1>2. FALSE \in BOOLEAN
    OBVIOUS
<1>3. /\ n \in 0..Len(s)
      /\ \A i \in (Len(s) - n + 1)..Len(s) : (s[i] = " ") = FALSE
      /\ n = Len(s) \/ (s[Len(s) - n] = " ") # FALSE
    BY <1>2, TailBounds, Zenon
<1> HIDE DEF n
<1>4. \A i \in (Len(s) - n + 1)..Len(s) : s[i] # Space
    BY <1>3, Zenon DEF Space
<1>5. n = Len(s) \/ s[Len(s) - n] = Space
    BY <1>3, Zenon DEF Space
<1> QED  BY <1>1, <1>3, <1>4, <1>5, Zenon

-----------------------------------------------------------------------------
(* The invariant of the editor. *)

Keys == Letters \cup {" "}

EditTypeOK ==
    /\ line \in Seq(Keys) /\ rows \in Seq(Seq(Keys)) /\ FlattenSeq(rows) \in Seq(Keys)
    /\ Len(line) < LINESIZE

EditInv == EditTypeOK /\ ScreenShowsText

\* A line has room for a character.
LEMMA LinesAreLong == LINESIZE \in Nat /\ LINESIZE > 0
<1>1. LINESIZE \in Nat \ {0}
    BY EditorAssumption, Zenon
<1> QED  BY <1>1

EmptyScreen == line = << >> /\ row = << >> /\ rows = << >> /\ kept = << >>

\* An empty screen shows an empty text.
LEMMA InitEditInv == EmptyScreen => EditInv
<1> SUFFICES ASSUME EmptyScreen PROVE EditInv
    OBVIOUS
<1>1. << >> \in Seq(Keys) /\ << >> \in Seq(Seq(Keys)) /\ Len(<< >>) = 0
    BY EmptySeq
<1>2. FlattenSeq(<< >>) = << >> /\ << >> \o << >> = << >> /\ DOMAIN << >> = {}
    BY <1>1, ConcatEmptySeq, LenProperties DEF FlattenSeq
<1>3. line = << >> /\ row = << >> /\ rows = << >> /\ kept = << >>
    BY DEF EmptyScreen
<1>4. EditTypeOK
  <2>1. Len(line) < LINESIZE
    <3>1. Len(line) = 0
        BY <1>1, <1>3, Zenon
    <3> QED  BY <3>1, LinesAreLong
  <2>2. FlattenSeq(rows) \in Seq(Keys)
    <3>1. FlattenSeq(rows) = << >>
        BY <1>2, <1>3, Zenon
    <3> QED  BY <1>1, <3>1
  <2> QED  BY <1>1, <1>3, <2>1, <2>2 DEF EditTypeOK
<1>5. ScreenShowsText
    BY <1>1, <1>2, <1>3 DEF ScreenShowsText, RowsBreakAtSpaces
<1> QED  BY <1>4, <1>5 DEF EditInv

\* What is left of a text when its last characters are erased.
LEMMA ErasedIs ==
    ASSUME NEW S, NEW t \in Seq(S), NEW n \in 0..Len(t)
    PROVE  /\ Erased(t, n) \in Seq(S) /\ Len(Erased(t, n)) = Len(t) - n
           /\ \A i \in 1..(Len(t) - n) : Erased(t, n)[i] = t[i]
<1>1. Len(t) \in Nat /\ Len(t) - n \in 0..Len(t)
    BY LenProperties
<1> QED  BY <1>1, Beginning DEF Erased

\* The last characters of a text.
LEMMA EndIs ==
    ASSUME NEW S, NEW t \in Seq(S), NEW n \in 0..Len(t)
    PROVE  SubSeq(t, Len(t) - n + 1, Len(t)) \in Seq(S) /\ Len(SubSeq(t, Len(t) - n + 1, Len(t))) = n
<1>1. Len(t) \in Nat /\ Len(t) - n + 1 \in Int /\ Len(t) - n + 1 > 0 /\ Len(t) \in Int
    BY LenProperties
<1>2. \A i \in (Len(t) - n + 1)..Len(t) : t[i] \in S
    BY <1>1, ElementOfSeq
<1> QED  BY <1>1, <1>2, SubSeqProperties

\* Erasing from the end of a text erases from the end of its last part.
LEMMA ErasedEnd ==
    ASSUME NEW S, NEW s \in Seq(S), NEW t \in Seq(S), NEW n \in 0..Len(t)
    PROVE  Erased(s \o t, n) = s \o Erased(t, n)
<1>1. Len(s) \in Nat /\ Len(t) \in Nat
    BY LenProperties
<1>2. /\ Erased(t, n) \in Seq(S) /\ Len(Erased(t, n)) = Len(t) - n
      /\ \A i \in 1..(Len(t) - n) : Erased(t, n)[i] = t[i]
    BY ErasedIs
<1>3. /\ s \o t \in Seq(S) /\ Len(s \o t) = Len(s) + Len(t)
      /\ \A i \in 1..(Len(s) + Len(t)) : (s \o t)[i] = IF i <= Len(s) THEN s[i] ELSE t[i - Len(s)]
    BY ConcatProperties
<1>4. n \in 0..Len(s \o t)
    BY <1>1, <1>3
<1>5. /\ Erased(s \o t, n) \in Seq(S) /\ Len(Erased(s \o t, n)) = Len(s \o t) - n
      /\ \A i \in 1..(Len(s \o t) - n) : Erased(s \o t, n)[i] = (s \o t)[i]
    BY <1>3, <1>4, ErasedIs
<1> DEFINE u == Erased(t, n)
           v == Erased(s \o t, n)
<1>6. /\ s \o u \in Seq(S) /\ Len(s \o u) = Len(s) + Len(u)
      /\ \A i \in 1..(Len(s) + Len(u)) : (s \o u)[i] = IF i <= Len(s) THEN s[i] ELSE u[i - Len(s)]
    BY <1>2, ConcatProperties
<1>7. v \in Seq(S) /\ Len(v) = Len(s) + Len(t) - n /\ Len(s \o u) = Len(s) + Len(t) - n
    BY <1>1, <1>2, <1>3, <1>5, <1>6
<1>8. ASSUME NEW i \in 1..Len(v) PROVE v[i] = (s \o u)[i]
  <2>1. /\ i \in 1..(Len(s \o t) - n) /\ i \in 1..(Len(s) + Len(t)) /\ i \in 1..(Len(s) + Len(u))
        /\ i > Len(s) => i - Len(s) \in 1..(Len(t) - n)
      BY <1>1, <1>2, <1>3, <1>7
  <2>2. v[i] = (s \o t)[i]
      BY <1>5, <2>1
  <2> HIDE DEF u, v
  <2>3. CASE i <= Len(s)
      BY <1>3, <1>6, <2>1, <2>2, <2>3
  <2>4. CASE i > Len(s)
      BY <1>1, <1>2, <1>3, <1>6, <2>1, <2>2, <2>4 DEF u
  <2> QED  BY <1>1, <2>1, <2>3, <2>4
<1>9. v = s \o u
  <2> HIDE DEF u, v
  <2> QED  BY <1>6, <1>7, <1>8, SeqEqual
<1> QED  BY <1>9

\* What is erased is the end of the line, of the last row and of the text alike.
LEMMA EraseStep == EditInv /\ Erase => EditInv'
<1> SUFFICES ASSUME EditTypeOK, ScreenShowsText, Erase PROVE EditInv'
    BY DEF EditInv
<1> DEFINE done == FlattenSeq(rows)
<1>1. /\ line \in Seq(Keys) /\ done \in Seq(Keys) /\ Len(line) \in Nat /\ Len(line) < LINESIZE
      /\ row = line /\ kept = done \o line /\ rows' = rows
    BY LenProperties DEF EditTypeOK, ScreenShowsText, Erase
<1>2. EraseLast \in 0..Len(line) /\ EraseAll \in 0..Len(line)
    BY <1>1, EmptySeq DEF EraseLast, EraseAll
<1>3. EraseWord \in 0..Len(line)
  <2> DEFINE n == TailLength(line, TRUE)
  <2>1. n \in 0..Len(line)
    <3>1. TRUE \in BOOLEAN
        OBVIOUS
    <3> QED  BY <1>1, <3>1, TailBounds, Zenon
  <2> HIDE DEF n
  <2>2. Erased(line, n) \in Seq(Keys) /\ Len(Erased(line, n)) = Len(line) - n
      BY <1>1, <2>1, ErasedIs
  <2>3. WordLength(Erased(line, n)) \in 0..Len(Erased(line, n))
      BY <2>2, WordBounds, Zenon
  <2>4. EraseWord = n + WordLength(Erased(line, n))
      BY Zenon DEF EraseWord, n
  <2> QED  BY <1>1, <2>1, <2>2, <2>3, <2>4
<1>4. PICK n \in 0..Len(line) :
        line' = Erased(line, n) /\ row' = Erased(row, n) /\ kept' = Erased(kept, n)
  <2>1. \E n \in {EraseLast, EraseAll, EraseWord} :
          line' = Erased(line, n) /\ row' = Erased(row, n) /\ kept' = Erased(kept, n)
      BY Zenon DEF Erase
  <2> QED  BY <1>2, <1>3, <2>1, Zenon
<1> HIDE DEF done
<1>5. /\ Erased(line, n) \in Seq(Keys) /\ Len(Erased(line, n)) = Len(line) - n
      /\ Erased(done \o line, n) = done \o Erased(line, n)
  <2>1. Erased(line, n) \in Seq(Keys) /\ Len(Erased(line, n)) = Len(line) - n
      BY <1>1, ErasedIs
  <2>2. Erased(done \o line, n) = done \o Erased(line, n)
      BY <1>1, ErasedEnd
  <2> QED  BY <2>1, <2>2
<1>6. line' \in Seq(Keys) /\ Len(line') < LINESIZE /\ row' = line' /\ kept' = done \o line'
  <2>1. kept' = done \o line'
      BY <1>1, <1>4, <1>5, Zenon
  <2>2. Len(line') = Len(line) - n /\ LINESIZE \in Nat
      BY <1>4, <1>5, LinesAreLong
  <2> QED  BY <1>1, <1>4, <1>5, <2>1, <2>2
<1> QED
    BY <1>1, <1>6 DEF EditInv, EditTypeOK, ScreenShowsText, RowsBreakAtSpaces, done

\* A character goes to the end of a text and of its last part alike.
LEMMA AppendToEnd ==
    ASSUME NEW S, NEW s \in Seq(S), NEW t \in Seq(S), NEW x \in S
    PROVE  Append(s \o t, x) = s \o Append(t, x) /\ Append(t, x) \in Seq(S)
<1>1. s \o t \in Seq(S) /\ <<x>> \in Seq(S) /\ Append(t, x) \in Seq(S)
    BY ConcatProperties, AppendProperties
<1>2. Append(s \o t, x) = (s \o t) \o <<x>> /\ Append(t, x) = t \o <<x>>
    BY <1>1, AppendIsConcat
<1>3. (s \o t) \o <<x>> = s \o (t \o <<x>>)
    BY <1>1, ConcatAssociative
<1> QED  BY <1>1, <1>2, <1>3, Zenon

\* A key that still fits in the line.
LEMMA ShortTypeStep ==
    ASSUME EditInv, NEW ch \in Keys, Len(Append(line, ch)) < LINESIZE,
           line' = Append(line, ch), row' = Append(row, ch), rows' = rows, kept' = Append(kept, ch)
    PROVE  EditInv'
<1> DEFINE done == FlattenSeq(rows)
<1>1. line \in Seq(Keys) /\ done \in Seq(Keys) /\ row = line /\ kept = done \o line
    BY DEF EditInv, EditTypeOK, ScreenShowsText
<1> HIDE DEF done
<1>2. Append(done \o line, ch) = done \o Append(line, ch) /\ Append(line, ch) \in Seq(Keys)
    BY <1>1, AppendToEnd
<1>3. kept' = done \o row' /\ row' = line' /\ line' \in Seq(Keys) /\ Len(line') < LINESIZE
    BY <1>1, <1>2, Zenon
<1>4. FlattenSeq(rows)' = done /\ RowsBreakAtSpaces' /\ rows' \in Seq(Seq(Keys))
    BY DEF EditInv, EditTypeOK, ScreenShowsText, RowsBreakAtSpaces, done
<1> QED
    BY <1>1, <1>3, <1>4, Zenon DEF EditInv, EditTypeOK, ScreenShowsText

\* A row as the screen shows it above the last.
GoodRow(r) ==
    \/ r # << >> /\ r[Len(r)] = Space /\ Len(r) <= LINESIZE
    \/ Len(r) = LINESIZE /\ \A j \in DOMAIN r : r[j] # Space

\* All rows are.
LEMMA RowsAreGood == (RowsBreakAtSpaces <=> \A i \in DOMAIN rows : GoodRow(rows[i]))
BY Zenon DEF RowsBreakAtSpaces, GoodRow, Space

\* Three texts one after the other are a text.
LEMMA ThreeParts == \A S : \A t, u, v \in Seq(S) : (t \o u) \o v = t \o (u \o v)
<1> SUFFICES ASSUME NEW S, NEW t \in Seq(S), NEW u \in Seq(S), NEW v \in Seq(S)
             PROVE  (t \o u) \o v = t \o (u \o v)
    OBVIOUS
<1> QED  BY ConcatAssociative

\* A line that is full goes on in a new row.
LEMMA WrapStep ==
    ASSUME EditInv, NEW ch \in Keys, NEW l, l = Append(line, ch), Len(l) = LINESIZE,
           Wrap(l, Append(row, ch)), kept' = Append(kept, ch)
    PROVE  EditInv'
<1> DEFINE done == FlattenSeq(rows)
           n == WordLength(l)
           w == IF n < Len(l) THEN n ELSE 0
           above == Erased(l, w)
           word == SubSeq(l, Len(l) - w + 1, Len(l))
<1>1. /\ line \in Seq(Keys) /\ done \in Seq(Keys) /\ rows \in Seq(Seq(Keys)) /\ row = line /\ kept = done \o line
      /\ RowsBreakAtSpaces
    BY DEF EditInv, EditTypeOK, ScreenShowsText
<1>2. rows' = Append(rows, above) /\ line' = word /\ row' = word
    BY <1>1, Zenon DEF Wrap
<1> HIDE DEF done
<1>3. kept' = done \o l /\ l \in Seq(Keys)
  <2>1. Append(done \o line, ch) = done \o Append(line, ch) /\ Append(line, ch) \in Seq(Keys)
      BY <1>1, AppendToEnd
  <2> QED  BY <1>1, <2>1, Zenon
<1>4. /\ n \in 0..Len(l) /\ \A i \in (Len(l) - n + 1)..Len(l) : l[i] # Space
      /\ n = Len(l) \/ l[Len(l) - n] = Space
    BY <1>3, WordBounds
<1> HIDE DEF n
<1>5. /\ Len(l) \in Nat /\ Len(l) > 0 /\ w \in 0..Len(l) /\ w < Len(l)
      /\ w = 0 \/ w = n
    BY <1>3, <1>4, LinesAreLong
<1>6. above \in Seq(Keys) /\ Len(above) = Len(l) - w /\ \A i \in 1..(Len(l) - w) : above[i] = l[i]
  <2> HIDE DEF w
  <2> QED  BY <1>3, <1>5, ErasedIs
<1>7. word \in Seq(Keys) /\ Len(word) = w
  <2> HIDE DEF w
  <2> QED  BY <1>3, <1>5, EndIs
<1>8. above \o word = l
  <2> HIDE DEF w
  <2>1. SubSeq(l, 1, Len(l) - w) \o SubSeq(l, Len(l) - w + 1, Len(l)) = SubSeq(l, 1, Len(l))
    <3>1. 1 \in 1..(Len(l) + 1) /\ Len(l) - w \in (1 - 1)..Len(l) /\ Len(l) \in (Len(l) - w)..Len(l)
        BY <1>5
    <3> QED  BY <1>3, <3>1, ConcatAdjacentSubSeq
  <2>2. SubSeq(l, 1, Len(l)) = l
      BY <1>3, SubSeqFull
  <2> QED  BY <2>1, <2>2, Zenon DEF Erased
<1>9. GoodRow(above)
  <2>1. CASE n < Len(l)
    <3>1. w = n /\ l[Len(l) - n] = Space /\ Len(above) = Len(l) - n /\ Len(l) - n \in 1..(Len(l) - w)
        BY <1>4, <1>5, <1>6, <2>1
    <3>2. above[Len(above)] = Space
        BY <1>6, <3>1
    <3>3. above # << >> /\ Len(above) <= LINESIZE
        BY <1>5, <1>6, <3>1, EmptySeq
    <3> HIDE DEF above
    <3> QED  BY <3>2, <3>3 DEF GoodRow
  <2>2. CASE ~(n < Len(l))
    <3>1. w = 0 /\ n = Len(l)
        BY <1>4, <1>5, <2>2
    <3>2. Len(above) = LINESIZE /\ DOMAIN above = 1..Len(l) /\ \A i \in 1..Len(l) : above[i] = l[i]
        BY <1>5, <1>6, <3>1, LenProperties
    <3>3. \A i \in 1..Len(l) : l[i] # Space
        BY <1>4, <1>5, <3>1
    <3> HIDE DEF above
    <3> QED  BY <3>2, <3>3 DEF GoodRow
  <2> QED  BY <2>1, <2>2
<1> HIDE DEF above, word, w
<1>10. /\ rows' \in Seq(Seq(Keys)) /\ Len(rows') = Len(rows) + 1 /\ Len(rows) \in Nat
       /\ \A i \in 1..Len(rows) : rows'[i] = rows[i]
       /\ rows'[Len(rows) + 1] = above
    BY <1>1, <1>2, <1>6, AppendProperties, LenProperties
<1>11. FlattenSeq(rows') = done \o above /\ done \o above \in Seq(Keys)
    BY <1>1, <1>2, <1>6, FlattenAppend, ConcatProperties DEF done
<1>12. kept' = FlattenSeq(rows') \o row'
  <2>1. (done \o above) \o word = done \o (above \o word)
    <3>1. done \in Seq(Keys) /\ above \in Seq(Keys) /\ word \in Seq(Keys)
        BY <1>1, <1>6, <1>7
    <3> QED  BY <3>1, ThreeParts
  <2> QED  BY <1>2, <1>3, <1>8, <1>11, <2>1, Zenon
<1>13. RowsBreakAtSpaces'
  <2>1. (RowsBreakAtSpaces <=> \A i \in DOMAIN rows : GoodRow(rows[i]))'
      BY RowsAreGood, PTL
  <2>2. \A i \in 1..Len(rows) : GoodRow(rows[i])
      BY <1>1, RowsAreGood, LenProperties
  <2>3. \A i \in DOMAIN rows' : GoodRow(rows'[i])
    <3>1. DOMAIN rows' = 1..(Len(rows) + 1)
        BY <1>10, LenProperties
    <3>2. TAKE i \in DOMAIN rows'
    <3>3. CASE i \in 1..Len(rows)
        BY <1>10, <2>2, <3>3, Zenon
    <3>4. CASE i = Len(rows) + 1
        BY <1>9, <1>10, <3>4, Zenon
    <3> QED  BY <1>10, <3>1, <3>3, <3>4
  <2> QED  BY <2>1, <2>3, Zenon DEF GoodRow
<1>14. line' \in Seq(Keys) /\ Len(line') < LINESIZE /\ row' = line' /\ FlattenSeq(rows') \in Seq(Keys)
  <2>1. Len(line') = w /\ Len(line') < Len(l)
      BY <1>2, <1>5, <1>7
  <2> QED  BY <1>2, <1>7, <1>11, <2>1
<1> QED
    BY <1>10, <1>12, <1>13, <1>14, Zenon DEF EditInv, EditTypeOK, ScreenShowsText

\* The screen shows what was typed and not erased, and breaks it at spaces, for every
\* length of a line and any keys (the editor of 17/main.c).
THEOREM ScreenIsRight == EditSpec => []ScreenShowsText
<1>1. EditInv /\ [EditNext]_editVars => EditInv'
  <2> SUFFICES ASSUME EditInv, [EditNext]_editVars PROVE EditInv'
      OBVIOUS
  <2>1. CASE UNCHANGED <<line, row, rows, kept>>
      BY <2>1 DEF EditInv, EditTypeOK, ScreenShowsText, RowsBreakAtSpaces
  <2>2. CASE Erase
      BY <2>2, EraseStep
  <2>3. CASE Enter
    <3>1. line' = << >> /\ row' = << >> /\ rows' = << >> /\ kept' = << >>
        BY <2>3, Zenon DEF Enter
    <3>2. EmptyScreen'
        BY <3>1, Zenon DEF EmptyScreen
    <3>3. (EmptyScreen => EditInv)'
        BY InitEditInv, PTL
    <3> QED  BY <3>2, <3>3
  <2>4. ASSUME NEW ch \in Keys, Type(ch) PROVE EditInv'
    <3>1. kept' = Append(kept, ch)
        BY <2>4, Zenon DEF Type
    <3>2. \/ Len(Append(line, ch)) < LINESIZE /\ line' = Append(line, ch) /\ row' = Append(row, ch) /\ rows' = rows
          \/ Len(Append(line, ch)) = LINESIZE /\ Wrap(Append(line, ch), Append(row, ch))
        BY <2>4, Zenon DEF Type
    <3>3. CASE Len(Append(line, ch)) < LINESIZE /\ line' = Append(line, ch) /\ row' = Append(row, ch) /\ rows' = rows
        BY <3>1, <3>3, ShortTypeStep
    <3>4. CASE Len(Append(line, ch)) = LINESIZE /\ Wrap(Append(line, ch), Append(row, ch))
        BY <3>1, <3>4, WrapStep
    <3> QED  BY <3>2, <3>3, <3>4
  <2> QED
      BY <2>1, <2>2, <2>3, <2>4, Zenon
      DEF EditNext, StartEditing, EndEditing, Keys, editVars
<1>2. EditInv => ScreenShowsText
    BY DEF EditInv
<1>3. EditInit => EditInv
    BY InitEditInv DEF EditInit, EmptyScreen
<1> QED  BY <1>1, <1>2, <1>3, PTL DEF EditSpec

-----------------------------------------------------------------------------
(* 16, 17, 21, unbuff_test, 6 and 7: the modes of the terminal *)

\* The call that sets the new modes.
RawAt(p) == IF p = "17" THEN 3 ELSE IF p = "21s" THEN 6 ELSE 4

\* What the proofs need of call i of n, c, of program p: where the calls stand that
\* set the modes or an action, and that what ends the program without setting the
\* modes back comes before the new modes, or is the setting back.
ModesInOrder(p, i, n, c) ==
    /\ c.op = "raw" <=> i = RawAt(p)
    /\ i = n => c.op \in {"restore", "forever"}
    /\ c.fails = "exit" => i <= RawAt(p) \/ i = n
    /\ c.op = "lines" => p \in LinePrograms /\ i = 8

TrapsInOrder(p, i, c) ==
    /\ c.op = "trapALRM" <=> p \in LinePrograms /\ i = 7
    /\ c.op = "trapINT" <=> (p = "21" /\ i = 5) \/ (p = "21s" /\ i = 1)
    /\ c.op = "trapQUIT" <=> (p = "21" /\ i = 6) \/ (p = "21s" /\ i = 2)
    /\ p = "21" /\ i = 3 => c.op = "tcgetattr"

InOrder(p) ==
    LET n == Len(Calls(p)) IN
    /\ n \in Nat /\ n > 0 /\ RawAt(p) \in Nat
    /\ \A i \in 1..n : ModesInOrder(p, i, n, Calls(p)[i]) /\ TrapsInOrder(p, i, Calls(p)[i])

\* The calls of every program are in this order.
LEMMA CallsInOrder == ASSUME NEW p \in Programs PROVE InOrder(p)
<1>1. CASE p = "16"
  <2>1. Calls(p) = Calls16
      BY <1>1, Zenon DEF Calls
  <2>2. /\ Len(Calls16) = 10
        /\ Calls16[1] = Call("open", "exit") /\ Calls16[2] = Call("isatty", "exit")
        /\ Calls16[3] = Call("tcgetattr", "exit") /\ Calls16[4] = Call("raw", "exit")
        /\ Calls16[5] = Call("write", "undo") /\ Calls16[6] = Call("read", "undo")
        /\ Calls16[7] = Call("write", "undo") /\ Calls16[8] = Call("write", "undo")
        /\ Calls16[9] = Call("write", "undo") /\ Calls16[10] = Call("restore", "exit")
      BY DEF Calls16, setNewAttr, getInput, setOldAttr
  <2>3. RawAt(p) = 4 /\ p \notin LinePrograms
      BY <1>1 DEF RawAt, LinePrograms
  <2>4. ASSUME NEW i \in 1..10 PROVE ModesInOrder(p, i, 10, Calls16[i]) /\ TrapsInOrder(p, i, Calls16[i])
    <3>1. CASE i = 1
        BY <1>1, <2>2, <2>3, <3>1 DEF Call, ModesInOrder, TrapsInOrder
    <3>2. CASE i = 2
        BY <1>1, <2>2, <2>3, <3>2 DEF Call, ModesInOrder, TrapsInOrder
    <3>3. CASE i = 3
        BY <1>1, <2>2, <2>3, <3>3 DEF Call, ModesInOrder, TrapsInOrder
    <3>4. CASE i = 4
        BY <1>1, <2>2, <2>3, <3>4 DEF Call, ModesInOrder, TrapsInOrder
    <3>5. CASE i = 5
        BY <1>1, <2>2, <2>3, <3>5 DEF Call, ModesInOrder, TrapsInOrder
    <3>6. CASE i = 6
        BY <1>1, <2>2, <2>3, <3>6 DEF Call, ModesInOrder, TrapsInOrder
    <3>7. CASE i = 7
        BY <1>1, <2>2, <2>3, <3>7 DEF Call, ModesInOrder, TrapsInOrder
    <3>8. CASE i = 8
        BY <1>1, <2>2, <2>3, <3>8 DEF Call, ModesInOrder, TrapsInOrder
    <3>9. CASE i = 9
        BY <1>1, <2>2, <2>3, <3>9 DEF Call, ModesInOrder, TrapsInOrder
    <3>10. CASE i = 10
        BY <1>1, <2>2, <2>3, <3>10 DEF Call, ModesInOrder, TrapsInOrder
    <3> QED  BY <3>1, <3>2, <3>3, <3>4, <3>5, <3>6, <3>7, <3>8, <3>9, <3>10
  <2> QED  BY <2>1, <2>2, <2>3, <2>4 DEF InOrder
<1>2. CASE p = "17"
  <2>1. Calls(p) = Calls17
      BY <1>2, Zenon DEF Calls
  <2>2. /\ Len(Calls17) = 5
        /\ Calls17[1] = Call("isatty", "exit") /\ Calls17[2] = Call("tcgetattr", "exit")
        /\ Calls17[3] = Call("raw", "exit") /\ Calls17[4] = Call("edit", "ignore")
        /\ Calls17[5] = Call("restore", "ignore")
      BY DEF Calls17
  <2>3. RawAt(p) = 3 /\ p \notin LinePrograms
      BY <1>2 DEF RawAt, LinePrograms
  <2>4. ASSUME NEW i \in 1..5 PROVE ModesInOrder(p, i, 5, Calls17[i]) /\ TrapsInOrder(p, i, Calls17[i])
    <3>1. CASE i = 1
        BY <1>2, <2>2, <2>3, <3>1 DEF Call, ModesInOrder, TrapsInOrder
    <3>2. CASE i = 2
        BY <1>2, <2>2, <2>3, <3>2 DEF Call, ModesInOrder, TrapsInOrder
    <3>3. CASE i = 3
        BY <1>2, <2>2, <2>3, <3>3 DEF Call, ModesInOrder, TrapsInOrder
    <3>4. CASE i = 4
        BY <1>2, <2>2, <2>3, <3>4 DEF Call, ModesInOrder, TrapsInOrder
    <3>5. CASE i = 5
        BY <1>2, <2>2, <2>3, <3>5 DEF Call, ModesInOrder, TrapsInOrder
    <3> QED  BY <3>1, <3>2, <3>3, <3>4, <3>5
  <2> QED  BY <2>1, <2>2, <2>3, <2>4 DEF InOrder
<1>3. CASE p = "unbuff"
  <2>1. Calls(p) = CallsUnbuff
      BY <1>3, Zenon DEF Calls
  <2>2. /\ Len(CallsUnbuff) = 6
        /\ CallsUnbuff[1] = Call("open", "ignore") /\ CallsUnbuff[2] = Call("tcgetattr", "ignore")
        /\ CallsUnbuff[3] = Call("isatty", "exit") /\ CallsUnbuff[4] = Call("raw", "ignore")
        /\ CallsUnbuff[5] = Call("read", "ignore") /\ CallsUnbuff[6] = Call("restore", "ignore")
      BY DEF CallsUnbuff
  <2>3. RawAt(p) = 4 /\ p \notin LinePrograms
      BY <1>3 DEF RawAt, LinePrograms
  <2>4. ASSUME NEW i \in 1..6 PROVE ModesInOrder(p, i, 6, CallsUnbuff[i]) /\ TrapsInOrder(p, i, CallsUnbuff[i])
    <3>1. CASE i = 1
        BY <1>3, <2>2, <2>3, <3>1 DEF Call, ModesInOrder, TrapsInOrder
    <3>2. CASE i = 2
        BY <1>3, <2>2, <2>3, <3>2 DEF Call, ModesInOrder, TrapsInOrder
    <3>3. CASE i = 3
        BY <1>3, <2>2, <2>3, <3>3 DEF Call, ModesInOrder, TrapsInOrder
    <3>4. CASE i = 4
        BY <1>3, <2>2, <2>3, <3>4 DEF Call, ModesInOrder, TrapsInOrder
    <3>5. CASE i = 5
        BY <1>3, <2>2, <2>3, <3>5 DEF Call, ModesInOrder, TrapsInOrder
    <3>6. CASE i = 6
        BY <1>3, <2>2, <2>3, <3>6 DEF Call, ModesInOrder, TrapsInOrder
    <3> QED  BY <3>1, <3>2, <3>3, <3>4, <3>5, <3>6
  <2> QED  BY <2>1, <2>2, <2>3, <2>4 DEF InOrder
<1>4. CASE p \in LinePrograms
  <2>1. Calls(p) = Calls6
      BY <1>4, Zenon DEF Calls, Calls7, Calls6n, Calls7n, LinePrograms
  <2>2. /\ Len(Calls6) = 9
        /\ Calls6[1] = Call("open", "ignore") /\ Calls6[2] = Call("tcgetattr", "ignore")
        /\ Calls6[3] = Call("isatty", "exit") /\ Calls6[4] = Call("raw", "ignore")
        /\ Calls6[5] = Call("file", "undo") /\ Calls6[6] = Call("parse", "undo")
        /\ Calls6[7] = Call("trapALRM", "undo") /\ Calls6[8] = Call("lines", "undo")
        /\ Calls6[9] = Call("restore", "ignore")
      BY DEF Calls6
  <2>3. RawAt(p) = 4 /\ p \notin {"16", "17", "unbuff", "21", "21s"}
      BY <1>4 DEF RawAt, LinePrograms
  <2>4. ASSUME NEW i \in 1..9 PROVE ModesInOrder(p, i, 9, Calls6[i]) /\ TrapsInOrder(p, i, Calls6[i])
    <3>1. CASE i = 1
        BY <1>4, <2>2, <2>3, <3>1 DEF Call, ModesInOrder, TrapsInOrder
    <3>2. CASE i = 2
        BY <1>4, <2>2, <2>3, <3>2 DEF Call, ModesInOrder, TrapsInOrder
    <3>3. CASE i = 3
        BY <1>4, <2>2, <2>3, <3>3 DEF Call, ModesInOrder, TrapsInOrder
    <3>4. CASE i = 4
        BY <1>4, <2>2, <2>3, <3>4 DEF Call, ModesInOrder, TrapsInOrder
    <3>5. CASE i = 5
        BY <1>4, <2>2, <2>3, <3>5 DEF Call, ModesInOrder, TrapsInOrder
    <3>6. CASE i = 6
        BY <1>4, <2>2, <2>3, <3>6 DEF Call, ModesInOrder, TrapsInOrder
    <3>7. CASE i = 7
        BY <1>4, <2>2, <2>3, <3>7 DEF Call, ModesInOrder, TrapsInOrder
    <3>8. CASE i = 8
        BY <1>4, <2>2, <2>3, <3>8 DEF Call, ModesInOrder, TrapsInOrder
    <3>9. CASE i = 9
        BY <1>4, <2>2, <2>3, <3>9 DEF Call, ModesInOrder, TrapsInOrder
    <3> QED  BY <3>1, <3>2, <3>3, <3>4, <3>5, <3>6, <3>7, <3>8, <3>9
  <2> QED  BY <2>1, <2>2, <2>3, <2>4 DEF InOrder
<1>5. CASE p = "21"
  <2>1. Calls(p) = Calls21
      BY <1>5, Zenon DEF Calls
  <2>2. /\ Len(Calls21) = 7
        /\ Calls21[1] = Call("open", "exit") /\ Calls21[2] = Call("isatty", "exit")
        /\ Calls21[3] = Call("tcgetattr", "exit") /\ Calls21[4] = Call("raw", "exit")
        /\ Calls21[5] = Call("trapINT", "ignore") /\ Calls21[6] = Call("trapQUIT", "ignore")
        /\ Calls21[7] = Call("forever", "ignore")
      BY DEF Calls21, setNewAttr
  <2>3. RawAt(p) = 4 /\ p \notin LinePrograms
      BY <1>5 DEF RawAt, LinePrograms
  <2>4. ASSUME NEW i \in 1..7 PROVE ModesInOrder(p, i, 7, Calls21[i]) /\ TrapsInOrder(p, i, Calls21[i])
    <3>1. CASE i = 1
        BY <1>5, <2>2, <2>3, <3>1 DEF Call, ModesInOrder, TrapsInOrder
    <3>2. CASE i = 2
        BY <1>5, <2>2, <2>3, <3>2 DEF Call, ModesInOrder, TrapsInOrder
    <3>3. CASE i = 3
        BY <1>5, <2>2, <2>3, <3>3 DEF Call, ModesInOrder, TrapsInOrder
    <3>4. CASE i = 4
        BY <1>5, <2>2, <2>3, <3>4 DEF Call, ModesInOrder, TrapsInOrder
    <3>5. CASE i = 5
        BY <1>5, <2>2, <2>3, <3>5 DEF Call, ModesInOrder, TrapsInOrder
    <3>6. CASE i = 6
        BY <1>5, <2>2, <2>3, <3>6 DEF Call, ModesInOrder, TrapsInOrder
    <3>7. CASE i = 7
        BY <1>5, <2>2, <2>3, <3>7 DEF Call, ModesInOrder, TrapsInOrder
    <3> QED  BY <3>1, <3>2, <3>3, <3>4, <3>5, <3>6, <3>7
  <2> QED  BY <2>1, <2>2, <2>3, <2>4 DEF InOrder
<1>6. CASE p = "21s"
  <2>1. Calls(p) = Calls21s
      BY <1>6, Zenon DEF Calls
  <2>2. /\ Len(Calls21s) = 7
        /\ Calls21s[1] = Call("trapINT", "exit") /\ Calls21s[2] = Call("trapQUIT", "exit")
        /\ Calls21s[3] = Call("open", "exit") /\ Calls21s[4] = Call("isatty", "exit")
        /\ Calls21s[5] = Call("tcgetattr", "exit") /\ Calls21s[6] = Call("raw", "exit")
        /\ Calls21s[7] = Call("forever", "ignore")
      BY DEF Calls21s, setNewAttr
  <2>3. RawAt(p) = 6 /\ p \notin LinePrograms
      BY <1>6 DEF RawAt, LinePrograms
  <2>4. ASSUME NEW i \in 1..7 PROVE ModesInOrder(p, i, 7, Calls21s[i]) /\ TrapsInOrder(p, i, Calls21s[i])
    <3>1. CASE i = 1
        BY <1>6, <2>2, <2>3, <3>1 DEF Call, ModesInOrder, TrapsInOrder
    <3>2. CASE i = 2
        BY <1>6, <2>2, <2>3, <3>2 DEF Call, ModesInOrder, TrapsInOrder
    <3>3. CASE i = 3
        BY <1>6, <2>2, <2>3, <3>3 DEF Call, ModesInOrder, TrapsInOrder
    <3>4. CASE i = 4
        BY <1>6, <2>2, <2>3, <3>4 DEF Call, ModesInOrder, TrapsInOrder
    <3>5. CASE i = 5
        BY <1>6, <2>2, <2>3, <3>5 DEF Call, ModesInOrder, TrapsInOrder
    <3>6. CASE i = 6
        BY <1>6, <2>2, <2>3, <3>6 DEF Call, ModesInOrder, TrapsInOrder
    <3>7. CASE i = 7
        BY <1>6, <2>2, <2>3, <3>7 DEF Call, ModesInOrder, TrapsInOrder
    <3> QED  BY <3>1, <3>2, <3>3, <3>4, <3>5, <3>6, <3>7
  <2> QED  BY <2>1, <2>2, <2>3, <2>4 DEF InOrder
<1> QED  BY <1>1, <1>2, <1>3, <1>4, <1>5, <1>6 DEF Programs

-----------------------------------------------------------------------------
(* The invariant of these programs. *)

Signals == {"INT", "QUIT", "ALRM"}
Frames == Signals \X {1, 2, 3}

TermTypeOK ==
    /\ prog \in Programs \cup {"none"} /\ call \in Nat
    /\ over \in {"no", "exited", "killed"} /\ modes \in {"old", "new", "zeros"}
    /\ trap \in [Signals -> {"default", "handler"}] /\ handlers \in Seq(Frames)

\* While a program runs it is at a call of its own, and the new modes come from the
\* call that sets them.
CallsInv ==
    /\ prog = "none" => /\ call = 0 /\ over = "no" /\ modes = "old"
                        /\ \A s \in Signals : trap[s] = "default"
    /\ call = 0 => handlers = << >>
    /\ call # 0 => /\ prog \in Programs /\ call <= Len(Calls(prog)) /\ over = "no"
                   /\ modes # "zeros" /\ (modes = "new" => call > RawAt(prog))

\* Which signals have a handler at which calls.  The alarm whose action was set back
\* has run its handler, which sets the old modes.
TrapsInv ==
    call # 0 =>
        /\ trap["INT"] = "handler" \/ trap["QUIT"] = "handler" => prog \in {"21", "21s"}
        /\ prog = "21" /\ trap["QUIT"] = "handler" => call > 6
        /\ prog = "21" /\ ~sysv /\ call > 5 => trap["INT"] = "handler"
        /\ prog = "21s" => /\ ~sysv
                           /\ call > 1 => trap["INT"] = "handler"
                           /\ call > 2 => trap["QUIT"] = "handler"
        /\ trap["ALRM"] = "handler" => prog \in LinePrograms /\ call > 7
        /\ prog \in LinePrograms /\ call > 7 /\ trap["ALRM"] = "default" /\ handlers = << >> =>
              modes # "new" \/ "restore" \in failed

\* The handlers that run are of the program, and of a call after they were set.
FrameFits(f) ==
    /\ f[1] \in {"INT", "QUIT"} => prog \in {"21", "21s"}
    /\ f[1] = "QUIT" /\ prog = "21" => call > 6
    /\ f[1] = "ALRM" => prog \in LinePrograms

HandlersInv == \A i \in 1..Len(handlers) : FrameFits(handlers[i])

TermInv == TermTypeOK /\ CallsInv /\ TrapsInv /\ HandlersInv /\ TerminalRestored

\* Before the start nothing is changed.
LEMMA InitTermInv == TermInit => TermInv
<1> SUFFICES ASSUME TermInit PROVE TermInv
    OBVIOUS
<1>1. << >> \in Seq(Frames) /\ Len(<< >>) = 0
    BY EmptySeq
<1>2. prog = "none" /\ call = 0 /\ over = "no" /\ modes = "old" /\ handlers = << >>
    BY DEF TermInit
<1>3. TermTypeOK
    BY <1>1, <1>2 DEF TermInit, TermTypeOK, Signals
<1> QED
    BY <1>1, <1>2, <1>3 DEF TermInit, Signals, TermInv, CallsInv, TrapsInv, HandlersInv, TerminalRestored

\* A program starts at its first call.
LEMMA StartStep == ASSUME TermInv, NEW p \in Programs, StartProgram(p) PROVE TermInv'
<1>1. /\ prog' = p /\ call' = 1 /\ handlers = << >> /\ over = "no" /\ modes = "old"
      /\ UNCHANGED <<over, modes, trap, handlers, failed>>
      /\ p = "21s" => sysv' = FALSE
      /\ trap["INT"] = "default" /\ trap["QUIT"] = "default" /\ trap["ALRM"] = "default"
    BY DEF StartProgram, TermInv, CallsInv, LinePrograms, Signals
<1>2. p # "none" /\ Len(handlers) = 0 /\ RawAt(p) \in Nat /\ Len(Calls(p)) \in Nat /\ 1 <= Len(Calls(p))
  <2>1. Len(handlers) = 0
      BY <1>1, EmptySeq
  <2>2. RawAt(p) \in Nat /\ Len(Calls(p)) \in Nat /\ 1 <= Len(Calls(p))
      BY CallsInOrder DEF InOrder
  <2> QED  BY <2>1, <2>2 DEF Programs, LinePrograms
<1>3. TermTypeOK'
    BY <1>1 DEF TermInv, TermTypeOK
<1>4. CallsInv'
    BY <1>1, <1>2 DEF CallsInv
<1>5. TrapsInv'
    BY <1>1 DEF TrapsInv
<1>6. HandlersInv'
    BY <1>1, <1>2 DEF HandlersInv
<1>7. TerminalRestored'
    BY <1>1 DEF TerminalRestored
<1> QED  BY <1>3, <1>4, <1>5, <1>6, <1>7 DEF TermInv

\* A program that exits, or is killed, runs no handler and is at no call.
LEMMA Over ==
    ASSUME TermInv, prog # "none", prog' = prog, call' = 0, handlers' = << >>, over' \in {"exited", "killed"},
           modes' \in {"old", "new", "zeros"}, trap' = trap, TerminalRestored'
    PROVE  TermInv'
<1>1. << >> \in Seq(Frames) /\ Len(<< >>) = 0
    BY EmptySeq
<1>2. TermTypeOK'
    BY <1>1 DEF TermInv, TermTypeOK
<1> QED
    BY <1>1, <1>2 DEF TermInv, CallsInv, TrapsInv, HandlersInv

\* What the call is that a program is at.
LEMMA CallIs ==
    ASSUME TermInv, call # 0
    PROVE  LET c == Calls(prog)[call]  n == Len(Calls(prog)) IN
           /\ prog \in Programs /\ prog # "none" /\ n \in Nat /\ call \in Nat /\ call <= n /\ RawAt(prog) \in Nat
           /\ ModesInOrder(prog, call, n, c) /\ TrapsInOrder(prog, call, c)
<1>1. prog \in Programs /\ call \in Nat /\ call <= Len(Calls(prog))
    BY DEF TermInv, CallsInv, TermTypeOK
<1>2. InOrder(prog)
    BY <1>1, CallsInOrder
<1>3. prog # "none"
    BY <1>1 DEF Programs, LinePrograms
<1> QED  BY <1>1, <1>2, <1>3 DEF InOrder

\* A call succeeds: the modes are new only after the call that sets them, and a handler
\* is there after the call that sets it.
LEMMA SucceedStep == TermInv /\ Succeed => TermInv'
<1> SUFFICES ASSUME TermInv, Succeed PROVE TermInv'
    OBVIOUS
<1> DEFINE c == Calls(prog)[call]
           n == Len(Calls(prog))
           op == c.op
<1>1. /\ call # 0 /\ handlers = << >> /\ op # "forever"
      /\ modes' = (CASE op = "raw" -> "new" [] op = "restore" -> "old" [] OTHER -> modes)
      /\ trap' = (CASE op = "trapINT" -> [trap EXCEPT !["INT"] = "handler"]
                    [] op = "trapQUIT" -> [trap EXCEPT !["QUIT"] = "handler"]
                    [] op = "trapALRM" -> [trap EXCEPT !["ALRM"] = "handler"]
                    [] OTHER -> trap)
      /\ \/ call < n /\ call' = call + 1 /\ UNCHANGED <<over, handlers>>
         \/ call = n /\ Exit
      /\ UNCHANGED <<prog, sysv, failed>>
    BY DEF Succeed
<1>2. /\ prog \in Programs /\ prog # "none" /\ n \in Nat /\ call \in Nat /\ call <= n /\ RawAt(prog) \in Nat
      /\ ModesInOrder(prog, call, n, c) /\ TrapsInOrder(prog, call, c)
    BY <1>1, CallIs
<1> HIDE DEF n, c
<1>3. /\ op = "raw" <=> call = RawAt(prog)
      /\ call = n => op \in {"restore", "forever"}
      /\ op = "trapALRM" <=> prog \in LinePrograms /\ call = 7
      /\ op = "trapINT" <=> (prog = "21" /\ call = 5) \/ (prog = "21s" /\ call = 1)
      /\ op = "trapQUIT" <=> (prog = "21" /\ call = 6) \/ (prog = "21s" /\ call = 2)
    BY <1>2 DEF ModesInOrder, TrapsInOrder
<1> HIDE DEF op
<1>4. /\ modes' \in {"old", "new"} /\ modes # "zeros" /\ over = "no"
      /\ op = "restore" => modes' = "old"
      /\ modes' = "new" => op = "raw" \/ modes = "new"
    BY <1>1 DEF TermInv, TermTypeOK, CallsInv
<1>5. trap' \in [Signals -> {"default", "handler"}]
    BY <1>1 DEF TermInv, TermTypeOK, Signals
<1>6. CASE call < n /\ call' = call + 1 /\ UNCHANGED <<over, handlers>>
  <2>1. TermTypeOK'
      BY <1>1, <1>2, <1>4, <1>5, <1>6 DEF TermInv, TermTypeOK
  <2>2. CallsInv'
      BY <1>1, <1>2, <1>3, <1>4, <1>6 DEF TermInv, CallsInv, n
  <2>3. /\ trap'["INT"] = IF op = "trapINT" THEN "handler" ELSE trap["INT"]
        /\ trap'["QUIT"] = IF op = "trapQUIT" THEN "handler" ELSE trap["QUIT"]
        /\ trap'["ALRM"] = IF op = "trapALRM" THEN "handler" ELSE trap["ALRM"]
      BY <1>1 DEF TermInv, TermTypeOK, Signals
  <2>4. TrapsInv'
    <3>1. /\ trap'["INT"] = "handler" \/ trap'["QUIT"] = "handler" => prog \in {"21", "21s"}
          /\ prog = "21" /\ trap'["QUIT"] = "handler" => call + 1 > 6
        BY <1>1, <1>2, <1>3, <2>3 DEF TermInv, TrapsInv
    <3>2. prog = "21" /\ ~sysv /\ call + 1 > 5 => trap'["INT"] = "handler"
        BY <1>1, <1>2, <1>3, <2>3 DEF TermInv, TrapsInv
    <3>3. prog = "21s" => /\ ~sysv /\ (call + 1 > 1 => trap'["INT"] = "handler")
                          /\ (call + 1 > 2 => trap'["QUIT"] = "handler")
        BY <1>1, <1>2, <1>3, <2>3 DEF TermInv, TrapsInv
    <3>4. trap'["ALRM"] = "handler" => prog \in LinePrograms /\ call + 1 > 7
        BY <1>1, <1>2, <1>3, <2>3 DEF TermInv, TrapsInv
    <3>5. prog \in LinePrograms /\ call + 1 > 7 /\ trap'["ALRM"] = "default" =>
             modes' # "new" \/ "restore" \in failed
      <4>1. prog \in LinePrograms => RawAt(prog) = 4
          BY DEF RawAt, LinePrograms
      <4>2. SUFFICES ASSUME prog \in LinePrograms, call + 1 > 7, trap'["ALRM"] = "default", modes' = "new"
                     PROVE  "restore" \in failed
          OBVIOUS
      <4>3. call # 7 /\ call > 7 /\ trap["ALRM"] = "default"
          BY <1>2, <1>3, <2>3, <4>2
      <4>4. modes = "new" \/ op = "raw"
          BY <1>4, <4>2
      <4>5. op # "raw"
          BY <1>2, <1>3, <4>1, <4>2, <4>3
      <4> QED  BY <1>1, <4>2, <4>3, <4>4, <4>5 DEF TermInv, TrapsInv
    <3> QED  BY <1>1, <1>6, <3>1, <3>2, <3>3, <3>4, <3>5 DEF TrapsInv
  <2>5. HandlersInv'
    <3>1. Len(handlers') = 0
        BY <1>1, <1>6, EmptySeq
    <3> QED  BY <3>1 DEF HandlersInv
  <2>6. TerminalRestored'
      BY <1>4, <1>6 DEF TerminalRestored
  <2> QED  BY <2>1, <2>2, <2>4, <2>5, <2>6 DEF TermInv
<1>7. CASE call = n /\ Exit
  <2>1. op = "restore" /\ modes' = "old"
      BY <1>1, <1>3, <1>4, <1>7
  <2>2. op \notin {"trapINT", "trapQUIT", "trapALRM"}
      BY <2>1
  <2>3. trap' = trap
      BY <1>1, <2>2
  <2>4. TerminalRestored'
      BY <2>1 DEF TerminalRestored
  <2> QED  BY <1>1, <1>2, <1>7, <2>1, <2>3, <2>4, Over DEF Exit
<1> QED  BY <1>1, <1>6, <1>7

\* A call fails: what ends the program leaves the old modes, or setting them back is
\* what failed.
LEMMA FailStep == TermInv /\ Fail => TermInv'
<1> SUFFICES ASSUME TermInv, Fail PROVE TermInv'
    OBVIOUS
<1> DEFINE c == Calls(prog)[call]
           n == Len(Calls(prog))
<1>1. /\ call # 0 /\ handlers = << >> /\ CanFail(c.op)
      /\ \/ GoesOn(c) /\ call' = call + 1 /\ UNCHANGED <<over, handlers, modes>> /\ failed' = failed \cup {c.op}
         \/ GivesUp(c) /\ Exit /\ UNCHANGED modes /\ failed' = failed \cup {c.op}
         \/ /\ Exit
            /\ \/ modes' = "old" /\ failed' = failed \cup {c.op}
               \/ UNCHANGED modes /\ failed' = failed \cup {c.op, "restore"}
      /\ UNCHANGED <<prog, trap, sysv>>
    BY DEF Fail
<1>2. /\ prog \in Programs /\ prog # "none" /\ n \in Nat /\ call \in Nat /\ call <= n /\ RawAt(prog) \in Nat
      /\ ModesInOrder(prog, call, n, c) /\ TrapsInOrder(prog, call, c)
    BY <1>1, CallIs
<1>3. modes \in {"old", "new"} /\ over = "no" /\ (modes = "new" => call > RawAt(prog))
    BY <1>1 DEF TermInv, TermTypeOK, CallsInv
<1>4. CASE GoesOn(c) /\ call' = call + 1 /\ UNCHANGED <<over, handlers, modes>> /\ failed' = failed \cup {c.op}
  <2>1. call < n
      BY <1>4 DEF GoesOn
  <2>2. TermTypeOK'
      BY <1>1, <1>2, <1>4 DEF TermInv, TermTypeOK
  <2>3. CallsInv'
      BY <1>1, <1>2, <1>3, <1>4, <2>1 DEF TermInv, CallsInv
  <2>4. /\ prog = "21" => call \notin {5, 6}
        /\ prog = "21s" => call \notin {1, 2}
        /\ prog \in LinePrograms => call # 7
      BY <1>1, <1>2 DEF TrapsInOrder, CanFail
  <2>5. TrapsInv'
    <3> HIDE DEF c, n
    <3> QED  BY <1>1, <1>2, <1>4, <2>4 DEF TermInv, TrapsInv
  <2>6. HandlersInv'
    <3>1. Len(handlers') = 0
        BY <1>1, <1>4, EmptySeq
    <3> QED  BY <3>1 DEF HandlersInv
  <2>7. TerminalRestored'
      BY <1>3, <1>4 DEF TerminalRestored
  <2> QED  BY <2>2, <2>3, <2>5, <2>6, <2>7 DEF TermInv
<1>5. CASE GivesUp(c) /\ Exit /\ UNCHANGED modes /\ failed' = failed \cup {c.op}
  <2>1. call <= RawAt(prog) \/ c.op = "restore"
      BY <1>1, <1>2, <1>5 DEF GivesUp, ModesInOrder, CanFail
  <2>2. modes = "new" => "restore" \in failed'
      BY <1>2, <1>3, <1>5, <2>1
  <2>3. TerminalRestored'
      BY <1>3, <1>5, <2>2 DEF TerminalRestored, Exit
  <2> QED  BY <1>1, <1>2, <1>3, <1>5, <2>3, Over DEF Exit
<1>6. CASE /\ Exit
           /\ \/ modes' = "old" /\ failed' = failed \cup {c.op}
              \/ UNCHANGED modes /\ failed' = failed \cup {c.op, "restore"}
  <2>1. TerminalRestored' /\ modes' \in {"old", "new", "zeros"}
      BY <1>3, <1>6 DEF TerminalRestored, Exit
  <2> QED  BY <1>1, <1>2, <1>6, <2>1, Over DEF Exit
<1> QED  BY <1>1, <1>4, <1>5, <1>6

\* A signal comes: it kills with the new modes where TerminalRestored says so only, or
\* its handler runs.
LEMMA SignalStep == ASSUME TermInv, NEW s \in Signals, Signal(s) PROVE TermInv'
<1> DEFINE c == Calls(prog)[call]
           n == Len(Calls(prog))
<1>1. /\ call # 0 /\ Comes(s) /\ UNCHANGED <<prog, modes, sysv, failed>>
    BY DEF Signal
<1>2. /\ prog \in Programs /\ prog # "none" /\ n \in Nat /\ call \in Nat /\ call <= n /\ RawAt(prog) \in Nat
      /\ ModesInOrder(prog, call, n, c)
    BY <1>1, CallIs
<1>3. modes \in {"old", "new"} /\ over = "no" /\ (modes = "new" => call > RawAt(prog))
    BY <1>1 DEF TermInv, TermTypeOK, CallsInv
<1>4. trap \in [Signals -> {"default", "handler"}] /\ handlers \in Seq(Frames)
    BY DEF TermInv, TermTypeOK
<1>5. CASE trap[s] = "default"
  <2>1. over' = "killed" /\ call' = 0 /\ handlers' = << >> /\ UNCHANGED trap
      BY <1>5 DEF Signal
  <2>2. ASSUME modes = "new"
        PROVE  \/ prog \in {"16", "6", "7"} \/ "restore" \in failed
               \/ prog = "21" /\ (sysv \/ trap["QUIT"] = "default")
    <3>1. CASE s = "ALRM"
      <4>1. c.op = "lines" /\ handlers = << >>
          BY <1>1, <3>1 DEF Comes
      <4>2. prog \in LinePrograms /\ call = 8
          BY <1>2, <4>1 DEF ModesInOrder
      <4> QED  BY <1>1, <1>5, <2>2, <3>1, <4>1, <4>2 DEF TermInv, TrapsInv
    <3>2. CASE s # "ALRM"
      <4>1. prog \notin NoKeyboardSignals /\ s \in {"INT", "QUIT"}
          BY <1>1, <2>2, <3>2 DEF Comes, Signals
      <4>2. prog \in {"16", "6", "7", "21", "21s"}
          BY <1>2, <4>1 DEF Programs, LinePrograms, NoKeyboardSignals
      <4>3. CASE prog = "21"
        <5>1. trap["QUIT"] \in {"default", "handler"}
            BY <1>4 DEF Signals
        <5>2. trap["QUIT"] = "handler" => call > 6
            BY <1>1, <4>3 DEF TermInv, TrapsInv
        <5>3. ~sysv /\ call > 5 => trap["INT"] = "handler"
            BY <1>1, <4>3 DEF TermInv, TrapsInv
        <5> QED  BY <1>2, <1>5, <4>1, <4>3, <5>1, <5>2, <5>3
      <4>4. CASE prog = "21s"
        <5>1. RawAt(prog) = 6
            BY <4>4 DEF RawAt
        <5>2. call > 6
            BY <1>3, <2>2, <5>1
        <5>3. trap["INT"] = "handler" /\ trap["QUIT"] = "handler"
            BY <1>1, <1>2, <4>4, <5>2 DEF TermInv, TrapsInv
        <5> QED  BY <1>5, <4>1, <5>3
      <4> QED  BY <4>2, <4>3, <4>4
    <3> QED  BY <3>1, <3>2
  <2>3. TerminalRestored'
      BY <1>1, <1>3, <2>1, <2>2 DEF TerminalRestored
  <2> QED  BY <1>1, <1>2, <1>3, <2>1, <2>3, Over
<1>6. CASE trap[s] # "default"
  <2>1. /\ handlers' = Append(handlers, <<s, 1>>)
        /\ trap' = IF sysv THEN [trap EXCEPT ![s] = "default"] ELSE trap
        /\ UNCHANGED <<over, call>>
      BY <1>6 DEF Signal
  <2>2. trap[s] = "handler" /\ <<s, 1>> \in Frames
      BY <1>4, <1>6 DEF Frames
  <2>3. /\ handlers' \in Seq(Frames) /\ handlers' # << >> /\ Len(handlers') = Len(handlers) + 1 /\ Len(handlers) \in Nat
        /\ \A i \in 1..Len(handlers) : handlers'[i] = handlers[i]
        /\ handlers'[Len(handlers) + 1] = <<s, 1>>
      BY <1>4, <2>1, <2>2, AppendProperties, LenProperties
  <2>4. /\ trap' \in [Signals -> {"default", "handler"}]
        /\ \A t \in Signals : trap'[t] = trap[t] \/ (sysv /\ trap'[t] = "default")
      BY <1>4, <2>1
  <2>5. TermTypeOK'
      BY <1>1, <2>1, <2>3, <2>4 DEF TermInv, TermTypeOK
  <2>6. CallsInv'
      BY <1>1, <1>2, <2>1 DEF TermInv, CallsInv
  <2>7. TrapsInv'
    <3>1. \A t \in Signals : trap'[t] = "handler" => trap[t] = "handler"
        BY <2>4
    <3>2. ~sysv => trap' = trap
        BY <2>1
    <3>3. trap'["INT"] = "handler" \/ trap'["QUIT"] = "handler" => prog \in {"21", "21s"}
        BY <1>1, <3>1 DEF TermInv, TrapsInv, Signals
    <3>4. prog = "21" /\ trap'["QUIT"] = "handler" => call > 6
        BY <1>1, <3>1 DEF TermInv, TrapsInv, Signals
    <3>5. prog = "21" /\ ~sysv /\ call > 5 => trap'["INT"] = "handler"
        BY <1>1, <3>2 DEF TermInv, TrapsInv
    <3>6. prog = "21s" => /\ ~sysv /\ (call > 1 => trap'["INT"] = "handler")
                          /\ (call > 2 => trap'["QUIT"] = "handler")
        BY <1>1, <3>2 DEF TermInv, TrapsInv
    <3>7. trap'["ALRM"] = "handler" => prog \in LinePrograms /\ call > 7
        BY <1>1, <3>1 DEF TermInv, TrapsInv, Signals
    <3> QED  BY <1>1, <2>1, <2>3, <3>3, <3>4, <3>5, <3>6, <3>7 DEF TrapsInv
  <2>8. HandlersInv'
    <3>1. FrameFits(<<s, 1>>)
        BY <1>1, <2>2 DEF TermInv, TrapsInv, FrameFits
    <3>2. \A i \in 1..(Len(handlers) + 1) : FrameFits(handlers'[i])
        BY <2>3, <3>1 DEF TermInv, HandlersInv
    <3> QED  BY <1>1, <2>1, <2>3, <3>2 DEF HandlersInv, FrameFits
  <2>9. TerminalRestored'
      BY <1>1, <1>3, <2>1 DEF TerminalRestored
  <2> QED  BY <2>5, <2>6, <2>7, <2>8, <2>9 DEF TermInv
<1> QED  BY <1>5, <1>6

\* The innermost handler that runs.
LEMMA RunningIs ==
    ASSUME TermInv, NEW s, NEW k, Running(s, k)
    PROVE  /\ handlers # << >> /\ Len(handlers) \in Nat \ {0} /\ handlers[Len(handlers)] = <<s, k>>
           /\ handlers \in Seq(Frames) /\ FrameFits(<<s, k>>)
           /\ call # 0 /\ call \in Nat /\ prog \in Programs /\ prog # "none"
           /\ over = "no" /\ modes \in {"old", "new"}
<1>1. handlers # << >> /\ handlers[Len(handlers)] = <<s, k>> /\ handlers \in Seq(Frames)
    BY DEF Running, TermInv, TermTypeOK
<1>2. Len(handlers) \in Nat \ {0}
    BY <1>1, EmptySeq
<1>3. call # 0
    BY <1>1 DEF TermInv, CallsInv
<1>4. FrameFits(<<s, k>>)
    BY <1>1, <1>2 DEF TermInv, HandlersInv
<1>5. prog \in Programs /\ over = "no" /\ modes \in {"old", "new"} /\ call \in Nat
    BY <1>3 DEF TermInv, CallsInv, TermTypeOK
<1> QED  BY <1>1, <1>2, <1>3, <1>4, <1>5 DEF Programs, LinePrograms

\* Its next step, and its return, leave the others as they are.
LEMMA HandlerMoves ==
    ASSUME TermInv, NEW s, NEW k, Running(s, k), UNCHANGED <<prog, call>>,
           Return \/ \E i \in {1, 2, 3} : Step(i)
    PROVE  handlers' \in Seq(Frames) /\ HandlersInv'
<1>1. /\ Len(handlers) \in Nat \ {0} /\ handlers[Len(handlers)] = <<s, k>>
      /\ handlers \in Seq(Frames) /\ FrameFits(<<s, k>>)
    BY RunningIs
<1>2. CASE Return
  <2>1. Len(handlers) - 1 \in 0..Len(handlers)
      BY <1>1
  <2>2. /\ handlers' \in Seq(Frames) /\ Len(handlers') = Len(handlers) - 1
        /\ \A i \in 1..(Len(handlers) - 1) : handlers'[i] = handlers[i]
      BY <1>1, <1>2, <2>1, Beginning DEF Return
  <2> QED  BY <1>1, <2>2 DEF TermInv, HandlersInv, FrameFits
<1>3. ASSUME NEW i \in {1, 2, 3}, Step(i) PROVE handlers' \in Seq(Frames) /\ HandlersInv'
  <2>1. /\ handlers[Len(handlers)] \in Frames /\ Len(handlers) \in 1..Len(handlers)
        /\ [handlers[Len(handlers)] EXCEPT ![2] = i] = <<s, i>>
      BY <1>1, ElementOfSeq
  <2>2. <<s, i>> \in Frames
      BY <1>1, <2>1 DEF Frames
  <2>3. handlers' = [handlers EXCEPT ![Len(handlers)] = <<s, i>>]
      BY <1>3, <2>1 DEF Step
  <2>4. /\ handlers' \in Seq(Frames) /\ Len(handlers') = Len(handlers)
        /\ \A j \in 1..Len(handlers) : handlers'[j] = IF j = Len(handlers) THEN <<s, i>> ELSE handlers[j]
      BY <1>1, <2>1, <2>2, <2>3, ExceptSeq
  <2>5. FrameFits(<<s, i>>)
      BY <1>1 DEF FrameFits
  <2> QED  BY <2>4, <2>5 DEF TermInv, HandlersInv, FrameFits
<1> QED  BY <1>2, <1>3

\* The handler of 21 rings, counts and is set again.
LEMMA sigDelStep == TermInv /\ sigDel => TermInv'
<1> SUFFICES ASSUME TermInv, sigDel PROVE TermInv'
    OBVIOUS
<1>1. UNCHANGED <<prog, modes, sysv>>
    BY DEF sigDel
<1>2. PICK k \in {1, 2, 3} : Running("INT", k)
    BY DEF sigDel
<1>3. /\ handlers # << >> /\ FrameFits(<<"INT", k>>) /\ call # 0 /\ call \in Nat
      /\ prog \in Programs /\ prog # "none" /\ over = "no" /\ modes \in {"old", "new"}
    BY <1>2, RunningIs
<1>4. prog \in {"21", "21s"} /\ prog \notin LinePrograms
  <2>1. prog \in {"21", "21s"}
      BY <1>3 DEF FrameFits
  <2> QED  BY <2>1 DEF LinePrograms
<1>5. CASE Exit /\ failed' = failed \cup {"ring"} /\ UNCHANGED trap
  <2>1. TerminalRestored'
      BY <1>1, <1>3, <1>5 DEF TerminalRestored, Exit
  <2> QED  BY <1>1, <1>3, <1>5, <2>1, Over DEF Exit
<1>6. ASSUME Return \/ \E i \in {1, 2, 3} : Step(i), UNCHANGED <<over, call, failed>>,
             trap' = trap \/ (prog = "21" /\ trap' = [trap EXCEPT !["INT"] = "handler"])
      PROVE  TermInv'
  <2>1. handlers' \in Seq(Frames) /\ HandlersInv'
      BY <1>1, <1>2, <1>6, HandlerMoves
  <2>2. trap \in [Signals -> {"default", "handler"}]
      BY DEF TermInv, TermTypeOK
  <2>3. /\ trap' \in [Signals -> {"default", "handler"}]
        /\ trap'["INT"] = trap["INT"] \/ (prog = "21" /\ trap'["INT"] = "handler")
        /\ trap'["QUIT"] = trap["QUIT"] /\ trap'["ALRM"] = trap["ALRM"]
    <3>1. CASE trap' = trap
        BY <2>2, <3>1 DEF Signals
    <3>2. CASE prog = "21" /\ trap' = [trap EXCEPT !["INT"] = "handler"]
        BY <2>2, <3>2 DEF Signals
    <3> QED  BY <1>6, <3>1, <3>2
  <2>4. TermTypeOK'
      BY <1>1, <1>6, <2>1, <2>3 DEF TermInv, TermTypeOK
  <2>5. CallsInv'
      BY <1>1, <1>3, <1>6 DEF TermInv, CallsInv
  <2>6. TrapsInv'
      BY <1>1, <1>3, <1>4, <1>6, <2>3 DEF TermInv, TrapsInv
  <2>7. TerminalRestored'
      BY <1>1, <1>3, <1>6 DEF TerminalRestored
  <2> QED  BY <2>1, <2>4, <2>5, <2>6, <2>7 DEF TermInv
<1>7. \/ Exit /\ failed' = failed \cup {"ring"} /\ UNCHANGED trap
      \/ /\ Return \/ \E i \in {1, 2, 3} : Step(i)
         /\ UNCHANGED <<over, call, failed>>
         /\ trap' = trap \/ (prog = "21" /\ trap' = [trap EXCEPT !["INT"] = "handler"])
    BY DEF sigDel
<1> QED  BY <1>5, <1>6, <1>7

\* The handler of SIGQUIT tells, and exits with the modes it saved.
LEMMA sigcatchStep == TermInv /\ sigcatch => TermInv'
<1> SUFFICES ASSUME TermInv, sigcatch PROVE TermInv'
    OBVIOUS
<1>1. UNCHANGED <<prog, trap, sysv>>
    BY DEF sigcatch
<1>2. PICK k \in {1, 2} : Running("QUIT", k)
    BY DEF sigcatch
<1>3. /\ handlers # << >> /\ FrameFits(<<"QUIT", k>>) /\ call # 0 /\ call \in Nat
      /\ prog \in Programs /\ prog # "none" /\ over = "no" /\ modes \in {"old", "new"}
    BY <1>2, RunningIs
<1>4. CASE Step(2) /\ UNCHANGED <<over, call, modes, failed>>
  <2>1. handlers' \in Seq(Frames) /\ HandlersInv'
      BY <1>1, <1>2, <1>4, HandlerMoves
  <2>2. TermTypeOK'
      BY <1>1, <1>4, <2>1 DEF TermInv, TermTypeOK
  <2>3. CallsInv'
      BY <1>1, <1>3, <1>4 DEF TermInv, CallsInv
  <2>4. prog \notin LinePrograms
      BY <1>3 DEF FrameFits, LinePrograms
  <2>5. TrapsInv'
      BY <1>1, <1>3, <1>4, <2>4 DEF TermInv, TrapsInv
  <2>6. TerminalRestored'
      BY <1>1, <1>3, <1>4 DEF TerminalRestored
  <2> QED  BY <2>1, <2>2, <2>3, <2>5, <2>6 DEF TermInv
<1>5. CASE /\ Exit
           /\ \/ modes' = (IF Saved THEN "old" ELSE "zeros") /\ UNCHANGED failed
              \/ UNCHANGED modes /\ failed' = failed \cup {"restore"}
  <2>1. Saved \/ prog = "21s"
    <3>1. prog = "21" \/ prog = "21s"
        BY <1>3 DEF FrameFits
    <3>2. CASE prog = "21"
      <4>1. call > 6 /\ 3 \in 1..(call - 1)
          BY <1>3, <3>2 DEF FrameFits
      <4>2. InOrder("21")
          BY <1>3, <3>2, CallsInOrder
      <4>3. call <= Len(Calls("21"))
          BY <1>3, <3>2 DEF TermInv, CallsInv
      <4>4. Calls("21")[3].op = "tcgetattr"
          BY <1>3, <4>1, <4>2, <4>3 DEF InOrder, TrapsInOrder
      <4> QED  BY <3>2, <4>1, <4>4 DEF Saved
    <3> QED  BY <3>1, <3>2
  <2>2. modes' \in {"old", "new", "zeros"}
      BY <1>3, <1>5
  <2>3. TerminalRestored'
      BY <1>1, <1>3, <1>5, <2>1 DEF TerminalRestored, Exit
  <2> QED  BY <1>1, <1>3, <1>5, <2>2, <2>3, Over DEF Exit
<1> QED  BY <1>4, <1>5 DEF sigcatch

\* The alarm shows the file with the old modes, if they can be set.
LEMMA printAllStringStep == TermInv /\ printAllString => TermInv'
<1> SUFFICES ASSUME TermInv, printAllString PROVE TermInv'
    OBVIOUS
<1>1. /\ Running("ALRM", 1) /\ Return
      /\ modes' = "old" \/ (UNCHANGED modes /\ failed' = failed \cup {"restore"})
      /\ modes' = "old" => UNCHANGED failed \/ failed' = failed \cup {"restore"}
      /\ UNCHANGED <<prog, call, over, trap, sysv>>
    BY DEF printAllString
<1>2. /\ handlers # << >> /\ call # 0 /\ call \in Nat
      /\ prog \in Programs /\ prog # "none" /\ over = "no" /\ modes \in {"old", "new"}
    BY <1>1, RunningIs
<1>3. handlers' \in Seq(Frames) /\ HandlersInv'
    BY <1>1, HandlerMoves
<1>4. TermTypeOK'
    BY <1>1, <1>2, <1>3 DEF TermInv, TermTypeOK
<1>5. CallsInv'
    BY <1>1, <1>2 DEF TermInv, CallsInv
<1>6. TrapsInv'
    BY <1>1, <1>2 DEF TermInv, TrapsInv
<1>7. TerminalRestored'
    BY <1>1, <1>2 DEF TerminalRestored
<1> QED  BY <1>3, <1>4, <1>5, <1>6, <1>7 DEF TermInv

\* Every step keeps the invariant.
LEMMA TermStep == TermInv /\ [TermNext]_termVars => TermInv'
<1> SUFFICES ASSUME TermInv, [TermNext]_termVars PROVE TermInv'
    OBVIOUS
<1>1. CASE UNCHANGED termVars
    BY <1>1 DEF termVars, TermInv, TermTypeOK, CallsInv, TrapsInv, HandlersInv, FrameFits, TerminalRestored
<1>2. ASSUME NEW p \in Programs, StartProgram(p) PROVE TermInv'
    BY <1>2, StartStep
<1>3. ASSUME NEW s \in {"INT", "QUIT", "ALRM"}, Signal(s) PROVE TermInv'
    BY <1>3, SignalStep DEF Signals
<1> QED
    BY <1>1, <1>2, <1>3, SucceedStep, FailStep, sigDelStep, sigcatchStep, printAllStringStep DEF TermNext

\* Whatever fails and whatever signals come, the programs leave the terminal as
\* TerminalRestored says, however many signals (16, 17, 21, unbuff_test, 6 and 7).
THEOREM ModesAreRestored == TermSpec => []TerminalRestored
<1>1. TermInv => TerminalRestored
    BY DEF TermInv
<1> QED  BY <1>1, InitTermInv, TermStep, PTL DEF TermSpec

-----------------------------------------------------------------------------
(* 21: the number that is told *)

\* The handler of SIGINT runs once at most, and between its bell and its count the
\* bells are one more than what was counted.
Ringing == \E i \in DOMAIN handlers : handlers[i] = <<"INT", 2>>

BellsInv ==
    /\ count \in Nat /\ bells \in Nat
    /\ prog = "none" => count = 0 /\ bells = 0
    /\ \A i, j \in DOMAIN handlers : handlers[i][1] = "INT" /\ handlers[j][1] = "INT" => i = j
    /\ call # 0 => bells = IF Ringing THEN count + 1 ELSE count

\* One handler of SIGINT at most.
OneBell == \A i, j \in DOMAIN handlers : handlers[i][1] = "INT" /\ handlers[j][1] = "INT" => i = j

\* No handler, no bell.
LEMMA NoHandlers == handlers = << >> => ~Ringing /\ OneBell
<1>1. handlers = << >> => Len(handlers) = 0 /\ DOMAIN handlers = {}
    BY EmptySeq, LenProperties
<1> QED  BY <1>1 DEF Ringing, OneBell

\* A step of the innermost handler.
LEMMA BellSteps ==
    ASSUME TermInv, OneBell, NEW s, NEW k, Running(s, k), NEW i \in {2, 3}, Step(i)
    PROVE  /\ OneBell'
           /\ s = "INT" => (Ringing <=> k = 2) /\ (Ringing' <=> i = 2)
           /\ s # "INT" => (Ringing' <=> Ringing)
<1> DEFINE n == Len(handlers)
<1>1. n \in Nat \ {0} /\ handlers[n] = <<s, k>> /\ handlers \in Seq(Frames)
    BY RunningIs
<1>2. DOMAIN handlers = 1..n /\ n \in 1..n
    BY <1>1, LenProperties
<1>3. [handlers[n] EXCEPT ![2] = i] = <<s, i>>
    BY <1>1
<1>4. handlers' = [handlers EXCEPT ![n] = <<s, i>>]
    BY <1>3 DEF Step
<1>5. /\ DOMAIN handlers' = 1..n /\ handlers'[n] = <<s, i>>
      /\ \A j \in 1..n : j # n => handlers'[j] = handlers[j]
  <2> HIDE DEF n
  <2>1. <<s, i>> \in Frames
    <3>1. handlers[n] \in Frames
        BY <1>1, <1>2, ElementOfSeq DEF n
    <3> QED  BY <1>1, <3>1 DEF Frames
  <2>2. handlers \in [1..n -> Frames]
      BY <1>1, LenProperties DEF n
  <2> QED  BY <1>2, <1>4, <2>1, <2>2
<1> HIDE DEF n
<1>6. \A j \in 1..n : handlers'[j][1] = handlers[j][1]
    BY <1>1, <1>5
<1>7. OneBell'
    BY <1>2, <1>5, <1>6 DEF OneBell
<1>8. ASSUME s = "INT" PROVE (Ringing <=> k = 2) /\ (Ringing' <=> i = 2)
  <2>1. \A j \in 1..n : j # n => handlers[j][1] # "INT"
      BY <1>1, <1>2, <1>8 DEF OneBell
  <2>2. \A j \in 1..n : j # n => handlers[j] # <<"INT", 2>> /\ handlers'[j] # <<"INT", 2>>
      BY <1>5, <2>1
  <2> QED  BY <1>1, <1>2, <1>5, <1>8, <2>2 DEF Ringing
<1>9. ASSUME s # "INT" PROVE Ringing' <=> Ringing
  <2>1. handlers[n] # <<"INT", 2>> /\ handlers'[n] # <<"INT", 2>>
      BY <1>1, <1>5, <1>9
  <2> QED  BY <1>2, <1>5, <2>1 DEF Ringing
<1> QED  BY <1>7, <1>8, <1>9

\* The return of the innermost handler.
LEMMA BellReturns ==
    ASSUME TermInv, OneBell, NEW s, NEW k, Running(s, k), Return
    PROVE  /\ OneBell'
           /\ s = "INT" => (Ringing <=> k = 2) /\ ~Ringing'
           /\ s # "INT" => (Ringing' <=> Ringing)
<1> DEFINE n == Len(handlers)
<1>1. n \in Nat \ {0} /\ handlers[n] = <<s, k>> /\ handlers \in Seq(Frames)
    BY RunningIs
<1>2. DOMAIN handlers = 1..n /\ n \in 1..n /\ n - 1 \in 0..n
    BY <1>1, LenProperties
<1>3. /\ handlers' \in Seq(Frames) /\ Len(handlers') = n - 1
      /\ \A j \in 1..(n - 1) : handlers'[j] = handlers[j]
    BY <1>1, <1>2, Beginning DEF Return
<1>4. DOMAIN handlers' = 1..(n - 1)
    BY <1>3, LenProperties
<1> HIDE DEF n
<1>5. OneBell'
    BY <1>1, <1>2, <1>3, <1>4 DEF OneBell
<1>6. ASSUME s = "INT" PROVE (Ringing <=> k = 2) /\ ~Ringing'
  <2>1. \A j \in 1..n : j # n => handlers[j][1] # "INT"
      BY <1>1, <1>2, <1>6 DEF OneBell
  <2>2. \A j \in 1..n : j # n => handlers[j] # <<"INT", 2>>
      BY <2>1
  <2>3. \A j \in 1..(n - 1) : j \in 1..n /\ j # n
      BY <1>1
  <2>4. Ringing <=> k = 2
      BY <1>1, <1>2, <1>6, <2>2 DEF Ringing
  <2>5. ~Ringing'
      BY <1>3, <1>4, <2>2, <2>3 DEF Ringing
  <2> QED  BY <2>4, <2>5
<1>7. ASSUME s # "INT" PROVE Ringing' <=> Ringing
  <2>1. handlers[n] # <<"INT", 2>>
      BY <1>1, <1>7
  <2>2. \A j \in 1..n : j = n \/ j \in 1..(n - 1)
      BY <1>1
  <2>3. \A j \in 1..(n - 1) : j \in 1..n
      BY <1>1
  <2> QED  BY <1>2, <1>3, <1>4, <2>1, <2>2, <2>3 DEF Ringing
<1> QED  BY <1>5, <1>6, <1>7

\* Every step keeps the bells and the count together.
LEMMA BellsStep == TermInv /\ BellsInv /\ [TermNext]_termVars => BellsInv'
<1> SUFFICES ASSUME TermInv, BellsInv, [TermNext]_termVars PROVE BellsInv'
    OBVIOUS
<1>1. count \in Nat /\ bells \in Nat /\ OneBell /\ (call # 0 => bells = IF Ringing THEN count + 1 ELSE count)
    BY DEF BellsInv, OneBell
<1>2. ASSUME UNCHANGED <<count, bells>>, prog' = "none" => prog = "none", OneBell',
             call' # 0 => (Ringing' <=> Ringing) /\ (call # 0 \/ (~Ringing /\ prog = "none"))
      PROVE  BellsInv'
    BY <1>1, <1>2 DEF BellsInv, OneBell
<1>3. (handlers = << >> => ~Ringing /\ OneBell) /\ (handlers = << >> => ~Ringing /\ OneBell)'
    BY NoHandlers, PTL
<1>4. CASE UNCHANGED termVars
    BY <1>1, <1>4 DEF termVars, BellsInv, OneBell, Ringing
<1>5. ASSUME NEW p \in Programs, StartProgram(p) PROVE BellsInv'
  <2>1. handlers = << >> /\ handlers' = << >> /\ prog = "none" /\ UNCHANGED <<count, bells>>
      BY <1>5 DEF StartProgram, TermInv, CallsInv
  <2> QED  BY <1>2, <1>3, <2>1
<1>6. CASE Succeed \/ Fail
  <2>1. call # 0 /\ handlers = << >> /\ handlers' = << >> /\ UNCHANGED <<prog, count, bells>>
      BY <1>6 DEF Succeed, Fail, Exit
  <2> QED  BY <1>2, <1>3, <2>1
<1>7. ASSUME NEW s \in {"INT", "QUIT", "ALRM"}, Signal(s) PROVE BellsInv'
  <2>1. /\ call # 0 /\ UNCHANGED <<prog, count, bells>>
        /\ \/ call' = 0 /\ handlers' = << >>
           \/ (\A i \in DOMAIN handlers : handlers[i][1] # s) /\ handlers' = Append(handlers, <<s, 1>>)
      BY <1>7 DEF Signal
  <2>2. CASE call' = 0 /\ handlers' = << >>
      BY <1>2, <1>3, <2>1, <2>2
  <2>3. CASE (\A i \in DOMAIN handlers : handlers[i][1] # s) /\ handlers' = Append(handlers, <<s, 1>>)
    <3> DEFINE n == Len(handlers)
    <3>1. handlers \in Seq(Frames) /\ <<s, 1>> \in Frames
        BY DEF TermInv, TermTypeOK, Frames, Signals
    <3>2. /\ n \in Nat /\ DOMAIN handlers = 1..n /\ DOMAIN handlers' = 1..(n + 1)
          /\ \A i \in 1..n : handlers'[i] = handlers[i]
          /\ handlers'[n + 1] = <<s, 1>>
        BY <2>3, <3>1, AppendProperties, LenProperties
    <3> HIDE DEF n
    <3>3. \A i \in 1..(n + 1) : i \in 1..n \/ i = n + 1
        BY <3>2
    <3>4. OneBell'
        BY <1>1, <2>3, <3>2, <3>3 DEF OneBell
    <3>5. Ringing' <=> Ringing
      <4>1. \A i \in 1..n : i \in 1..(n + 1)
          BY <3>2
      <4>2. handlers'[n + 1] # <<"INT", 2>>
          BY <3>2
      <4> QED  BY <3>2, <3>3, <4>1, <4>2 DEF Ringing
    <3> QED  BY <1>2, <2>1, <3>4, <3>5
  <2> QED  BY <2>1, <2>2, <2>3
<1>8. CASE sigDel
  <2>1. PICK k \in {1, 2, 3} : Running("INT", k)
      BY <1>8 DEF sigDel
  <2>2. call # 0 /\ prog' = prog /\ handlers[Len(handlers)] = <<"INT", k>> /\ prog # "none"
      BY <1>8, <2>1, RunningIs DEF sigDel
  <2>3. \A m : Running("INT", m) => m = k
      BY <2>2 DEF Running
  <2>4. CASE Exit
    <3>1. call' = 0 /\ handlers' = << >> /\ UNCHANGED <<count, bells>>
        BY <1>8, <2>2, <2>4 DEF Exit, sigDel
    <3> QED  BY <1>2, <1>3, <2>2, <3>1
  <2>5. CASE k = 1 /\ bells' = bells + 1 /\ Step(2) /\ UNCHANGED <<call, count>>
    <3>1. OneBell' /\ ~Ringing /\ Ringing'
        BY <1>1, <2>1, <2>5, BellSteps
    <3> QED  BY <1>1, <2>2, <2>5, <3>1 DEF BellsInv, OneBell
  <2>6. CASE k = 2 /\ count' = count + 1 /\ Step(3) /\ UNCHANGED <<call, bells>>
    <3>1. OneBell' /\ Ringing /\ ~Ringing'
        BY <1>1, <2>1, <2>6, BellSteps
    <3> QED  BY <1>1, <2>2, <2>6, <3>1 DEF BellsInv, OneBell
  <2>7. CASE k = 3 /\ Return /\ UNCHANGED <<call, count, bells>>
    <3>1. OneBell' /\ ~Ringing /\ ~Ringing'
        BY <1>1, <2>1, <2>7, BellReturns
    <3> QED  BY <1>1, <2>2, <2>7, <3>1 DEF BellsInv, OneBell
  <2> QED  BY <1>8, <2>3, <2>4, <2>5, <2>6, <2>7 DEF sigDel
<1>9. CASE sigcatch
  <2>1. PICK k \in {1, 2} : Running("QUIT", k)
      BY <1>9 DEF sigcatch
  <2>2. call # 0 /\ UNCHANGED <<prog, count, bells>>
      BY <1>9, <2>1, RunningIs DEF sigcatch
  <2>3. CASE Exit
      BY <1>2, <1>3, <2>2, <2>3 DEF Exit
  <2>4. CASE Step(2)
    <3>1. OneBell' /\ (Ringing' <=> Ringing)
        BY <1>1, <2>1, <2>4, BellSteps
    <3> QED  BY <1>2, <2>2, <3>1
  <2> QED  BY <1>9, <2>3, <2>4 DEF sigcatch
<1>10. CASE printAllString
  <2>1. Running("ALRM", 1) /\ Return /\ UNCHANGED <<prog, call, count, bells>>
      BY <1>10 DEF printAllString
  <2>2. call # 0 /\ OneBell' /\ (Ringing' <=> Ringing)
      BY <1>1, <2>1, BellReturns, RunningIs
  <2> QED  BY <1>2, <2>1, <2>2
<1> QED  BY <1>4, <1>5, <1>6, <1>7, <1>8, <1>9, <1>10 DEF TermNext

\* The number that is told is that of the bells, or one less between a bell and its
\* count, however many signals come (21).
THEOREM BellsAreTold == TermSpec => CountTold
<1> DEFINE Told == told' # told => \/ told' = bells /\ ~ \E i \in DOMAIN handlers : handlers[i] = <<"INT", 2>>
                                   \/ told' = bells - 1 /\ \E i \in DOMAIN handlers : handlers[i] = <<"INT", 2>>
<1>1. TermInit => BellsInv
  <2> SUFFICES ASSUME TermInit PROVE BellsInv
      OBVIOUS
  <2>1. handlers = << >> /\ count = 0 /\ bells = 0 /\ call = 0
      BY DEF TermInit
  <2>2. OneBell
      BY <2>1, NoHandlers
  <2> QED  BY <2>1, <2>2 DEF BellsInv, OneBell
<1>2. TermInv /\ BellsInv /\ [TermNext]_termVars => [Told]_termVars
  <2> SUFFICES ASSUME TermInv, BellsInv, TermNext, told' # told PROVE Told
      OBVIOUS
  <2>1. Running("QUIT", 1) /\ told' = count
      BY DEF TermNext, StartProgram, Succeed, Fail, Signal, sigDel, sigcatch, printAllString
  <2>2. call # 0
      BY <2>1, RunningIs
  <2>3. count \in Nat /\ bells = IF Ringing THEN count + 1 ELSE count
      BY <2>2 DEF BellsInv
  <2>4. CASE Ringing
      BY <2>1, <2>3, <2>4 DEF Ringing
  <2>5. CASE ~Ringing
      BY <2>1, <2>3, <2>5 DEF Ringing
  <2> QED  BY <2>4, <2>5
<1> QED  BY <1>1, <1>2, InitTermInv, TermStep, BellsStep, PTL DEF TermSpec, CountTold

-----------------------------------------------------------------------------
(* 25, 26: pipes between processes *)

Procs == {"main", "writer", "reader"}
PipePlaces == {"none", "forkWriter", "forkReader", "pclose", "wait", "close", "read"} \cup Ended

PipesTypeOK ==
    /\ pipeProgram \in {"none", "25", "strings", "blocks", "26"}
    /\ pipeAt \in [Procs -> PipePlaces] /\ ends \in [Procs -> SUBSET {"r", "w"}]
    /\ reaped \subseteq PipeChildren /\ typed \in Nat
    /\ stdio \in Seq(Int) /\ pipe \in Seq(Int) /\ block \in Seq(Int) /\ printed \in Seq(Int)

\* Who exists, and who holds which end: what works on the pipe holds its own end of it,
\* and so does main before it has forked all.
EndsInv ==
    /\ pipeProgram = "none" => \A p \in Procs : pipeAt[p] = "none"
    /\ pipeAt["main"] \in {"none", "forkWriter"} => pipeAt["writer"] = "none"
    /\ pipeAt["main"] = "forkWriter" => "w" \in ends["main"]
    /\ pipeAt["main"] = "forkReader" => ends["main"] = {"r", "w"} /\ pipeAt["reader"] = "none"
    /\ pipeAt["main"] = "none" => pipeAt["reader"] = "none"
    /\ pipeAt["main"] = "pclose" => pipeProgram = "26"
    /\ pipeAt["main"] = "forkWriter" /\ pipeProgram # "26" =>
          ends["main"] = {"r", "w"} /\ pipeAt["reader"] = "none"
    /\ pipeAt["writer"] \in {"close", "read"} => "w" \in ends["writer"]
    /\ pipeAt["reader"] \in {"close", "read"} => "r" \in ends["reader"]

\* How they may end: a writer is killed when nobody reads, a reader sees the end when
\* nobody writes, and main succeeds when its children did.
EndedInv ==
    /\ pipeAt["writer"] = "killed" => ~Held("r")
    /\ pipeAt["reader"] # "killed"
    /\ pipeAt["reader"] \in {"good", "bad"} => ~Held("w") /\ pipe = << >> /\ stdio = << >>
    /\ pipeAt["writer"] # "read" \/ pipeProgram # "26" => stdio = << >>
    /\ pipeAt["reader"] = "good" => pipeProgram # "26"
    /\ \A p \in reaped : pipeAt[p] \in Ended
    /\ pipeAt["main"] \in {"none", "forkWriter", "forkReader", "pclose"} => reaped = {}
    /\ pipeAt["main"] \in {"wait", "good"} =>
          /\ "writer" \in reaped => pipeAt["writer"] = "good"
          /\ "reader" \in reaped /\ pipeProgram # "26" => pipeAt["reader"] = "good"
    /\ pipeAt["main"] = "good" => reaped = PipeChildren

-----------------------------------------------------------------------------
\* The new line is printed: by main in 26, by the reader in the others.
Closed == IF pipeProgram = "26" THEN pipeAt["main"] = "good" ELSE pipeAt["reader"] = "good"
Shown == IF Closed THEN Len(printed) - 1 ELSE Len(printed)

\* Nothing was lost.
Whole == pipeAt["writer"] # "killed" /\ pipeAt["reader"] # "failed"

ClosedInv ==
    /\ Closed => Len(printed) > 0 /\ printed[Len(printed)] = NL
    /\ pipeProgram = "none" =>
          typed = 0 /\ Len(stdio) = 0 /\ Len(pipe) = 0 /\ Len(block) = 0 /\ Len(printed) = 0

\* What was typed is printed, or in the pipe, or in the buffer of the stream.
LettersInv ==
    pipeProgram \in {"25", "26", "blocks"} =>
        /\ Shown <= typed /\ \A i \in 1..Shown : printed[i] = 0 - i
        /\ Whole => /\ Shown + Len(pipe) + Len(stdio) = typed
                    /\ \A i \in 1..Len(pipe) : pipe[i] = Shown + i
                    /\ \A i \in 1..Len(stdio) : stdio[i] = Shown + Len(pipe) + i

\* Where blocks are taken for strings: the letters that left the pipe were printed,
\* each for the first time after those before it.
StringsInv ==
    pipeProgram = "strings" /\ Whole =>
        /\ Len(pipe) <= typed /\ \A i \in 1..Len(pipe) : pipe[i] = typed - Len(pipe) + i
        /\ \A i \in 1..Shown : printed[i] < 0 /\ 0 - printed[i] <= typed - Len(pipe)
        /\ \A i \in 1..Len(block) : block[i] < 0 /\ 0 - block[i] <= typed - Len(pipe)
        /\ \A c \in 1..(typed - Len(pipe)) :
              \E i \in 1..Shown : printed[i] = 0 - c /\ \A j \in 1..(i - 1) : printed[j] > 0 - c

PipesInv == PipesTypeOK /\ EndsInv /\ EndedInv /\ ClosedInv /\ LettersInv /\ StringsInv

\* Before the start nothing is typed.
LEMMA InitPipesInv == PipesInit => PipesInv
<1> SUFFICES ASSUME PipesInit PROVE PipesInv
    OBVIOUS
<1>1. << >> \in Seq(Int) /\ Len(<< >>) = 0
    BY EmptySeq
<1>2. /\ pipeProgram = "none" /\ typed = 0 /\ reaped = {}
      /\ Len(stdio) = 0 /\ Len(pipe) = 0 /\ Len(block) = 0 /\ Len(printed) = 0
      /\ stdio = << >> /\ pipe = << >>
      /\ \A p \in Procs : pipeAt[p] = "none" /\ ends[p] = {}
    BY <1>1 DEF PipesInit, Procs, PipeChildren
<1>3. PipesTypeOK
    BY <1>1 DEF PipesInit, PipesTypeOK, Procs, PipeChildren, PipePlaces
<1>4. EndsInv
    BY <1>2 DEF EndsInv, Procs
<1>5. EndedInv
    BY <1>2 DEF EndedInv, Procs, Ended
<1>6. ~Closed /\ Shown = 0
    BY <1>2 DEF Closed, Shown, Procs
<1> QED  BY <1>2, <1>3, <1>4, <1>5, <1>6 DEF PipesInv, ClosedInv, LettersInv, StringsInv

\* A process goes on, or ends and holds nothing.
LEMMA GoesIs ==
    ASSUME PipesTypeOK, NEW p \in Procs, NEW a \in PipePlaces, Goes(p, a)
    PROVE  /\ pipeAt' \in [Procs -> PipePlaces] /\ ends' \in [Procs -> SUBSET {"r", "w"}]
           /\ \A q \in Procs : pipeAt'[q] = IF q = p THEN a ELSE pipeAt[q]
           /\ \A q \in Procs : ends'[q] = IF q = p /\ a \in Ended THEN {} ELSE ends[q]
BY DEF Goes, PipesTypeOK

\* An end nobody holds stays so.
LEMMA HeldShrinks ==
    ASSUME PipesTypeOK, ends' \in [Procs -> SUBSET {"r", "w"}],
           \A q \in Procs : ends'[q] \subseteq ends[q] \cup ends["main"]
    PROVE  \A e \in {"r", "w"} : ~Held(e) => ~Held(e)'
BY DEF PipesTypeOK, Held, Procs

\* The text is as it was while only the processes change, and none of them fails.
LEMMA TextStays ==
    ASSUME ClosedInv, LettersInv, StringsInv, UNCHANGED <<pipeProgram, typed, stdio, pipe, block, printed>>,
           Closed' <=> Closed, Whole' => Whole
    PROVE  ClosedInv' /\ LettersInv' /\ StringsInv'
<1>1. Shown' = Shown
    BY DEF Shown
<1>2. ClosedInv'
    BY DEF ClosedInv
<1>3. LettersInv'
    BY <1>1 DEF LettersInv
<1>4. StringsInv'
    BY <1>1 DEF StringsInv
<1> QED  BY <1>2, <1>3, <1>4

\* pipe or popen.
LEMMA StartPipesStep ==
    ASSUME PipesInv, NEW k \in {"25", "strings", "blocks", "26"}, StartPipes(k)
    PROVE  PipesInv'
<1>1. /\ pipeProgram = "none" /\ pipeProgram' = k
      /\ UNCHANGED <<reaped, typed, stdio, pipe, block, printed>>
    BY DEF StartPipes
<1>2. /\ pipeAt \in [Procs -> PipePlaces] /\ ends \in [Procs -> SUBSET {"r", "w"}]
      /\ \A p \in Procs : pipeAt[p] = "none"
    BY <1>1 DEF PipesInv, PipesTypeOK, EndsInv
<1>3. reaped = {}
    BY <1>2 DEF PipesInv, EndedInv, Procs
<1>4. /\ pipeAt' \in [Procs -> PipePlaces] /\ ends' \in [Procs -> SUBSET {"r", "w"}]
      /\ pipeAt'["writer"] = "none"
      /\ \/ k = "26" /\ pipeAt'["main"] = "forkWriter" /\ pipeAt'["reader"] = "read"
            /\ ends'["main"] = {"w"} /\ ends'["reader"] = {"r"}
         \/ k # "26" /\ pipeAt'["main"] = "forkWriter" /\ pipeAt'["reader"] = "none" /\ ends'["main"] = {"r", "w"}
         \/ pipeAt'["main"] = "bad" /\ pipeAt'["reader"] = "none"
  <2>1. CASE /\ k = "26" /\ pipeAt' = [pipeAt EXCEPT !["main"] = "forkWriter", !["reader"] = "read"]
             /\ ends' = [ends EXCEPT !["main"] = {"w"}, !["reader"] = {"r"}]
      BY <1>2, <2>1 DEF Procs, PipePlaces
  <2>2. CASE /\ k # "26" /\ pipeAt' = [pipeAt EXCEPT !["main"] = "forkWriter"]
             /\ ends' = [ends EXCEPT !["main"] = {"r", "w"}]
      BY <1>2, <2>2 DEF Procs, PipePlaces
  <2>3. CASE Goes("main", "bad")
      BY <1>2, <2>3, GoesIs DEF PipesInv, Procs, PipePlaces, Ended
  <2> QED  BY <2>1, <2>2, <2>3 DEF StartPipes
<1>5. PipesTypeOK'
    BY <1>1, <1>4 DEF PipesInv, PipesTypeOK
<1>6. EndsInv'
    BY <1>1, <1>2, <1>4 DEF EndsInv, Procs
<1>7. EndedInv'
  <2>1. stdio = << >>
      BY <1>1 DEF PipesInv, EndedInv
  <2> QED  BY <1>1, <1>3, <1>4, <2>1 DEF EndedInv, Procs
<1>8. ~Closed /\ ~Closed'
    BY <1>1, <1>2, <1>4 DEF Closed, Procs
<1>9. typed = 0 /\ Len(stdio) = 0 /\ Len(pipe) = 0 /\ Len(block) = 0 /\ Len(printed) = 0
    BY <1>1 DEF PipesInv, ClosedInv
<1>10. Shown' = 0
    BY <1>1, <1>8, <1>9 DEF Shown
<1> QED  BY <1>1, <1>5, <1>6, <1>7, <1>8, <1>9, <1>10 DEF PipesInv, ClosedInv, LettersInv, StringsInv

\* main goes on without its children: it holds nothing any more, or holds what it held.
LEMMA MainMoves ==
    ASSUME PipesInv, NEW a \in PipePlaces, UNCHANGED <<pipeProgram, pipe, stdio>>,
           pipeAt' \in [Procs -> PipePlaces], ends' \in [Procs -> SUBSET {"r", "w"}],
           \A q \in Procs : pipeAt'[q] = IF q = "main" THEN a ELSE pipeAt[q],
           \A q \in Procs : ends'[q] = IF q = "main" /\ a \in Ended THEN {} ELSE ends[q],
           pipeProgram # "none", a \in {"wait", "good", "bad"},
           a # "bad" => reaped' \subseteq PipeChildren /\ \A p \in reaped' : pipeAt[p] \in Ended,
           a = "bad" => \/ reaped' = reaped
                         \/ \E p \in PipeChildren : pipeAt[p] \in Ended /\ reaped' = reaped \cup {p},
           a \in {"wait", "good"} =>
              /\ "writer" \in reaped' => pipeAt["writer"] = "good"
              /\ "reader" \in reaped' /\ pipeProgram # "26" => pipeAt["reader"] = "good",
           a = "good" => reaped' = PipeChildren,
           pipeAt["main"] \in {"forkWriter", "forkReader"} => a = "bad"
    PROVE  EndsInv' /\ EndedInv'
<1>1. /\ pipeAt \in [Procs -> PipePlaces] /\ ends \in [Procs -> SUBSET {"r", "w"}]
      /\ reaped \subseteq PipeChildren
    BY DEF PipesInv, PipesTypeOK
<1>2. EndsInv'
    BY <1>1 DEF PipesInv, EndsInv, Procs
<1>3. \A e \in {"r", "w"} : ~Held(e) => ~Held(e)'
    BY <1>1, HeldShrinks DEF PipesInv
<1>4. ASSUME NEW p \in reaped' PROVE pipeAt'[p] \in Ended
  <2>1. p \in PipeChildren /\ pipeAt[p] \in Ended
      BY <1>1 DEF PipesInv, EndedInv
  <2>2. pipeAt'[p] = pipeAt[p]
      BY <2>1 DEF PipeChildren, Procs
  <2> QED  BY <2>1, <2>2
<1>5. EndedInv'
    BY <1>1, <1>3, <1>4 DEF PipesInv, EndedInv, Procs, PipeChildren, Ended
<1> QED  BY <1>2, <1>5

\* A child goes on with what it needs, or ends.
LEMMA ChildMoves ==
    ASSUME PipesInv, NEW p \in PipeChildren, NEW a \in {"read"} \cup Ended,
           pipeAt[p] \in {"close", "read"}, UNCHANGED <<pipeProgram, reaped>>,
           pipeAt' \in [Procs -> PipePlaces], ends' \in [Procs -> SUBSET {"r", "w"}],
           \A q \in Procs : pipeAt'[q] = IF q = p THEN a ELSE pipeAt[q],
           \A q \in Procs : ends'[q] \subseteq ends[q] /\ (q # p => ends'[q] = ends[q]),
           a = "read" => (IF p = "writer" THEN "w" ELSE "r") \in ends'[p],
           a = "killed" => p = "writer" /\ ~Held("r"),
           p = "reader" /\ a \in {"good", "bad"} => ~Held("w") /\ pipe' = << >>,
           p = "reader" => UNCHANGED stdio,
           p = "writer" => stdio' = << >> \/ (a = "read" /\ pipeProgram = "26"),
           p = "reader" /\ a = "good" => pipeProgram # "26"
    PROVE  EndsInv' /\ EndedInv'
<1>1. /\ pipeAt \in [Procs -> PipePlaces] /\ ends \in [Procs -> SUBSET {"r", "w"}]
      /\ reaped \subseteq PipeChildren
    BY DEF PipesInv, PipesTypeOK
<1>2. EndsInv'
    BY <1>1 DEF PipesInv, EndsInv, Procs, PipeChildren, Ended
<1>3. \A e \in {"r", "w"} : ~Held(e) => ~Held(e)'
    BY <1>1, HeldShrinks DEF PipesInv
<1>4. pipeAt["writer"] \in {"close", "read"} => Held("w") /\ pipeAt["reader"] \notin {"good", "bad"}
    BY <1>1 DEF PipesInv, EndsInv, EndedInv, Held, Procs
<1>5. p \notin reaped
    BY DEF PipesInv, EndedInv, Ended
<1>6. CASE p = "reader"
  <2>1. stdio' = stdio /\ (pipeAt["writer"] # "read" \/ pipeProgram # "26" => stdio = << >>)
      BY <1>6 DEF PipesInv, EndedInv
  <2>2. pipeAt'["reader"] = a /\ pipeAt'["writer"] = pipeAt["writer"] /\ pipeAt'["main"] = pipeAt["main"]
      BY <1>6 DEF Procs
  <2>3. a \in {"good", "bad"} => ~Held("w")' /\ pipe' = << >> /\ stdio' = << >>
      BY <1>3, <1>4, <1>6, <2>1
  <2>4. \A q \in reaped' : pipeAt'[q] \in Ended
      BY <1>1, <1>5 DEF PipesInv, EndedInv, PipeChildren, Procs
  <2>5. pipeAt'["writer"] = "killed" => ~Held("r")'
      BY <1>3, <2>2 DEF PipesInv, EndedInv
  <2>6. a # "killed" /\ (a = "good" => pipeProgram' # "26")
      BY <1>6
  <2>7. pipeAt'["writer"] # "read" \/ pipeProgram' # "26" => stdio' = << >>
      BY <2>1, <2>2
  <2>8. "reader" \notin reaped'
      BY <1>5, <1>6
  <2> QED  BY <1>2, <2>2, <2>3, <2>4, <2>5, <2>6, <2>7, <2>8 DEF PipesInv, EndedInv, PipeChildren
<1>7. CASE p = "writer"
  <2>1. pipeAt'["writer"] = a /\ pipeAt'["reader"] = pipeAt["reader"] /\ pipeAt'["main"] = pipeAt["main"]
      BY <1>7 DEF Procs
  <2>2. pipeAt["reader"] \notin {"good", "bad"}
      BY <1>4, <1>7
  <2>3. \A q \in reaped' : pipeAt'[q] \in Ended
      BY <1>1, <1>5 DEF PipesInv, EndedInv, PipeChildren, Procs
  <2>4. a = "killed" => ~Held("r")'
      BY <1>3
  <2>5. pipeAt'["writer"] # "read" \/ pipeProgram' # "26" => stdio' = << >>
      BY <1>7, <2>1
  <2>6. "writer" \notin reaped'
      BY <1>5, <1>7
  <2> QED  BY <1>2, <2>1, <2>2, <2>3, <2>4, <2>5, <2>6 DEF PipesInv, EndedInv, PipeChildren
<1> QED  BY <1>2, <1>6, <1>7 DEF PipeChildren

\* Nobody at work has closed the text.
LEMMA AtWork ==
    ASSUME PipesInv, pipeAt["writer"] \in {"close", "read"} \/ pipeAt["reader"] \in {"close", "read"}
    PROVE  /\ ~Closed /\ Shown = Len(printed) /\ pipeAt["main"] # "good" /\ pipeProgram # "none"
           /\ pipeAt["reader"] \in {"close", "read"} => Whole
<1>1. pipeAt["main"] # "good"
    BY DEF PipesInv, EndedInv, PipeChildren, Ended
<1>2. pipeProgram # "none"
    BY DEF PipesInv, EndsInv, Procs
<1>3. pipeAt["reader"] # "good"
    BY DEF PipesInv, PipesTypeOK, EndsInv, EndedInv, Held, Procs
<1>4. pipeAt["reader"] \in {"close", "read"} => pipeAt["writer"] # "killed"
    BY DEF PipesInv, PipesTypeOK, EndsInv, EndedInv, Held, Procs
<1> QED  BY <1>1, <1>2, <1>3, <1>4 DEF Closed, Shown, Whole

\* fork: the child has what main holds.
LEMMA ForkOneStep ==
    ASSUME PipesInv, NEW p \in PipeChildren, NEW now, NEW next, ForkOne(p, now, next),
           \/ now = "forkWriter" /\ p = "writer"
              /\ next = (IF pipeProgram = "26" THEN "pclose" ELSE "forkReader")
           \/ now = "forkReader" /\ p = "reader" /\ next = "wait"
    PROVE  PipesInv'
<1>1. /\ pipeAt \in [Procs -> PipePlaces] /\ ends \in [Procs -> SUBSET {"r", "w"}]
      /\ pipeAt["main"] = now /\ UNCHANGED <<pipeProgram, reaped, typed, stdio, pipe, block, printed>>
      /\ "main" \in Procs /\ p \in Procs /\ p # "main" /\ now \in {"forkWriter", "forkReader"}
      /\ next \in {"pclose", "forkReader", "wait"}
      /\ Ended \cap {"pclose", "forkReader", "wait", "read", "close"} = {}
    BY DEF PipesInv, PipesTypeOK, ForkOne, Procs, PipeChildren, Ended
<1>2. pipeProgram # "none" /\ pipeAt[p] = "none" /\ reaped = {}
    BY <1>1 DEF PipesInv, EndsInv, EndedInv, Procs
<1>3. CASE Goes("main", "bad")
  <2>1. /\ pipeAt' \in [Procs -> PipePlaces] /\ ends' \in [Procs -> SUBSET {"r", "w"}]
        /\ \A q \in Procs : pipeAt'[q] = IF q = "main" THEN "bad" ELSE pipeAt[q]
        /\ \A q \in Procs : ends'[q] = IF q = "main" THEN {} ELSE ends[q]
      BY <1>1, <1>3, GoesIs DEF PipesInv, PipePlaces, Ended
  <2>2. EndsInv' /\ EndedInv'
    <3>1. "bad" \in PipePlaces /\ "bad" \in Ended
        BY DEF PipePlaces, Ended
    <3> QED  BY <1>1, <1>2, <2>1, <3>1, MainMoves
  <2>3. PipesTypeOK'
      BY <1>1, <2>1 DEF PipesInv, PipesTypeOK
  <2>4. pipeAt'["reader"] = pipeAt["reader"] /\ pipeAt'["writer"] = pipeAt["writer"] /\ pipeAt'["main"] = "bad"
      BY <2>1 DEF Procs
  <2>5. (Closed' <=> Closed) /\ (Whole' => Whole)
      BY <1>1, <2>4 DEF Closed, Whole
  <2> QED  BY <1>1, <2>2, <2>3, <2>5, TextStays DEF PipesInv
<1>4. CASE /\ pipeAt' = [pipeAt EXCEPT ![p] = IF pipeProgram = "26" THEN "read" ELSE "close", !["main"] = next]
           /\ ends' = [ends EXCEPT ![p] = ends["main"],
                                   !["main"] = IF next = "forkReader" THEN @ ELSE {}]
  <2> DEFINE at == IF pipeProgram = "26" THEN "read" ELSE "close"
  <2>1. /\ pipeAt' \in [Procs -> PipePlaces] /\ ends' \in [Procs -> SUBSET {"r", "w"}]
        /\ pipeAt'[p] = at /\ pipeAt'["main"] = next
        /\ \A q \in Procs \ {p, "main"} : pipeAt'[q] = pipeAt[q] /\ ends'[q] = ends[q]
        /\ ends'[p] = ends["main"] /\ ends'["main"] = IF next = "forkReader" THEN ends["main"] ELSE {}
      BY <1>1, <1>4 DEF PipePlaces
  <2>2. \A e \in {"r", "w"} : ~Held(e) => ~Held(e)'
      BY <1>1, <2>1, HeldShrinks DEF PipesInv, Procs
  <2>3. at \in {"read", "close"} /\ (pipeProgram # "26" => at = "close")
      OBVIOUS
  <2> HIDE DEF at
  <2>4. PipesTypeOK'
      BY <1>1, <2>1 DEF PipesInv, PipesTypeOK
  <2>5. pipeAt["main"] # "good" /\ pipeAt'["main"] # "good" /\ pipeAt[p] # "killed" /\ pipeAt'[p] # "killed"
        /\ pipeAt[p] # "failed" /\ pipeAt[p] # "good" /\ pipeAt'[p] # "good" /\ pipeAt'[p] # "failed"
      BY <1>1, <1>2, <2>1, <2>3
  <2>6. CASE p = "writer" /\ now = "forkWriter"
    <3>1. pipeAt'["reader"] = pipeAt["reader"] /\ ends'["reader"] = ends["reader"]
        BY <2>1, <2>6 DEF Procs
    <3>2. EndsInv'
        BY <1>1, <1>2, <2>1, <2>3, <2>6, <3>1 DEF PipesInv, EndsInv, Procs
    <3>3. pipeAt["reader"] \in {"good", "bad"} => ~Held("w")
        BY DEF PipesInv, EndedInv
    <3>4. Held("w")
        BY <1>1, <2>6 DEF PipesInv, EndsInv, Held
    <3>5. EndedInv'
        BY <1>1, <1>2, <2>1, <2>2, <2>3, <2>6, <3>1, <3>3, <3>4 DEF PipesInv, EndedInv
    <3>6. (Closed' <=> Closed) /\ (Whole' => Whole)
        BY <1>1, <2>5, <2>6, <3>1 DEF Closed, Whole
    <3> QED  BY <1>1, <2>4, <3>2, <3>5, <3>6, TextStays DEF PipesInv
  <2>7. CASE p = "reader" /\ now = "forkReader" /\ next = "wait"
    <3>1. pipeAt'["writer"] = pipeAt["writer"] /\ ends'["writer"] = ends["writer"]
        BY <2>1, <2>7 DEF Procs
    <3>2. EndsInv'
        BY <1>1, <1>2, <2>1, <2>3, <2>7, <3>1 DEF PipesInv, EndsInv, Procs
    <3>5. EndedInv'
        BY <1>1, <1>2, <2>1, <2>2, <2>3, <2>7, <3>1 DEF PipesInv, EndedInv
    <3>6. (Closed' <=> Closed) /\ (Whole' => Whole)
        BY <1>1, <2>5, <2>7, <3>1 DEF Closed, Whole
    <3> QED  BY <1>1, <2>4, <3>2, <3>5, <3>6, TextStays DEF PipesInv
  <2> QED  BY <1>2, <2>6, <2>7
<1> QED  BY <1>3, <1>4 DEF ForkOne

\* pclose.
LEMMA PCloseStep == ASSUME PipesInv, PClose PROVE PipesInv'
<1>1. /\ pipeAt["main"] = "pclose" /\ pipeAt["reader"] \in Ended /\ reaped' = {"reader"}
      /\ UNCHANGED <<pipeProgram, typed, stdio, pipe, block, printed>> /\ Goes("main", "wait")
    BY DEF PClose
<1>2. /\ pipeAt' \in [Procs -> PipePlaces] /\ ends' \in [Procs -> SUBSET {"r", "w"}]
      /\ \A q \in Procs : pipeAt'[q] = IF q = "main" THEN "wait" ELSE pipeAt[q]
      /\ \A q \in Procs : ends'[q] = ends[q]
    BY <1>1, GoesIs DEF PipesInv, PipePlaces, Ended, Procs
<1>3. pipeProgram = "26"
    BY <1>1 DEF PipesInv, EndsInv
<1>4. EndsInv' /\ EndedInv'
  <2>1. "wait" \in PipePlaces /\ "wait" \notin Ended
      BY DEF PipePlaces, Ended
  <2> QED  BY <1>1, <1>2, <1>3, <2>1, MainMoves DEF PipeChildren
<1>5. PipesTypeOK'
    BY <1>1, <1>2 DEF PipesInv, PipesTypeOK, PipeChildren
<1>6. (Closed' <=> Closed) /\ (Whole' => Whole)
  <2>1. pipeAt'["reader"] = pipeAt["reader"] /\ pipeAt'["writer"] = pipeAt["writer"] /\ pipeAt'["main"] = "wait"
      BY <1>2 DEF Procs
  <2> QED  BY <1>1, <1>3, <2>1 DEF Closed, Whole
<1> QED  BY <1>1, <1>4, <1>5, <1>6, TextStays DEF PipesInv

\* wait.
LEMMA WaitChildStep == ASSUME PipesInv, NEW p \in PipeChildren, WaitChild(p) PROVE PipesInv'
<1> DEFINE a == IF pipeAt[p] = "good" THEN "wait" ELSE "bad"
<1>1. /\ pipeAt["main"] = "wait" /\ pipeAt[p] \in Ended /\ reaped' = reaped \cup {p}
      /\ UNCHANGED <<pipeProgram, typed, stdio, pipe, block, printed>> /\ Goes("main", a)
    BY DEF WaitChild
<1>0. a \in {"wait", "bad"} /\ (a = "wait" => pipeAt[p] = "good") /\ a \in PipePlaces
    BY DEF PipePlaces, Ended
<1> HIDE DEF a
<1>2. /\ pipeAt' \in [Procs -> PipePlaces] /\ ends' \in [Procs -> SUBSET {"r", "w"}]
      /\ \A q \in Procs : pipeAt'[q] = IF q = "main" THEN a ELSE pipeAt[q]
      /\ \A q \in Procs : ends'[q] = IF q = "main" /\ a \in Ended THEN {} ELSE ends[q]
    BY <1>0, <1>1, GoesIs DEF PipesInv, Procs
<1>3. pipeProgram # "none" /\ reaped \subseteq PipeChildren /\ \A q \in reaped : pipeAt[q] \in Ended
    BY <1>1 DEF PipesInv, PipesTypeOK, EndsInv, EndedInv, Procs
<1>4. EndsInv' /\ EndedInv'
  <2>1. a # "bad" => reaped' \subseteq PipeChildren /\ \A q \in reaped' : pipeAt[q] \in Ended
      BY <1>1, <1>3
  <2>2. a \in {"wait", "good"} =>
              /\ "writer" \in reaped' => pipeAt["writer"] = "good"
              /\ "reader" \in reaped' /\ pipeProgram # "26" => pipeAt["reader"] = "good"
      BY <1>0, <1>1 DEF PipesInv, EndedInv
  <2> QED  BY <1>0, <1>1, <1>2, <1>3, <2>1, <2>2, MainMoves
<1>5. PipesTypeOK'
    BY <1>1, <1>2 DEF PipesInv, PipesTypeOK
<1>6. (Closed' <=> Closed) /\ (Whole' => Whole)
  <2>1. pipeAt'["reader"] = pipeAt["reader"] /\ pipeAt'["writer"] = pipeAt["writer"] /\ pipeAt'["main"] = a
      BY <1>2 DEF Procs
  <2> QED  BY <1>0, <1>1, <2>1 DEF Closed, Whole
<1> QED  BY <1>1, <1>4, <1>5, <1>6, TextStays DEF PipesInv

\* All children are waited for: main prints the new line in 26, and succeeds.
LEMMA NoMoreChildrenStep == ASSUME PipesInv, NoMoreChildren PROVE PipesInv'
<1>1. /\ pipeAt["main"] = "wait" /\ reaped = PipeChildren /\ Goes("main", "good")
      /\ printed' = (IF pipeProgram = "26" THEN Append(printed, NL) ELSE printed)
      /\ UNCHANGED <<pipeProgram, reaped, typed, stdio, pipe, block>>
    BY DEF NoMoreChildren
<1>2. /\ pipeAt' \in [Procs -> PipePlaces] /\ ends' \in [Procs -> SUBSET {"r", "w"}]
      /\ \A q \in Procs : pipeAt'[q] = IF q = "main" THEN "good" ELSE pipeAt[q]
      /\ \A q \in Procs : ends'[q] = IF q = "main" THEN {} ELSE ends[q]
    BY <1>1, GoesIs DEF PipesInv, PipePlaces, Ended, Procs
<1>3. pipeProgram # "none"
    BY <1>1 DEF PipesInv, EndsInv, Procs
<1>4. EndsInv' /\ EndedInv'
  <2>1. "good" \in PipePlaces /\ "good" \in Ended
      BY DEF PipePlaces, Ended
  <2>2. reaped' = PipeChildren /\ \A q \in reaped' : pipeAt[q] \in Ended
      BY <1>1 DEF PipesInv, EndedInv
  <2>3. /\ "writer" \in reaped' => pipeAt["writer"] = "good"
        /\ "reader" \in reaped' /\ pipeProgram # "26" => pipeAt["reader"] = "good"
      BY <1>1 DEF PipesInv, EndedInv
  <2> QED  BY <1>1, <1>2, <1>3, <2>1, <2>2, <2>3, MainMoves
<1>5. NL \in Int /\ printed \in Seq(Int) /\ Len(printed) \in Nat
    BY DEF NL, PipesInv, PipesTypeOK
<1>6. PipesTypeOK'
    BY <1>1, <1>2, <1>5 DEF PipesInv, PipesTypeOK
<1>7. pipeAt'["reader"] = pipeAt["reader"] /\ pipeAt'["writer"] = pipeAt["writer"] /\ pipeAt'["main"] = "good"
    BY <1>2 DEF Procs
<1>8. CASE pipeProgram # "26"
  <2>1. (Closed' <=> Closed) /\ (Whole' => Whole)
      BY <1>1, <1>7, <1>8 DEF Closed, Whole
  <2>2. printed' = printed
      BY <1>1, <1>8
  <2> QED  BY <1>1, <1>4, <1>6, <2>1, <2>2, TextStays DEF PipesInv
<1>9. CASE pipeProgram = "26"
  <2>1. ~Closed /\ Closed' /\ (Whole' => Whole)
      BY <1>1, <1>7, <1>9 DEF Closed, Whole
  <2>2. /\ Len(printed') = Len(printed) + 1 /\ printed'[Len(printed')] = NL
        /\ \A i \in 1..Len(printed) : printed'[i] = printed[i]
      BY <1>1, <1>5, <1>9
  <2>3. Shown' = Shown /\ Shown = Len(printed)
      BY <1>5, <2>1, <2>2 DEF Shown
  <2> HIDE DEF Shown, Closed, Whole
  <2>4. LettersInv'
      BY <1>1, <1>5, <2>1, <2>2, <2>3 DEF PipesInv, LettersInv
  <2>5. StringsInv' /\ ClosedInv'
      BY <1>1, <1>5, <1>9, <2>2 DEF StringsInv, ClosedInv
  <2> QED  BY <1>4, <1>6, <2>4, <2>5 DEF PipesInv
<1> QED  BY <1>8, <1>9

\* A child of 25 closes the end it does not use.
LEMMA CloseOtherStep == ASSUME PipesInv, NEW p \in PipeChildren, CloseOther(p) PROVE PipesInv'
<1>1. /\ pipeAt[p] = "close" /\ pipeAt' = [pipeAt EXCEPT ![p] = "read"]
      /\ ends' = [ends EXCEPT ![p] = @ \cap {IF p = "writer" THEN "w" ELSE "r"}]
      /\ UNCHANGED <<pipeProgram, reaped, typed, stdio, pipe, block, printed>>
    BY DEF CloseOther
<1>2. pipeAt \in [Procs -> PipePlaces] /\ ends \in [Procs -> SUBSET {"r", "w"}] /\ p \in Procs
    BY DEF PipesInv, PipesTypeOK, Procs, PipeChildren
<1>3. (IF p = "writer" THEN "w" ELSE "r") \in ends[p]
    BY <1>1 DEF PipesInv, EndsInv, PipeChildren
<1>4. /\ pipeAt' \in [Procs -> PipePlaces] /\ ends' \in [Procs -> SUBSET {"r", "w"}]
      /\ \A q \in Procs : pipeAt'[q] = IF q = p THEN "read" ELSE pipeAt[q]
      /\ \A q \in Procs : ends'[q] \subseteq ends[q] /\ (q # p => ends'[q] = ends[q])
      /\ (IF p = "writer" THEN "w" ELSE "r") \in ends'[p]
    BY <1>1, <1>2, <1>3 DEF PipePlaces
<1>5. p = "writer" => stdio' = << >>
    BY <1>1 DEF PipesInv, EndedInv
<1>6. EndsInv' /\ EndedInv'
  <2>1. "read" \in {"read"} \cup Ended
      OBVIOUS
  <2> QED  BY <1>1, <1>4, <1>5, <2>1, ChildMoves
<1>7. PipesTypeOK'
    BY <1>1, <1>4 DEF PipesInv, PipesTypeOK
<1>8. (Closed' <=> Closed) /\ (Whole' => Whole)
    BY <1>1, <1>4 DEF Closed, Whole, Procs, PipeChildren
<1> QED  BY <1>1, <1>6, <1>7, <1>8, TextStays DEF PipesInv

-----------------------------------------------------------------------------
\* The i-th letter of what is in the pipe p and the buffer s of the stream.
OnTheWay(p, s, i) == IF i <= Len(p) THEN p[i] ELSE s[i - Len(p)]

\* Letters on the way that follow each other, from m + 1.
Follow(p, s, m) == (\A i \in 1..Len(p) : p[i] = m + i) /\ (\A i \in 1..Len(s) : s[i] = m + Len(p) + i)

\* n letters after m were put behind those on the way.
Behind(p, s, p2, s2, n, m) ==
    /\ Len(p2) + Len(s2) = Len(p) + Len(s) + n
    /\ \A i \in 1..(Len(p) + Len(s)) : OnTheWay(p2, s2, i) = OnTheWay(p, s, i)
    /\ \A i \in 1..n : OnTheWay(p2, s2, Len(p) + Len(s) + i) = m + i

\* Letters on the way that follow each other still do when more follow behind.
LEMMA OnwardIs ==
    ASSUME NEW p \in Seq(Int), NEW s \in Seq(Int), NEW p2 \in Seq(Int), NEW s2 \in Seq(Int),
           NEW n \in Nat, NEW m \in Int, Follow(p, s, m), Behind(p, s, p2, s2, n, m + Len(p) + Len(s))
    PROVE  Follow(p2, s2, m)
<1>1. Len(p) \in Nat /\ Len(s) \in Nat /\ Len(p2) \in Nat /\ Len(s2) \in Nat
    OBVIOUS
<1> USE DEF Follow, Behind
<1>2. ASSUME NEW i \in 1..(Len(p) + Len(s)) PROVE OnTheWay(p, s, i) = m + i
  <2>1. CASE i <= Len(p)
      BY <1>1, <2>1 DEF OnTheWay
  <2>2. CASE i > Len(p)
    <3>1. i - Len(p) \in 1..Len(s) /\ ~(i <= Len(p))
        BY <1>1, <2>2
    <3>2. s[i - Len(p)] = m + Len(p) + (i - Len(p))
        BY <3>1
    <3> QED  BY <1>1, <3>1, <3>2 DEF OnTheWay
  <2> QED  BY <1>1, <2>1, <2>2
<1>3. ASSUME NEW i \in 1..(Len(p2) + Len(s2)) PROVE OnTheWay(p2, s2, i) = m + i
  <2>1. CASE i <= Len(p) + Len(s)
    <3>1. i \in 1..(Len(p) + Len(s))
        BY <1>1, <2>1
    <3> QED  BY <1>2, <3>1
  <2>2. CASE i > Len(p) + Len(s)
    <3> DEFINE k == i - (Len(p) + Len(s))
    <3>1. k \in 1..n /\ i = Len(p) + Len(s) + k
        BY <1>1, <2>2
    <3> HIDE DEF k
    <3>2. OnTheWay(p2, s2, i) = m + Len(p) + Len(s) + k
        BY <3>1
    <3> QED  BY <1>1, <3>1, <3>2
  <2> QED  BY <1>1, <2>1, <2>2
<1>4. ASSUME NEW i \in 1..Len(p2) PROVE p2[i] = m + i
  <2>1. i \in 1..(Len(p2) + Len(s2)) /\ i <= Len(p2)
      BY <1>1
  <2> QED  BY <1>3, <2>1 DEF OnTheWay
<1>5. ASSUME NEW i \in 1..Len(s2) PROVE s2[i] = m + Len(p2) + i
  <2> DEFINE k == Len(p2) + i
  <2>1. k \in 1..(Len(p2) + Len(s2)) /\ ~(k <= Len(p2)) /\ k - Len(p2) = i
      BY <1>1
  <2> HIDE DEF k
  <2>2. OnTheWay(p2, s2, k) = m + k /\ OnTheWay(p2, s2, k) = s2[i]
      BY <1>3, <2>1 DEF OnTheWay
  <2> QED  BY <1>1, <2>1, <2>2 DEF k
<1> QED  BY <1>4, <1>5

\* The writer adds letters behind those on the way, or moves them on.
LEMMA WriterText ==
    ASSUME PipesInv, NEW n \in Nat, typed' = typed + n, ~Closed, ~Closed', Whole' => Whole,
           UNCHANGED <<pipeProgram, block, printed>>, pipeProgram # "none",
           pipe' \in Seq(Int), stdio' \in Seq(Int),
           pipeProgram # "26" => Len(stdio) = 0 /\ Len(stdio') = 0,
           Behind(pipe, stdio, pipe', stdio', n, typed)
    PROVE  ClosedInv' /\ LettersInv' /\ StringsInv'
<1>1. /\ typed \in Nat /\ Len(pipe) \in Nat /\ Len(stdio) \in Nat /\ Len(printed) \in Nat /\ Len(block) \in Nat
      /\ Len(pipe') \in Nat /\ Len(stdio') \in Nat
    BY DEF PipesInv, PipesTypeOK
<1>2. Shown = Len(printed) /\ Shown' = Len(printed)
    BY DEF Shown
<1>3. ClosedInv'
    BY DEF ClosedInv
<1>4. LettersInv'
  <2> SUFFICES ASSUME pipeProgram \in {"25", "26", "blocks"} PROVE LettersInv'
      BY DEF LettersInv
  <2>1. Len(printed) <= typed /\ \A i \in 1..Len(printed) : printed[i] = 0 - i
      BY <1>2 DEF PipesInv, LettersInv
  <2>2. ASSUME Whole'
        PROVE  /\ Len(printed) + Len(pipe') + Len(stdio') = typed'
               /\ \A i \in 1..Len(pipe') : pipe'[i] = Len(printed) + i
               /\ \A i \in 1..Len(stdio') : stdio'[i] = Len(printed) + Len(pipe') + i
    <3>1. /\ Len(printed) + Len(pipe) + Len(stdio) = typed
          /\ \A i \in 1..Len(pipe) : pipe[i] = Len(printed) + i
          /\ \A i \in 1..Len(stdio) : stdio[i] = Len(printed) + Len(pipe) + i
        BY <1>2, <2>2 DEF PipesInv, LettersInv
    <3>2. /\ Follow(pipe, stdio, Len(printed)) /\ Len(printed) \in Int
          /\ Len(printed) + Len(pipe) + Len(stdio) = typed
          /\ Len(pipe') + Len(stdio') = Len(pipe) + Len(stdio) + n
        BY <1>1, <3>1 DEF Follow, Behind
    <3>3. Follow(pipe', stdio', Len(printed))
        BY <3>2, OnwardIs DEF PipesInv, PipesTypeOK
    <3>4. Len(printed) + Len(pipe') + Len(stdio') = typed'
      <4> DEFINE x == Len(pipe') y == Len(stdio') u == Len(pipe) v == Len(stdio) w == Len(printed)
      <4>1. x \in Nat /\ y \in Nat /\ u \in Nat /\ v \in Nat /\ w \in Nat /\ typed \in Nat
            /\ w + u + v = typed /\ x + y = u + v + n
          BY <1>1, <3>2
      <4> HIDE DEF x, y, u, v, w
      <4>2. w + x + y = typed + n
          BY <4>1
      <4> QED  BY <4>2 DEF w, x, y
    <3> QED  BY <3>3, <3>4 DEF Follow
  <2> QED  BY <1>1, <1>2, <2>1, <2>2 DEF LettersInv
<1>5. StringsInv'
  <2> SUFFICES ASSUME pipeProgram = "strings", Whole' PROVE StringsInv'
      BY DEF StringsInv
  <2>1. /\ Len(pipe) <= typed /\ \A i \in 1..Len(pipe) : pipe[i] = typed - Len(pipe) + i
        /\ \A i \in 1..Shown : printed[i] < 0 /\ 0 - printed[i] <= typed - Len(pipe)
        /\ \A i \in 1..Len(block) : block[i] < 0 /\ 0 - block[i] <= typed - Len(pipe)
        /\ \A c \in 1..(typed - Len(pipe)) :
              \E i \in 1..Shown : printed[i] = 0 - c /\ \A j \in 1..(i - 1) : printed[j] > 0 - c
      BY DEF PipesInv, StringsInv
  <2>2. Len(stdio) = 0 /\ Len(stdio') = 0 /\ Len(pipe') = Len(pipe) + n
      BY <1>1 DEF Behind
  <2>3. Follow(pipe, stdio, typed - Len(pipe)) /\ typed - Len(pipe) \in Int
        /\ (typed - Len(pipe)) + Len(pipe) + Len(stdio) = typed
      BY <1>1, <2>1, <2>2 DEF Follow
  <2>4. Follow(pipe', stdio', typed - Len(pipe))
    <3>1. Behind(pipe, stdio, pipe', stdio', n, (typed - Len(pipe)) + Len(pipe) + Len(stdio))
        BY <2>3
    <3> QED  BY <2>3, <3>1, OnwardIs DEF PipesInv, PipesTypeOK
  <2>5. \A i \in 1..Len(pipe') : pipe'[i] = (typed - Len(pipe)) + i
      BY <2>4 DEF Follow
  <2>6. typed' - Len(pipe') = typed - Len(pipe) /\ Len(pipe') <= typed'
      BY <1>1, <2>1, <2>2
  <2> QED  BY <1>2, <2>1, <2>5, <2>6 DEF StringsInv
<1> QED  BY <1>3, <1>4, <1>5

\* Text is lost: what was printed so far is right.
LEMMA TextLost ==
    ASSUME PipesInv, ~Closed, ~Closed', ~Whole', pipeProgram # "none", UNCHANGED <<pipeProgram, printed>>,
           typed' \in Nat, typed' >= typed
    PROVE  ClosedInv' /\ LettersInv' /\ StringsInv'
<1>1. Shown' = Shown /\ Shown \in Nat /\ typed \in Nat
    BY DEF Shown, PipesInv, PipesTypeOK
<1>2. ClosedInv' /\ StringsInv'
    BY DEF ClosedInv, StringsInv
<1>3. LettersInv'
    BY <1>1 DEF PipesInv, LettersInv
<1> QED  BY <1>2, <1>3

\* s is the buffer b and n letters after m.
Filled(s, b, n, m) ==
    /\ Len(s) = Len(b) + n
    /\ (\A i \in 1..Len(b) : s[i] = b[i]) /\ (\A i \in 1..n : s[Len(b) + i] = m + i)

\* The writer sends the buffer and what follows it.
LEMMA SentBehind ==
    ASSUME NEW p \in Seq(Int), NEW b \in Seq(Int), NEW s \in Seq(Int), NEW n \in Nat, NEW m \in Nat,
           Filled(s, b, n, m)
    PROVE  p \o s \in Seq(Int) /\ Behind(p, b, p \o s, << >>, n, m)
<1> DEFINE q == p \o s
<1>1. /\ Len(p) \in Nat /\ Len(b) \in Nat /\ Len(s) \in Nat /\ q \in Seq(Int) /\ Len(q) = Len(p) + Len(s)
      /\ \A i \in 1..(Len(p) + Len(s)) : q[i] = IF i <= Len(p) THEN p[i] ELSE s[i - Len(p)]
    BY ConcatProperties
<1> HIDE DEF q
<1> USE DEF Filled
<1>2. Len(<< >>) = 0
    OBVIOUS
<1>3. ASSUME NEW i \in 1..(Len(p) + Len(b)) PROVE OnTheWay(q, << >>, i) = OnTheWay(p, b, i)
  <2>1. i <= Len(q)
      BY <1>1
  <2>2. CASE i <= Len(p)
      BY <1>1, <2>1, <2>2 DEF OnTheWay
  <2>3. CASE i > Len(p)
    <3> DEFINE k == i - Len(p)
    <3>1. k \in 1..Len(b) /\ k \in 1..Len(s) /\ i = Len(p) + k /\ ~(i <= Len(p))
        BY <1>1, <2>3
    <3>2. OnTheWay(p, b, i) = b[k] /\ OnTheWay(q, << >>, i) = q[i]
        BY <2>1, <3>1 DEF OnTheWay
    <3>3. i \in 1..(Len(p) + Len(s)) /\ i - Len(p) = k
        BY <1>1
    <3>4. q[i] = s[k]
        BY <1>1, <3>1, <3>3
    <3> HIDE DEF k
    <3> QED  BY <3>1, <3>2, <3>4
  <2> QED  BY <1>1, <2>2, <2>3
<1>4. ASSUME NEW i \in 1..n PROVE OnTheWay(q, << >>, Len(p) + Len(b) + i) = m + i
  <2> DEFINE k == Len(b) + i
             j == Len(p) + Len(b) + i
  <2>0. /\ Len(p) \in Nat /\ Len(b) \in Nat /\ Len(s) = Len(b) + n /\ Len(q) = Len(p) + Len(s)
        /\ \A h \in 1..n : s[Len(b) + h] = m + h
      BY <1>1
  <2>1. k \in 1..Len(s) /\ j - Len(p) = k /\ ~(j <= Len(p)) /\ j <= Len(q) /\ j \in 1..(Len(p) + Len(s)) /\ s[k] = m + i
      BY <2>0
  <2> HIDE DEF k, j
  <2>2. OnTheWay(q, << >>, j) = m + i
      BY <1>1, <2>1 DEF OnTheWay
  <2> QED  BY <2>2 DEF j
<1>5. Behind(p, b, q, << >>, n, m)
    BY <1>1, <1>2, <1>3, <1>4 DEF Behind
<1> QED  BY <1>1, <1>5 DEF q

\* write by the writer: of what was buffered and n letters more.
LEMMA SendStep ==
    ASSUME PipesInv, pipeAt["writer"] = "read", UNCHANGED <<pipeProgram, reaped, block, printed>>,
           NEW n \in Nat, typed' = typed + n, NEW s \in Seq(Int), NEW next \in {"read", "good", "bad"},
           Send(s, next), stdio' = << >>, Filled(s, stdio, n, typed)
    PROVE  PipesInv'
<1>1. /\ stdio \in Seq(Int) /\ pipe \in Seq(Int) /\ typed \in Nat /\ typed' \in Nat /\ typed' >= typed
      /\ pipeAt \in [Procs -> PipePlaces] /\ ends \in [Procs -> SUBSET {"r", "w"}] /\ << >> \in Seq(Int)
    BY DEF PipesInv, PipesTypeOK
<1>2. ~Closed /\ pipeAt["main"] # "good" /\ pipeProgram # "none"
    BY AtWork
<1>3. "w" \in ends["writer"] /\ pipeAt["reader"] \notin {"good", "bad"}
    BY <1>1 DEF PipesInv, EndsInv, EndedInv, Held, Procs
<1>4. PICK a \in {"read"} \cup Ended :
         /\ Goes("writer", a) /\ a \in {"read", "good", "bad", "killed"}
         /\ \/ a = "killed" /\ ~Held("r") /\ pipe' = pipe
            \/ a = next /\ pipe' = pipe \o s
    BY DEF Send, Ended
<1>5. /\ pipeAt' \in [Procs -> PipePlaces] /\ ends' \in [Procs -> SUBSET {"r", "w"}]
      /\ \A q \in Procs : pipeAt'[q] = IF q = "writer" THEN a ELSE pipeAt[q]
      /\ \A q \in Procs : ends'[q] = IF q = "writer" /\ a \in Ended THEN {} ELSE ends[q]
    BY <1>4, GoesIs DEF PipesInv, PipePlaces, Ended, Procs
<1>6. EndsInv' /\ EndedInv'
  <2>1. \A q \in Procs : ends'[q] \subseteq ends[q] /\ (q # "writer" => ends'[q] = ends[q])
      BY <1>5
  <2>2. a = "read" => "w" \in ends'["writer"]
      BY <1>3, <1>5 DEF Procs, Ended
  <2>3. a = "killed" => ~Held("r")
      BY <1>4
  <2> QED  BY <1>5, <2>1, <2>2, <2>3, ChildMoves DEF PipeChildren
<1>7. pipeAt'["reader"] = pipeAt["reader"] /\ pipeAt'["writer"] = a /\ pipeAt'["main"] = pipeAt["main"]
    BY <1>5 DEF Procs
<1>8. ~Closed'
    BY <1>2, <1>3, <1>7 DEF Closed
<1>9. CASE a = "killed" /\ pipe' = pipe
  <2>1. ~Whole'
      BY <1>7, <1>9 DEF Whole
  <2>2. ClosedInv' /\ LettersInv' /\ StringsInv'
      BY <1>1, <1>2, <1>8, <2>1, TextLost
  <2>3. PipesTypeOK'
      BY <1>1, <1>5, <1>9 DEF PipesInv, PipesTypeOK
  <2> QED  BY <1>6, <2>2, <2>3 DEF PipesInv
<1>10. CASE a = next /\ pipe' = pipe \o s
  <2>1. pipe' \in Seq(Int) /\ Behind(pipe, stdio, pipe', stdio', n, typed)
      BY <1>1, <1>10, SentBehind
  <2>2. Whole' => Whole
      BY <1>7 DEF Whole
  <2>3. stdio' \in Seq(Int) /\ Len(stdio') = 0
      BY <1>1
  <2>4. pipeProgram # "26" => Len(stdio) = 0 /\ Len(stdio') = 0
      BY <2>3 DEF PipesInv, EndedInv
  <2>5. ClosedInv' /\ LettersInv' /\ StringsInv'
      BY <1>2, <1>8, <2>1, <2>2, <2>3, <2>4, WriterText
  <2>6. PipesTypeOK'
      BY <1>1, <1>5, <2>1, <2>3 DEF PipesInv, PipesTypeOK
  <2> QED  BY <1>6, <2>5, <2>6 DEF PipesInv
<1> QED  BY <1>4, <1>9, <1>10

\* A letter typed.
LEMMA TypeLetterStep == ASSUME PipesInv, TypeLetter PROVE PipesInv'
<1> DEFINE s == Append(stdio, typed + 1)
<1>1. /\ pipeAt["writer"] = "read" /\ typed' = typed + 1
      /\ UNCHANGED <<pipeProgram, reaped, block, printed>>
      /\ \/ Send(s, "read") /\ stdio' = << >>
         \/ pipeProgram = "26" /\ stdio' = s /\ UNCHANGED <<pipeAt, ends, pipe>>
    BY DEF TypeLetter
<1>2. stdio \in Seq(Int) /\ pipe \in Seq(Int) /\ typed \in Nat /\ Len(stdio) \in Nat /\ Len(pipe) \in Nat
    BY DEF PipesInv, PipesTypeOK
<1>3. /\ s \in Seq(Int) /\ Len(s) = Len(stdio) + 1 /\ \A i \in 1..Len(stdio) : s[i] = stdio[i]
      /\ \A i \in 1..1 : s[Len(stdio) + i] = typed + i
    BY <1>2
<1> HIDE DEF s
<1>4. CASE Send(s, "read") /\ stdio' = << >>
  <2>1. Filled(s, stdio, 1, typed)
      BY <1>3 DEF Filled
  <2> QED  BY <1>1, <1>3, <1>4, <2>1, SendStep
<1>5. CASE pipeProgram = "26" /\ stdio' = s /\ UNCHANGED <<pipeAt, ends, pipe>>
  <2>1. ~Closed /\ pipeProgram # "none"
      BY <1>1, AtWork
  <2>2. ~Closed' /\ (Whole' => Whole)
      BY <1>1, <1>5, <2>1 DEF Closed, Whole
  <2>3. /\ pipe' = pipe /\ stdio' \in Seq(Int) /\ pipe' \in Seq(Int) /\ typed' \in Nat
        /\ Len(stdio') = Len(stdio) + 1
      BY <1>1, <1>2, <1>3, <1>5
  <2>4. ASSUME NEW i \in 1..(Len(pipe) + Len(stdio)) PROVE OnTheWay(pipe', s, i) = OnTheWay(pipe, stdio, i)
    <3>1. CASE i <= Len(pipe)
        BY <2>3, <3>1 DEF OnTheWay
    <3>2. CASE i > Len(pipe)
      <4>1. i - Len(pipe) \in 1..Len(stdio) /\ ~(i <= Len(pipe))
          BY <1>2, <3>2
      <4> QED  BY <1>3, <2>3, <4>1 DEF OnTheWay
    <3> QED  BY <1>2, <3>1, <3>2
  <2>5. ASSUME NEW i \in 1..1 PROVE OnTheWay(pipe', s, Len(pipe) + Len(stdio) + i) = typed + i
    <3> DEFINE j == Len(pipe) + Len(stdio) + i
    <3>1. ~(j <= Len(pipe)) /\ j - Len(pipe) = Len(stdio) + i
        BY <1>2
    <3> HIDE DEF j
    <3>2. OnTheWay(pipe', s, j) = s[Len(stdio) + i]
        BY <2>3, <3>1 DEF OnTheWay
    <3> QED  BY <1>3, <3>2 DEF j
  <2>6. Behind(pipe, stdio, pipe', stdio', 1, typed)
      BY <1>2, <1>5, <2>3, <2>4, <2>5 DEF Behind
  <2>7. ClosedInv' /\ LettersInv' /\ StringsInv'
      BY <1>1, <1>5, <2>1, <2>2, <2>3, <2>6, WriterText
  <2>8. PipesTypeOK' /\ EndsInv'
      BY <1>1, <1>5, <2>3 DEF PipesInv, PipesTypeOK, EndsInv
  <2>9. EndedInv'
    <3>1. (Held("r"))' = Held("r") /\ (Held("w"))' = Held("w")
        BY <1>5 DEF Held
    <3>2. pipeAt["reader"] \notin {"good", "bad"}
        BY <1>1 DEF PipesInv, PipesTypeOK, EndsInv, EndedInv, Held, Procs
    <3> QED  BY <1>1, <1>5, <3>1, <3>2 DEF PipesInv, EndedInv
  <2> QED  BY <2>7, <2>8, <2>9 DEF PipesInv
<1> QED  BY <1>1, <1>4, <1>5

\* A block typed.
LEMMA TypeBlockStep == ASSUME PipesInv, TypeBlock PROVE PipesInv'
<1>1. PICK n \in 1..(MaxTyped - typed) : typed' = typed + n /\ Send([i \in 1..n |-> typed + i], "read")
    BY DEF TypeBlock
<1>2. /\ pipeAt["writer"] = "read" /\ pipeProgram = "blocks"
      /\ UNCHANGED <<pipeProgram, reaped, stdio, block, printed>>
    BY DEF TypeBlock
<1>3. typed \in Nat /\ stdio = << >> /\ Len(stdio) = 0
    BY <1>2 DEF PipesInv, PipesTypeOK, EndedInv
<1>4. n \in Nat
    BY <1>3, PipesAssumption
<1> DEFINE s == [i \in 1..n |-> typed + i]
<1>5. s \in Seq(Int) /\ Len(s) = n /\ \A i \in 1..n : s[i] = typed + i
    BY <1>3, <1>4
<1> HIDE DEF s
<1>6. Filled(s, stdio, n, typed)
    BY <1>3, <1>4, <1>5 DEF Filled
<1>7. Send(s, "read") /\ stdio' = << >>
    BY <1>1, <1>2, <1>3 DEF s
<1> QED  BY <1>1, <1>2, <1>4, <1>5, <1>6, <1>7, SendStep

\* The end of the line.
LEMMA EndOfLineStep == ASSUME PipesInv, EndOfLine PROVE PipesInv'
<1>1. /\ pipeAt["writer"] = "read" /\ stdio' = << >> /\ typed' = typed
      /\ UNCHANGED <<pipeProgram, reaped, block, printed>>
    BY DEF EndOfLine
<1>2. PICK next \in {"good", "bad"} : Send(stdio, next)
    BY DEF EndOfLine
<1>3. stdio \in Seq(Int) /\ typed \in Nat /\ Len(stdio) \in Nat
    BY DEF PipesInv, PipesTypeOK
<1>4. typed' = typed + 0 /\ 0 \in Nat /\ Filled(stdio, stdio, 0, typed)
    BY <1>1, <1>3 DEF Filled
<1> QED  BY <1>1, <1>2, <1>3, <1>4, SendStep

\* The reader goes on, or ends at the end of the pipe or because it cannot print.
LEMMA ReaderMoves ==
    ASSUME PipesInv, pipeAt["reader"] = "read", UNCHANGED <<pipeProgram, reaped, typed, stdio>>,
           NEW a \in {"read", "good", "bad", "failed"}, Goes("reader", a),
           a \in {"good", "bad"} => ~Held("w") /\ pipe' = << >>,
           a = "good" => pipeProgram # "26"
    PROVE  /\ pipeAt' \in [Procs -> PipePlaces] /\ ends' \in [Procs -> SUBSET {"r", "w"}]
           /\ pipeAt'["reader"] = a /\ pipeAt'["writer"] = pipeAt["writer"] /\ pipeAt'["main"] = pipeAt["main"]
           /\ EndsInv' /\ EndedInv'
<1>1. /\ pipeAt \in [Procs -> PipePlaces] /\ ends \in [Procs -> SUBSET {"r", "w"}] /\ "r" \in ends["reader"]
    BY DEF PipesInv, PipesTypeOK, EndsInv
<1>2. a \in {"read"} \cup Ended /\ a \in PipePlaces /\ a # "killed"
    BY DEF Ended, PipePlaces
<1>3. /\ pipeAt' \in [Procs -> PipePlaces] /\ ends' \in [Procs -> SUBSET {"r", "w"}]
      /\ \A q \in Procs : pipeAt'[q] = IF q = "reader" THEN a ELSE pipeAt[q]
      /\ \A q \in Procs : ends'[q] = IF q = "reader" /\ a \in Ended THEN {} ELSE ends[q]
    BY <1>2, GoesIs DEF PipesInv, Procs
<1>4. \A q \in Procs : ends'[q] \subseteq ends[q] /\ (q # "reader" => ends'[q] = ends[q])
    BY <1>3
<1>5. a = "read" => "r" \in ends'["reader"]
    BY <1>1, <1>3 DEF Procs, Ended
<1>6. EndsInv' /\ EndedInv'
    BY <1>2, <1>3, <1>4, <1>5, ChildMoves DEF PipeChildren
<1> QED  BY <1>3, <1>6 DEF Procs

\* What toupper does.
LEMMA UpperCaseIs == \A c \in Int : (c > 0 => UpperCase(c) = 0 - c) /\ (c < 0 => UpperCase(c) = c)
BY DEF UpperCase

\* Letters are moved from the pipe to what is printed.
LEMMA PrintLetters ==
    ASSUME PipesInv, ~Closed, ~Closed', Whole, pipeProgram \in {"25", "26", "blocks"},
           UNCHANGED <<pipeProgram, typed, stdio>>,
           NEW printing \in Seq(Int), Len(printing) <= Len(pipe), \A i \in 1..Len(printing) : printing[i] = UpperCase(pipe[i]),
           printed' = printed \o printing, pipe' \in Seq(Int), Len(pipe') = Len(pipe) - Len(printing),
           \A i \in 1..Len(pipe') : pipe'[i] = pipe[Len(printing) + i]
    PROVE  ClosedInv' /\ LettersInv' /\ StringsInv'
<1>1. /\ typed \in Nat /\ Len(pipe) \in Nat /\ Len(stdio) \in Nat /\ Len(printed) \in Nat /\ Len(printing) \in Nat
      /\ Len(pipe') \in Nat /\ printed \in Seq(Int)
    BY DEF PipesInv, PipesTypeOK
<1>2. /\ Len(printed') = Len(printed) + Len(printing)
      /\ \A i \in 1..(Len(printed) + Len(printing)) :
            printed'[i] = IF i <= Len(printed) THEN printed[i] ELSE printing[i - Len(printed)]
    BY <1>1, ConcatProperties
<1>3. Shown = Len(printed) /\ Shown' = Len(printed) + Len(printing)
    BY <1>2 DEF Shown
<1>4. /\ Len(printed) + Len(pipe) + Len(stdio) = typed
      /\ \A i \in 1..Len(printed) : printed[i] = 0 - i
      /\ \A i \in 1..Len(pipe) : pipe[i] = Len(printed) + i
      /\ \A i \in 1..Len(stdio) : stdio[i] = Len(printed) + Len(pipe) + i
    BY <1>3 DEF PipesInv, LettersInv
<1>5. ASSUME NEW i \in 1..Shown' PROVE printed'[i] = 0 - i
  <2>1. CASE i <= Len(printed)
      BY <1>1, <1>2, <1>3, <1>4, <2>1
  <2>2. CASE i > Len(printed)
    <3> DEFINE k == i - Len(printed)
    <3>1. k \in 1..Len(printing) /\ k \in 1..Len(pipe) /\ i = Len(printed) + k /\ ~(i <= Len(printed))
        BY <1>1, <1>3, <2>2
    <3>2. printed'[i] = printing[k]
        BY <1>2, <1>3, <3>1
    <3> HIDE DEF k
    <3>3. pipe[k] = Len(printed) + k /\ printing[k] = UpperCase(pipe[k])
        BY <1>4, <3>1
    <3>4. PICK c \in Int : c = Len(printed) + k /\ c > 0
        BY <1>1, <3>1
    <3>5. UpperCase(c) = 0 - c
        BY <3>4, UpperCaseIs
    <3> QED  BY <3>1, <3>2, <3>3, <3>4, <3>5
  <2>3. i <= Len(printed) \/ i > Len(printed)
      BY <1>1
  <2> QED  BY <2>1, <2>2, <2>3, Zenon
<1>6. ASSUME NEW i \in 1..Len(pipe') PROVE pipe'[i] = Shown' + i
  <2> DEFINE k == Len(printing) + i
  <2>1. k \in 1..Len(pipe)
      BY <1>1
  <2>2. pipe'[i] = pipe[k]
      OBVIOUS
  <2>3. Len(printed) + k = Shown' + i
      BY <1>1, <1>3
  <2> HIDE DEF k
  <2>4. pipe[k] = Len(printed) + k
      BY <1>4, <2>1
  <2> QED  BY <2>2, <2>3, <2>4
<1>7. /\ Shown' + Len(pipe') = Len(printed) + Len(pipe) /\ Len(printed) + Len(pipe) <= typed
      /\ Shown' <= typed
    BY <1>1, <1>3, <1>4
<1>8. LettersInv'
  <2>1. \A i \in 1..Len(stdio) : stdio[i] = Shown' + Len(pipe') + i
      BY <1>4, <1>7
  <2>2. Shown' + Len(pipe') + Len(stdio) = typed
      BY <1>4, <1>7
  <2> QED  BY <1>5, <1>6, <1>7, <2>1, <2>2 DEF LettersInv
<1>9. ClosedInv' /\ StringsInv'
    BY DEF ClosedInv, StringsInv
<1> QED  BY <1>8, <1>9

\* What the reader prints, when it can.
LEMMA PrintsStep ==
    ASSUME PipesInv, pipeAt["reader"] = "read", NEW printing \in Seq(Int), NEW remains \in Seq(Int), Prints(printing, remains),
           block' \in Seq(Int),
           printed' = printed \o printing /\ Whole /\ ~Closed /\ ~Closed' /\ Whole' =>
                ClosedInv' /\ LettersInv' /\ StringsInv'
    PROVE  PipesInv'
<1>1. ~Closed /\ Whole /\ pipeAt["main"] # "good" /\ pipeProgram # "none"
    BY AtWork
<1>2. /\ pipe' = remains /\ UNCHANGED <<pipeProgram, reaped, typed, stdio>>
      /\ \/ printed' = printed \o printing /\ Goes("reader", "read")
         \/ Goes("reader", "failed") /\ printed' = printed
    BY DEF Prints
<1>3. /\ printed \in Seq(Int) /\ printed \o printing \in Seq(Int) /\ typed \in Nat /\ stdio \in Seq(Int)
      /\ pipeProgram' \in {"none", "25", "strings", "blocks", "26"} /\ reaped' \subseteq PipeChildren
    BY <1>2 DEF PipesInv, PipesTypeOK
<1>4. CASE printed' = printed \o printing /\ Goes("reader", "read")
  <2>1. /\ pipeAt' \in [Procs -> PipePlaces] /\ ends' \in [Procs -> SUBSET {"r", "w"}]
        /\ pipeAt'["reader"] = "read" /\ pipeAt'["writer"] = pipeAt["writer"] /\ pipeAt'["main"] = pipeAt["main"]
        /\ EndsInv' /\ EndedInv'
      BY <1>2, <1>4, ReaderMoves
  <2>2. ~Closed' /\ Whole'
      BY <1>1, <1>2, <2>1 DEF Closed, Whole
  <2>3. PipesTypeOK'
      BY <1>2, <1>3, <1>4, <2>1 DEF PipesTypeOK
  <2> QED  BY <1>1, <1>4, <2>1, <2>2, <2>3 DEF PipesInv
<1>5. CASE Goes("reader", "failed") /\ printed' = printed
  <2>1. /\ pipeAt' \in [Procs -> PipePlaces] /\ ends' \in [Procs -> SUBSET {"r", "w"}]
        /\ pipeAt'["reader"] = "failed" /\ pipeAt'["writer"] = pipeAt["writer"] /\ pipeAt'["main"] = pipeAt["main"]
        /\ EndsInv' /\ EndedInv'
      BY <1>2, <1>5, ReaderMoves
  <2>2. ~Closed' /\ ~Whole'
      BY <1>1, <1>2, <2>1 DEF Closed, Whole
  <2>3. PipesTypeOK'
      BY <1>2, <1>3, <1>5, <2>1 DEF PipesTypeOK
  <2>4. typed' \in Nat /\ typed' >= typed
      BY <1>2, <1>3
  <2>5. ClosedInv' /\ LettersInv' /\ StringsInv'
      BY <1>1, <1>2, <1>5, <2>2, <2>4, TextLost
  <2> QED  BY <2>1, <2>3, <2>5 DEF PipesInv
<1> QED  BY <1>2, <1>4, <1>5

\* A letter printed.
LEMMA ReadLetterStep == ASSUME PipesInv, ReadLetter PROVE PipesInv'
<1> DEFINE printing == <<UpperCase(Head(pipe))>>
<1>1. /\ pipeAt["reader"] = "read" /\ pipe # << >> /\ pipeProgram \in {"25", "26"} /\ block' = block
      /\ Prints(printing, Tail(pipe))
    BY DEF ReadLetter
<1>2. pipe \in Seq(Int) /\ block \in Seq(Int)
    BY DEF PipesInv, PipesTypeOK
<1>3. /\ Tail(pipe) \in Seq(Int) /\ Len(Tail(pipe)) = Len(pipe) - 1 /\ Len(pipe) \in Nat /\ 1 <= Len(pipe)
      /\ Head(pipe) = pipe[1] /\ pipe[1] \in Int
      /\ \A i \in 1..Len(Tail(pipe)) : Tail(pipe)[i] = pipe[1 + i]
    BY <1>1, <1>2
<1>4. /\ printing \in Seq(Int) /\ Len(printing) = 1 /\ \A i \in 1..Len(printing) : printing[i] = UpperCase(pipe[i])
    BY <1>3 DEF UpperCase
<1>5. pipe' = Tail(pipe) /\ UNCHANGED <<pipeProgram, typed, stdio>>
    BY <1>1 DEF Prints
<1> HIDE DEF printing
<1>6. /\ pipe' \in Seq(Int) /\ Len(pipe') = Len(pipe) - Len(printing) /\ Len(printing) <= Len(pipe)
      /\ \A i \in 1..Len(pipe') : pipe'[i] = pipe[Len(printing) + i]
    BY <1>3, <1>4, <1>5
<1>7. ASSUME printed' = printed \o printing, Whole, ~Closed, ~Closed', Whole'
      PROVE  ClosedInv' /\ LettersInv' /\ StringsInv'
    BY <1>1, <1>4, <1>5, <1>6, <1>7, PrintLetters
<1> QED  BY <1>1, <1>2, <1>3, <1>4, <1>7, PrintsStep

\* A block printed.
LEMMA ReadBlockStep == ASSUME PipesInv, ReadBlock PROVE PipesInv'
<1> DEFINE printing == Capitals(pipe)
<1>1. /\ pipeAt["reader"] = "read" /\ pipeProgram = "blocks" /\ block' = block /\ Prints(printing, << >>)
    BY DEF ReadBlock
<1>2. pipe \in Seq(Int) /\ block \in Seq(Int) /\ << >> \in Seq(Int) /\ Len(<< >>) = 0 /\ Len(pipe) \in Nat
    BY DEF PipesInv, PipesTypeOK
<1>3. printing \in Seq(Int) /\ Len(printing) = Len(pipe) /\ \A i \in 1..Len(printing) : printing[i] = UpperCase(pipe[i])
    BY <1>2 DEF Capitals, UpperCase
<1>4. pipe' = << >> /\ UNCHANGED <<pipeProgram, typed, stdio>>
    BY <1>1 DEF Prints
<1> HIDE DEF printing
<1>5. /\ pipe' \in Seq(Int) /\ Len(pipe') = Len(pipe) - Len(printing) /\ Len(printing) <= Len(pipe)
      /\ \A i \in 1..Len(pipe') : pipe'[i] = pipe[Len(printing) + i]
    BY <1>2, <1>3, <1>4
<1>6. ASSUME printed' = printed \o printing, Whole, ~Closed, ~Closed', Whole'
      PROVE  ClosedInv' /\ LettersInv' /\ StringsInv'
    BY <1>1, <1>3, <1>4, <1>5, <1>6, PrintLetters
<1> QED  BY <1>1, <1>2, <1>3, <1>6, PrintsStep

\* A block taken for a string: the letters of the pipe, then what an earlier block left there.
LEMMA StringPrinted ==
    ASSUME PipesInv, ~Closed, ~Closed', Whole, pipeProgram = "strings", UNCHANGED <<pipeProgram, typed, stdio>>,
           NEW printing \in Seq(Int), Len(pipe) <= Len(printing), block' = printing,
           \A i \in 1..Len(printing) : printing[i] = UpperCase(IF i <= Len(pipe) THEN pipe[i] ELSE block[i]),
           Len(printing) = Len(pipe) \/ Len(printing) = Len(block),
           printed' = printed \o printing, pipe' = << >>
    PROVE  ClosedInv' /\ LettersInv' /\ StringsInv'
<1> DEFINE m == typed - Len(pipe)
<1>1. /\ typed \in Nat /\ Len(pipe) \in Nat /\ Len(printed) \in Nat /\ Len(printing) \in Nat /\ Len(block) \in Nat
      /\ Len(pipe') = 0 /\ printed \in Seq(Int)
    BY DEF PipesInv, PipesTypeOK
<1>2. /\ Len(printed') = Len(printed) + Len(printing)
      /\ \A i \in 1..(Len(printed) + Len(printing)) :
            printed'[i] = IF i <= Len(printed) THEN printed[i] ELSE printing[i - Len(printed)]
    BY <1>1, ConcatProperties
<1>3. Shown = Len(printed) /\ Shown' = Len(printed) + Len(printing)
    BY <1>2 DEF Shown
<1>4. /\ m \in Nat /\ typed = m + Len(pipe)
      /\ \A i \in 1..Len(pipe) : pipe[i] = m + i
      /\ \A i \in 1..Len(printed) : printed[i] < 0 /\ 0 - printed[i] <= m
      /\ \A i \in 1..Len(block) : block[i] < 0 /\ 0 - block[i] <= m
      /\ \A c \in 1..m :
            \E i \in 1..Len(printed) : printed[i] = 0 - c /\ \A j \in 1..(i - 1) : printed[j] > 0 - c
    BY <1>1, <1>3 DEF PipesInv, StringsInv
<1>13. m \in Nat /\ typed = m + Len(pipe)
    BY <1>4
<1>14. \A i \in 1..Len(printed) : printed[i] < 0 /\ 0 - printed[i] <= m
    BY <1>4
<1>15. Len(printed) \in Nat /\ Len(printing) \in Nat /\ Len(pipe) \in Nat
    BY <1>1
<1>16. \A i \in 1..Len(block) : block[i] < 0 /\ 0 - block[i] <= m
    BY <1>4
<1> HIDE DEF m
<1>5. ASSUME NEW i \in 1..Len(printing)
      PROVE  /\ i <= Len(pipe) => printing[i] = 0 - (m + i)
             /\ i > Len(pipe) => printing[i] < 0 /\ 0 - printing[i] <= m
  <2>1. CASE i <= Len(pipe)
    <3>1. pipe[i] = m + i /\ printing[i] = UpperCase(pipe[i])
        BY <1>1, <1>4, <2>1
    <3>2. PICK c \in Int : c = m + i /\ c > 0
        BY <1>4
    <3>3. UpperCase(c) = 0 - c
        BY <3>2, UpperCaseIs
    <3> QED  BY <1>1, <2>1, <3>1, <3>2, <3>3
  <2>2. CASE i > Len(pipe)
    <3>1. i \in 1..Len(block) /\ ~(i <= Len(pipe))
        BY <1>1, <2>2
    <3>0. block[i] \in Int /\ printing[i] = UpperCase(block[i])
        BY <3>1 DEF PipesInv, PipesTypeOK
    <3>2. block[i] < 0 /\ 0 - block[i] <= m /\ block[i] \in Int /\ printing[i] = UpperCase(block[i])
        BY <1>16, <3>0, <3>1
    <3>3. PICK c \in Int : c = block[i] /\ c < 0
        BY <3>2
    <3>4. UpperCase(c) = c
        BY <3>3, UpperCaseIs
    <3>5. printing[i] = block[i]
        BY <3>2, <3>3, <3>4
    <3> QED  BY <1>1, <2>2, <3>2, <3>5
  <2> QED  BY <1>1, <2>1, <2>2
<1>6. ASSUME NEW i \in 1..Len(printing) PROVE printing[i] \in Int /\ printing[i] < 0 /\ 0 - printing[i] <= typed
  <2>1. printing[i] \in Int /\ m \in Nat /\ typed = m + Len(pipe)
      BY <1>4
  <2>2. CASE i <= Len(pipe)
    <3>1. printing[i] = 0 - (m + i)
        BY <1>5, <2>2
    <3> QED  BY <1>1, <2>1, <2>2, <3>1
  <2>3. CASE i > Len(pipe)
    <3>1. printing[i] < 0 /\ 0 - printing[i] <= m
        BY <1>5, <2>3
    <3> QED  BY <1>1, <2>1, <3>1
  <2> QED  BY <1>1, <2>2, <2>3
<1>7. ASSUME NEW i \in 1..Len(printing) PROVE printed'[Len(printed) + i] = printing[i]
  <2> DEFINE k == Len(printed) + i
  <2>1. k \in 1..(Len(printed) + Len(printing)) /\ ~(k <= Len(printed)) /\ k - Len(printed) = i
      BY <1>1
  <2> HIDE DEF k
  <2>2. printed'[k] = printing[i]
      BY <1>2, <2>1
  <2> QED  BY <2>2 DEF k
<1>8. ASSUME NEW i \in 1..Len(printed) PROVE printed'[i] = printed[i] /\ printed[i] \in Int
  <2>1. i \in 1..(Len(printed) + Len(printing)) /\ i <= Len(printed)
      BY <1>1
  <2>2. printed[i] \in Int
      BY <1>1, ElementOfSeq
  <2> QED  BY <1>2, <2>1, <2>2
<1>9. ASSUME NEW i \in 1..Shown' PROVE printed'[i] < 0 /\ 0 - printed'[i] <= typed
  <2>1. CASE i <= Len(printed)
    <3>1. i \in 1..Len(printed)
        BY <1>3, <1>15, <2>1
    <3>2. printed'[i] = printed[i] /\ printed[i] \in Int /\ printed[i] < 0 /\ 0 - printed[i] <= m
        BY <1>8, <1>14, <3>1
    <3> QED  BY <1>13, <1>15, <3>2
  <2>2. CASE i > Len(printed)
    <3> DEFINE k == i - Len(printed)
    <3>1. k \in 1..Len(printing) /\ Len(printed) + k = i
        BY <1>1, <1>3, <2>2
    <3> HIDE DEF k
    <3>2. printed'[i] = printing[k]
        BY <1>7, <3>1
    <3> QED  BY <1>6, <3>1, <3>2
  <2> QED  BY <1>1, <1>3, <2>1, <2>2
<1>10. ASSUME NEW c \in 1..typed
       PROVE  \E i \in 1..Shown' : printed'[i] = 0 - c /\ \A j \in 1..(i - 1) : printed'[j] > 0 - c
  <2>1. CASE c <= m
    <3>1. PICK i \in 1..Len(printed) : printed[i] = 0 - c /\ \A j \in 1..(i - 1) : printed[j] > 0 - c
        BY <1>4, <2>1
    <3>2. i \in 1..Shown' /\ \A j \in 1..(i - 1) : j \in 1..Len(printed)
        BY <1>1, <1>3
    <3>3. printed'[i] = 0 - c /\ \A j \in 1..(i - 1) : printed'[j] > 0 - c
        BY <1>8, <3>1, <3>2
    <3> QED  BY <3>2, <3>3
  <2>2. CASE c > m
    <3> DEFINE k == c - m
               i == Len(printed) + k
    <3>1. k \in 1..Len(pipe) /\ k \in 1..Len(printing) /\ c = m + k /\ i \in 1..Shown' /\ i = Len(printed) + k
        BY <1>1, <1>3, <1>13, <2>2
    <3> HIDE DEF k, i
    <3>4. k <= Len(pipe) /\ k \in Nat /\ i \in Nat
        BY <1>15, <3>1
    <3>5. printing[k] = 0 - c
        BY <1>5, <3>1, <3>4
    <3>2. printing[k] = 0 - c /\ printed'[i] = 0 - c
        BY <1>7, <3>1, <3>5
    <3>3. ASSUME NEW j \in 1..(i - 1) PROVE printed'[j] > 0 - c
      <4>1. CASE j <= Len(printed)
        <5>1. j \in 1..Len(printed)
            BY <3>1, <4>1
        <5>2. printed'[j] = printed[j] /\ printed[j] \in Int
            BY <1>8, <5>1
        <5>3. 0 - printed[j] <= m
            BY <1>14, <5>1
        <5>4. PICK x \in Int : x = printed[j] /\ 0 - x <= m
            BY <5>2, <5>3
        <5>5. c \in Int /\ c > m /\ m \in Nat
            BY <1>13, <2>2
        <5>6. x > 0 - c
            BY <5>4, <5>5
        <5> QED  BY <5>2, <5>4, <5>6
      <4>2. CASE j > Len(printed)
        <5> DEFINE l == j - Len(printed)
        <5>1. l \in 1..Len(printing) /\ l < k /\ l <= Len(pipe) /\ j = Len(printed) + l /\ l \in Nat
          <6>1. j \in 1..(i - 1) /\ i = Len(printed) + k /\ k <= Len(pipe) /\ k <= Len(printing) /\ k \in Nat
              BY <3>1, <3>4
          <6>2. Len(printed) \in Nat /\ Len(printing) \in Nat /\ Len(pipe) \in Nat /\ j > Len(printed)
              BY <1>15, <4>2
          <6> QED  BY <6>1, <6>2
        <5> HIDE DEF l
        <5>2. printing[l] = 0 - (m + l)
            BY <1>5, <5>1
        <5>3. printed'[j] = printing[l]
            BY <1>7, <5>1
        <5> QED  BY <1>13, <3>1, <3>4, <5>1, <5>2, <5>3
      <4>3. j <= Len(printed) \/ j > Len(printed)
          BY <1>15, <3>4
      <4> QED  BY <4>1, <4>2, <4>3, Zenon
    <3> QED  BY <3>1, <3>2, <3>3
  <2>3. c <= m \/ c > m
    <3>1. m \in Nat /\ c \in Int
        BY <1>4
    <3> QED  BY <3>1
  <2> QED  BY <2>1, <2>2, <2>3, Zenon
<1>11. StringsInv'
  <2>1. typed' - Len(pipe') = typed /\ Len(pipe') <= typed' /\ Len(pipe') = 0
      BY <1>1
  <2>2. \A i \in 1..Len(block') : block'[i] < 0 /\ 0 - block'[i] <= typed
      BY <1>6
  <2>3. \A i \in 1..Len(pipe') : pipe'[i] = typed' - Len(pipe') + i
      BY <2>1
  <2>4. \A i \in 1..Shown' : printed'[i] < 0 /\ 0 - printed'[i] <= typed' - Len(pipe')
      BY <1>9, <2>1
  <2>5. \A i \in 1..Len(block') : block'[i] < 0 /\ 0 - block'[i] <= typed' - Len(pipe')
      BY <2>1, <2>2
  <2>6. \A c \in 1..(typed' - Len(pipe')) :
           \E i \in 1..Shown' : printed'[i] = 0 - c /\ \A j \in 1..(i - 1) : printed'[j] > 0 - c
      BY <1>10, <2>1
  <2> HIDE DEF Shown
  <2> QED  BY <2>1, <2>3, <2>4, <2>5, <2>6, Zenon DEF StringsInv
<1>12. ClosedInv' /\ LettersInv'
    BY DEF ClosedInv, LettersInv
<1> QED  BY <1>11, <1>12

\* A string printed.
LEMMA ReadStringStep == ASSUME PipesInv, ReadString PROVE PipesInv'
<1> DEFINE sub == SubSeq(block, Len(pipe) + 1, Len(block))
           all == pipe \o sub
           printing == Capitals(all)
<1>1. /\ pipeAt["reader"] = "read" /\ pipeProgram = "strings" /\ block' = printing /\ Prints(printing, << >>)
    BY DEF ReadString
<1>2. pipe \in Seq(Int) /\ block \in Seq(Int) /\ << >> \in Seq(Int) /\ Len(pipe) \in Nat /\ Len(block) \in Nat
    BY DEF PipesInv, PipesTypeOK
<1>3. /\ sub \in Seq(Int)
      /\ Len(sub) = IF Len(pipe) + 1 <= Len(block) THEN Len(block) - Len(pipe) ELSE 0
      /\ \A i \in 1..Len(sub) : sub[i] = block[Len(pipe) + i]
  <2>1. \A i \in (Len(pipe) + 1)..Len(block) : block[i] \in Int
      BY <1>2
  <2> QED  BY <1>2, <2>1, SubSeqProperties
<1> HIDE DEF sub
<1>11. Len(sub) \in Nat
    BY <1>3
<1>4. /\ all \in Seq(Int) /\ Len(all) = Len(pipe) + Len(sub)
      /\ \A i \in 1..(Len(pipe) + Len(sub)) : all[i] = IF i <= Len(pipe) THEN pipe[i] ELSE sub[i - Len(pipe)]
    BY <1>2, <1>3, <1>11, ConcatProperties
<1>5. ASSUME NEW i \in 1..Len(all) PROVE all[i] = IF i <= Len(pipe) THEN pipe[i] ELSE block[i]
  <2>1. CASE i <= Len(pipe)
      BY <1>4, <1>11, <2>1
  <2>2. CASE i > Len(pipe)
    <3> DEFINE k == i - Len(pipe)
    <3>1. k \in 1..Len(sub) /\ Len(pipe) + k = i /\ ~(i <= Len(pipe)) /\ all[i] = sub[k]
        BY <1>2, <1>4, <1>11, <2>2
    <3> HIDE DEF k
    <3>2. sub[k] = block[i]
        BY <1>3, <3>1
    <3> QED  BY <3>1, <3>2
  <2> QED  BY <1>2, <2>1, <2>2
<1> HIDE DEF all
<1>6. /\ printing \in Seq(Int) /\ Len(printing) = Len(all) /\ \A i \in 1..Len(printing) : printing[i] = UpperCase(all[i])
    BY <1>4 DEF Capitals, UpperCase
<1>7. pipe' = << >> /\ UNCHANGED <<pipeProgram, typed, stdio>>
    BY <1>1 DEF Prints
<1> HIDE DEF printing
<1>8. /\ Len(pipe) <= Len(printing) /\ (Len(printing) = Len(pipe) \/ Len(printing) = Len(block))
      /\ \A i \in 1..Len(printing) : printing[i] = UpperCase(IF i <= Len(pipe) THEN pipe[i] ELSE block[i])
  <2>1. Len(pipe) <= Len(printing) /\ (Len(printing) = Len(pipe) \/ Len(printing) = Len(block))
      BY <1>2, <1>3, <1>4, <1>6, <1>11
  <2> QED  BY <1>5, <1>6, <2>1
<1>9. ASSUME printed' = printed \o printing, Whole, ~Closed, ~Closed', Whole'
      PROVE  ClosedInv' /\ LettersInv' /\ StringsInv'
    BY <1>1, <1>6, <1>7, <1>8, <1>9, StringPrinted
<1>10. block' \in Seq(Int)
    BY <1>1, <1>6
<1> QED  BY <1>1, <1>2, <1>6, <1>9, <1>10, PrintsStep

\* The reader sees the end of the pipe.
LEMMA EndOfPipeStep == ASSUME PipesInv, EndOfPipe PROVE PipesInv'
<1>1. /\ pipeAt["reader"] = "read" /\ pipe = << >> /\ ~Held("w")
      /\ UNCHANGED <<pipeProgram, reaped, typed, stdio, pipe, block>>
    BY DEF EndOfPipe
<1>2. ~Closed /\ Whole /\ Shown = Len(printed) /\ pipeAt["main"] # "good" /\ pipeProgram # "none"
    BY <1>1, AtWork
<1>3. PICK a \in {"good", "bad", "failed"} :
         /\ Goes("reader", a)
         /\ a = "good" => pipeProgram # "26" /\ printed' = Append(printed, NL)
         /\ a = "bad" => pipeProgram = "26"
         /\ a # "good" => printed' = printed
    BY DEF EndOfPipe
<1>4. /\ pipeAt' \in [Procs -> PipePlaces] /\ ends' \in [Procs -> SUBSET {"r", "w"}]
      /\ pipeAt'["reader"] = a /\ pipeAt'["writer"] = pipeAt["writer"] /\ pipeAt'["main"] = pipeAt["main"]
      /\ EndsInv' /\ EndedInv'
    BY <1>1, <1>3, ReaderMoves
<1>5. NL \in Int /\ printed \in Seq(Int) /\ Len(printed) \in Nat /\ typed \in Nat
    BY DEF NL, PipesInv, PipesTypeOK
<1>6. PipesTypeOK'
  <2>1. printed' \in Seq(Int)
      BY <1>3, <1>5
  <2> QED  BY <1>1, <1>4, <2>1 DEF PipesInv, PipesTypeOK
<1>7. CASE a = "good"
  <2>1. Closed' /\ Whole'
      BY <1>1, <1>2, <1>3, <1>4, <1>7 DEF Closed, Whole
  <2>2. /\ Len(printed') = Len(printed) + 1 /\ printed'[Len(printed')] = NL
        /\ \A i \in 1..Len(printed) : printed'[i] = printed[i]
      BY <1>3, <1>5, <1>7
  <2>3. Shown' = Shown
      BY <1>2, <1>5, <2>1, <2>2 DEF Shown
  <2> HIDE DEF Shown, Closed, Whole
  <2>4. LettersInv'
      BY <1>1, <1>2, <1>5, <2>2, <2>3 DEF PipesInv, LettersInv
  <2>5. ClosedInv'
      BY <1>1, <1>2, <1>5, <2>2 DEF ClosedInv
  <2>6. StringsInv'
    <3> SUFFICES ASSUME pipeProgram = "strings" PROVE StringsInv'
        BY <1>1 DEF StringsInv
    <3>1. /\ Len(pipe) <= typed /\ \A i \in 1..Len(pipe) : pipe[i] = typed - Len(pipe) + i
          /\ \A i \in 1..Len(printed) : printed[i] < 0 /\ 0 - printed[i] <= typed - Len(pipe)
          /\ \A i \in 1..Len(block) : block[i] < 0 /\ 0 - block[i] <= typed - Len(pipe)
          /\ \A c \in 1..(typed - Len(pipe)) :
                \E i \in 1..Len(printed) : printed[i] = 0 - c /\ \A j \in 1..(i - 1) : printed[j] > 0 - c
        BY <1>2 DEF PipesInv, StringsInv
    <3>2. \A i \in 1..Shown' : printed'[i] < 0 /\ 0 - printed'[i] <= typed - Len(pipe)
        BY <1>2, <2>2, <2>3, <3>1
    <3>3. ASSUME NEW c \in 1..(typed - Len(pipe))
          PROVE  \E i \in 1..Shown' : printed'[i] = 0 - c /\ \A j \in 1..(i - 1) : printed'[j] > 0 - c
      <4>1. PICK i \in 1..Len(printed) : printed[i] = 0 - c /\ \A j \in 1..(i - 1) : printed[j] > 0 - c
          BY <3>1
      <4>2. \A j \in 1..(i - 1) : j \in 1..Len(printed)
          BY <1>5
      <4> QED  BY <1>2, <2>2, <2>3, <4>1, <4>2
    <3> QED  BY <1>1, <3>1, <3>2, <3>3 DEF StringsInv
  <2> QED  BY <1>4, <1>6, <2>4, <2>5, <2>6 DEF PipesInv
<1>8. CASE a = "bad"
  <2>1. (Closed' <=> Closed) /\ (Whole' => Whole)
      BY <1>1, <1>2, <1>3, <1>4, <1>8 DEF Closed
  <2> QED  BY <1>1, <1>3, <1>4, <1>6, <1>8, <2>1, TextStays DEF PipesInv
<1>9. CASE a = "failed"
  <2>1. ~Closed' /\ (Whole' => Whole)
      BY <1>1, <1>2, <1>3, <1>4, <1>9 DEF Closed
  <2> QED  BY <1>1, <1>2, <1>3, <1>4, <1>6, <1>9, <2>1, TextStays DEF PipesInv
<1> QED  BY <1>7, <1>8, <1>9

\* Every step of main and its children keeps the invariant.
LEMMA PipesStep == PipesInv /\ [PipesNext]_pipesVars => PipesInv'
<1> SUFFICES ASSUME PipesInv, [PipesNext]_pipesVars PROVE PipesInv'
    OBVIOUS
<1>1. CASE \E k \in {"25", "strings", "blocks", "26"} : StartPipes(k)
    BY <1>1, StartPipesStep
<1>2. CASE ForkWriter
  <2>1. ForkOne("writer", "forkWriter", IF pipeProgram = "26" THEN "pclose" ELSE "forkReader")
      BY <1>2 DEF ForkWriter
  <2> QED  BY <2>1, ForkOneStep DEF PipeChildren
<1>3. CASE ForkReader
  <2>1. ForkOne("reader", "forkReader", "wait")
      BY <1>3 DEF ForkReader
  <2> QED  BY <2>1, ForkOneStep DEF PipeChildren
<1>4. CASE PClose
    BY <1>4, PCloseStep
<1>5. CASE NoMoreChildren
    BY <1>5, NoMoreChildrenStep
<1>6. CASE \E p \in PipeChildren : WaitChild(p)
    BY <1>6, WaitChildStep
<1>7. CASE CloseOther("writer") \/ CloseOther("reader")
    BY <1>7, CloseOtherStep DEF PipeChildren
<1>8. CASE TypeLetter \/ TypeBlock \/ EndOfLine
    BY <1>8, TypeLetterStep, TypeBlockStep, EndOfLineStep
<1>9. CASE ReadLetter \/ ReadString \/ ReadBlock \/ EndOfPipe
    BY <1>9, ReadLetterStep, ReadStringStep, ReadBlockStep, EndOfPipeStep
<1>10. CASE UNCHANGED pipesVars
  <2>1. /\ UNCHANGED <<pipeProgram, pipeAt, ends, reaped, typed, stdio, pipe, block, printed>>
        /\ Shown' = Shown /\ (Closed' <=> Closed) /\ (Whole' <=> Whole)
        /\ (Held("r"))' = Held("r") /\ (Held("w"))' = Held("w")
      BY <1>10 DEF pipesVars, Shown, Closed, Whole, Held
  <2>2. PipesTypeOK' /\ EndsInv' /\ EndedInv'
      BY <2>1 DEF PipesInv, PipesTypeOK, EndsInv, EndedInv
  <2>3. ClosedInv' /\ LettersInv' /\ StringsInv'
      BY <2>1, TextStays DEF PipesInv
  <2> QED  BY <2>2, <2>3 DEF PipesInv
<1> QED
    BY <1>1, <1>2, <1>3, <1>4, <1>5, <1>6, <1>7, <1>8, <1>9, <1>10
    DEF PipesNext, MainStep, WriterStep, ReaderStep

\* What main knows when it succeeds.
LEMMA SuccessIs ==
    ASSUME PipesInv, pipeAt["main"] = "good"
    PROVE  /\ pipeProgram \in {"25", "strings", "blocks", "26"} /\ Len(printed) > 0
           /\ printed[Len(printed)] = NL /\ Shown = Len(printed) - 1
           /\ pipeProgram # "26" \/ pipeAt["reader"] # "failed" => Whole /\ Len(pipe) = 0 /\ Len(stdio) = 0
<1>1. /\ pipeProgram \in {"none", "25", "strings", "blocks", "26"}
      /\ pipeProgram # "none"
    BY DEF PipesInv, PipesTypeOK, EndsInv, Procs
<1>2. /\ pipeAt["writer"] = "good" /\ pipeAt["reader"] \in Ended
      /\ pipeProgram # "26" => pipeAt["reader"] = "good"
    BY DEF PipesInv, EndedInv, PipeChildren
<1>3. Closed
    BY <1>2 DEF Closed
<1>4. Shown = Len(printed) - 1
    BY <1>3 DEF Shown
<1>5. pipeProgram # "26" \/ pipeAt["reader"] # "failed" => pipeAt["reader"] \in {"good", "bad"}
    BY <1>2 DEF PipesInv, EndedInv, Ended
<1>6. pipeAt["reader"] \in {"good", "bad"} => pipe = << >> /\ stdio = << >>
    BY DEF PipesInv, EndedInv
<1>7. pipeAt["reader"] \in {"good", "bad"} => Whole /\ Len(pipe) = 0 /\ Len(stdio) = 0
    BY <1>2, <1>6 DEF Whole
<1> QED  BY <1>1, <1>3, <1>4, <1>5, <1>7 DEF PipesInv, ClosedInv

\* The first place of c in out.
FirstAt(printing, c, i) == i \in DOMAIN printing /\ printing[i] = UpperCase(c) /\ \A j \in 1..(i - 1) : printing[j] # printing[i]

\* What success promises of the text follows from the invariant.
LEMMA SuccessFromInv == PipesInv => SuccessMeansPrinted
<1> SUFFICES ASSUME PipesInv, pipeAt["main"] = "good" PROVE SuccessMeansPrinted
    BY DEF SuccessMeansPrinted
<1> DEFINE printing == SubSeq(printed, 1, Len(printed) - 1)
           first(c) == CHOOSE i \in DOMAIN printing : printing[i] = UpperCase(c) /\ \A j \in 1..(i - 1) : printing[j] # printing[i]
           reached == pipeProgram # "26" \/ pipeAt["reader"] # "failed"
<1>1. /\ pipeProgram \in {"25", "strings", "blocks", "26"} /\ Len(printed) > 0 /\ printed[Len(printed)] = NL
      /\ Shown = Len(printed) - 1
      /\ reached => Whole /\ Len(pipe) = 0 /\ Len(stdio) = 0
    BY SuccessIs
<1>2. printed \in Seq(Int) /\ Len(printed) \in Nat /\ typed \in Nat
    BY DEF PipesInv, PipesTypeOK
<1>3. /\ printing \in Seq(Int) /\ Len(printing) = Shown /\ Shown \in Nat /\ DOMAIN printing = 1..Shown
      /\ \A i \in 1..Shown : printing[i] = printed[i]
  <2>1. \A i \in 1..(Len(printed) - 1) : printed[i] \in Int
      BY <1>2
  <2>2. /\ printing \in Seq(Int)
        /\ Len(printing) = (IF 1 <= Len(printed) - 1 THEN (Len(printed) - 1) - 1 + 1 ELSE 0)
        /\ \A i \in 1..((Len(printed) - 1) - 1 + 1) : printing[i] = printed[1 + i - 1]
      BY <1>1, <1>2, <2>1, SubSeqProperties
  <2> HIDE DEF printing
  <2>3. Len(printing) = Shown /\ Shown \in Nat
    <3> DEFINE m == Len(printed)
    <3>1. m \in Nat /\ m > 0 /\ Shown = m - 1 /\ Len(printing) = (IF 1 <= m - 1 THEN (m - 1) - 1 + 1 ELSE 0)
        BY <1>1, <1>2, <2>2
    <3> HIDE DEF m
    <3> QED  BY <3>1
  <2>4. \A i \in 1..Shown : printing[i] = printed[i]
      BY <1>1, <1>2, <2>2
  <2> QED  BY <2>2, <2>3, <2>4
<1> HIDE DEF printing, reached
<1>4. /\ Capitals(Typed) = [i \in 1..typed |-> UpperCase(i)]
      /\ Capitals(Typed) \in Seq(Int) /\ Len(Capitals(Typed)) = typed
      /\ \A i \in 1..typed : Capitals(Typed)[i] = 0 - i
    BY <1>2 DEF Capitals, Typed, UpperCase
<1>5. CASE pipeProgram \in {"25", "blocks", "26"}
  <2>1. /\ Shown <= typed /\ \A i \in 1..Shown : printed[i] = 0 - i
        /\ Whole => Shown + Len(pipe) + Len(stdio) = typed
      BY <1>5 DEF PipesInv, LettersInv
  <2>2. reached => printing = Capitals(Typed)
    <3> SUFFICES ASSUME reached PROVE printing = Capitals(Typed)
        OBVIOUS
    <3>1. Shown = typed
        BY <1>1, <1>3, <2>1
    <3>2. Len(printing) = Len(Capitals(Typed)) /\ \A i \in 1..Len(printing) : printing[i] = Capitals(Typed)[i]
        BY <1>3, <1>4, <2>1, <3>1
    <3> HIDE DEF Typed, Capitals
    <3> QED  BY <1>3, <1>4, <3>2, SeqEqual
  <2>3. IsPrefix(printing, Capitals(Typed))
    <3> DEFINE cap == Capitals(Typed)
               a == SubSeq(printing, 1, Len(printing))
               b == SubSeq(cap, 1, Len(printing))
    <3>1. Len(printing) <= Len(cap)
        BY <1>3, <1>4, <2>1
    <3>2. cap \in Seq(Int)
        BY <1>4
    <3>4. ASSUME NEW i \in 1..Len(printing) PROVE cap[i] = printing[i]
      <4>1. i \in 1..Shown /\ i \in 1..typed
          BY <1>2, <1>3, <2>1
      <4> QED  BY <1>3, <1>4, <2>1, <4>1
    <3> HIDE DEF cap
    <3>3. a = b
        BY <1>3, <3>1, <3>2, <3>4
    <3> QED  BY <3>1, <3>3 DEF IsPrefix, cap
  <2> QED  BY <1>1, <1>5, <2>2, <2>3 DEF SuccessMeansPrinted, printing, reached
<1>6. CASE pipeProgram = "strings"
  <2>1. Whole /\ Len(pipe) = 0
      BY <1>1, <1>6 DEF reached
  <2>2. \A c \in 1..typed :
           \E i \in 1..Shown : printed[i] = 0 - c /\ \A j \in 1..(i - 1) : printed[j] > 0 - c
      BY <1>2, <1>6, <2>1 DEF PipesInv, StringsInv
  <2>3. ASSUME NEW c \in 1..typed
        PROVE  \E i \in 1..Shown : printing[i] = 0 - c /\ FirstAt(printing, c, i) /\ \A j \in 1..(i - 1) : printing[j] > 0 - c
    <3>1. PICK i \in 1..Shown : printed[i] = 0 - c /\ \A j \in 1..(i - 1) : printed[j] > 0 - c
        BY <2>2
    <3>2. \A j \in 1..(i - 1) : j \in 1..Shown
        BY <1>3
    <3>3. printing[i] = 0 - c /\ \A j \in 1..(i - 1) : printing[j] > 0 - c
        BY <1>3, <3>1, <3>2
    <3>4. UpperCase(c) = 0 - c
        BY UpperCaseIs
    <3>5. \A j \in 1..(i - 1) : printing[j] # printing[i]
        BY <3>3
    <3>6. FirstAt(printing, c, i)
        BY <1>3, <3>3, <3>4, <3>5 DEF FirstAt
    <3> QED  BY <3>3, <3>6
  <2>4. ASSUME NEW c \in 1..typed PROVE FirstAt(printing, c, first(c))
    <3>1. \E i \in DOMAIN printing : printing[i] = UpperCase(c) /\ \A j \in 1..(i - 1) : printing[j] # printing[i]
        BY <2>3, Zenon DEF FirstAt
    <3> QED  BY <3>1, Zenon DEF FirstAt
  <2> HIDE DEF first
  <2>5. ASSUME NEW c \in 1..typed
        PROVE  first(c) \in 1..Shown /\ printing[first(c)] = 0 - c /\ \A j \in 1..(first(c) - 1) : printing[j] > 0 - c
    <3>1. PICK i \in 1..Shown : printing[i] = 0 - c /\ FirstAt(printing, c, i) /\ \A j \in 1..(i - 1) : printing[j] > 0 - c
        BY <2>3
    <3>2. PICK k \in 1..Shown : k = first(c) /\ FirstAt(printing, c, k)
        BY <1>3, <2>4 DEF FirstAt
    <3>3. printing[k] = printing[i]
        BY <3>1, <3>2 DEF FirstAt
    <3>4. ~(k < i) /\ ~(i < k)
        BY <1>3, <3>1, <3>2, <3>3 DEF FirstAt
    <3>5. k = i
        BY <1>3, <3>4
    <3> QED  BY <3>1, <3>2, <3>5
  <2>6. ASSUME NEW c \in 2..typed PROVE first(c - 1) < first(c)
    <3>1. c \in 1..typed /\ c - 1 \in 1..typed /\ c \in Int
        BY <1>2
    <3>2. /\ first(c) \in 1..Shown /\ printing[first(c)] = 0 - c
          /\ first(c - 1) \in 1..Shown /\ printing[first(c - 1)] = 0 - (c - 1)
          /\ \A j \in 1..(first(c - 1) - 1) : printing[j] > 0 - (c - 1)
        BY <2>5, <3>1
    <3>3. first(c) # first(c - 1)
        BY <3>1, <3>2
    <3>4. ~(first(c) < first(c - 1))
        BY <1>3, <3>1, <3>2
    <3> QED  BY <1>3, <3>2, <3>3, <3>4
  <2>7. \A c \in 1..typed : \E i \in DOMAIN printing : printing[i] = UpperCase(c)
      BY <2>4, Zenon DEF FirstAt
  <2> QED  BY <1>1, <1>6, <2>6, <2>7, Zenon DEF SuccessMeansPrinted, printing, first
<1> QED  BY <1>1, <1>5, <1>6

\* Through the pipes of 25 and 26, of any text and in any order of the processes, a
\* main that succeeds leaves the whole text printed, or, in 26, a beginning of it.
THEOREM TextIsPrinted == PipesSpec => []SuccessMeansPrinted
<1>1. PipesInit => PipesInv
    BY InitPipesInv
<1>2. PipesInv /\ [PipesNext]_pipesVars => PipesInv'
    BY PipesStep
<1>3. PipesInv => SuccessMeansPrinted
    BY SuccessFromInv
<1> QED  BY <1>1, <1>2, <1>3, PTL DEF PipesSpec

-----------------------------------------------------------------------------
(* 19_file_mask: pattern_match. *)

\* The places of the name from which on it fits the mask from i on, given those of the
\* rests of the mask.
FitAt(f, m, n, i) ==
    CASE At(m, i) = "*" -> {j \in 1..(Len(n) + 1) : \E k \in f[i + 1] : j <= k}
      [] At(m, i) = "?" -> {j \in 1..Len(n) : j + 1 \in f[i + 1]}
      [] At(m, i) = "/" -> {j \in 1..(Len(n) + 1) : At(n, j) = At(m, i + 1) /\ (At(n, j) = "end" \/ j + 1 \in f[i + 2])}
      [] OTHER -> {j \in 1..(Len(n) + 1) : At(n, j) = At(m, i) /\ (At(m, i) = "end" \/ j + 1 \in f[i + 1])}

\* f holds them for the mask from k on.
FitFrom(f, m, n, k) == f = [i \in k..(Len(m) + 2) |-> FitAt(f, m, n, i)]

FitOf(m, n) == CHOOSE f : FitFrom(f, m, n, 1)

\* Masks and names are sequences without the NUL.
LEMMA TextsTyped ==
    ASSUME NEW chars, NEW n \in Nat, NEW s \in Texts(chars, n), "end" \notin chars
    PROVE  s \in Seq(chars) /\ Len(s) \in Nat /\ \A i \in 1..Len(s) : s[i] # "end"
<1>1. PICK k \in 0..n : s \in [1..k -> chars]
    BY DEF Texts
<1>2. s \in Seq(chars)
    BY <1>1, SeqDef
<1> QED  BY <1>2, LenProperties, ElementOfSeq

\* What a place of the mask asks for depends on the next two places only, and not on any
\* behind the end.
LEMMA FitLocal ==
    ASSUME NEW m, NEW n, NEW i \in Nat, NEW f, NEW g, Len(m) \in Nat,
           \A j \in 1..Len(m) : m[j] # "end",
           i <= Len(m) => f[i + 1] = g[i + 1] /\ f[i + 2] = g[i + 2]
    PROVE  FitAt(f, m, n, i) = FitAt(g, m, n, i)
<1>1. CASE i <= Len(m)
    BY <1>1 DEF FitAt
<1>2. CASE ~(i <= Len(m))
  <2>1. At(m, i) = "end"
      BY <1>2 DEF At
  <2> QED  BY <2>1 DEF FitAt
<1> QED  BY <1>1, <1>2

\* The places can be found from the end of the mask, however long it is.
LEMMA FitExists ==
    ASSUME NEW m, NEW n, Len(m) \in Nat, \A j \in 1..Len(m) : m[j] # "end"
    PROVE  \A k \in 0..(Len(m) + 2) : \E f : FitFrom(f, m, n, Len(m) + 3 - k)
<1> DEFINE L == Len(m) + 2
           T == {k \in 0..L : ~ \E f : FitFrom(f, m, n, L + 1 - k)}
<1>0. L \in Nat /\ L = Len(m) + 2 /\ L + 1 = Len(m) + 3
    OBVIOUS
<1> HIDE DEF L
<1>1. SUFFICES ASSUME T # {} PROVE FALSE
    BY <1>0
<1>2. PICK k \in T : \A j \in T : k <= j
  <2>1. T \subseteq Nat
      BY <1>0
  <2> HIDE DEF T
  <2> QED  BY <1>1, <2>1, LeastNatural
<1>3. k # 0
  <2>1. FitFrom([i \in (L + 1)..L |-> {}], m, n, L + 1)
    <3> DEFINE f == [i \in (L + 1)..L |-> {}]
    <3>1. (L + 1)..L = {}
        BY <1>0
    <3>2. f = [i \in (L + 1)..L |-> FitAt(f, m, n, i)]
      <4> HIDE DEF f
      <4>1. DOMAIN f = {} /\ f = [i \in DOMAIN f |-> f[i]]
          BY <3>1 DEF f
      <4> QED  BY <3>1, <4>1
    <3> HIDE DEF f
    <3> QED  BY <1>0, <3>2 DEF FitFrom, f
  <2> SUFFICES ASSUME k = 0 PROVE FALSE
      OBVIOUS
  <2>2. L + 1 - 0 = L + 1
      BY <1>0
  <2> QED  BY <2>1, <2>2
<1>4. k - 1 \in 0..L /\ k - 1 \notin T /\ k \in 1..L
  <2>1. k \in 1..L /\ k - 1 \in 0..L /\ ~(k <= k - 1)
      BY <1>0, <1>3
  <2>2. k - 1 \notin T
    <3> HIDE DEF T
    <3> QED  BY <1>2, <2>1
  <2> QED  BY <2>1, <2>2
<1> DEFINE p == L + 1 - k
<1>5. p \in 1..L /\ L + 1 - (k - 1) = p + 1 /\ L \in Nat
    BY <1>0, <1>4
<1>6. PICK f : FitFrom(f, m, n, p + 1)
    BY <1>4, <1>5
<1> HIDE DEF p, T
<1> DEFINE g == [i \in p..L |-> IF i > p THEN f[i] ELSE FitAt(f, m, n, p)]
<1>7. \A i \in (p + 1)..L : g[i] = f[i] /\ f[i] = FitAt(f, m, n, i)
  <2>1. f = [i \in (p + 1)..L |-> FitAt(f, m, n, i)]
      BY <1>0, <1>6, Zenon DEF FitFrom
  <2>2. \A i \in (p + 1)..L : f[i] = FitAt(f, m, n, i)
    <3> TAKE i \in (p + 1)..L
    <3> DEFINE e(x) == FitAt(f, m, n, x)
    <3>1. f = [x \in (p + 1)..L |-> e(x)]
        BY <2>1
    <3> HIDE DEF e
    <3>2. f[i] = e(i)
        BY <3>1
    <3> QED  BY <3>2 DEF e
  <2>3. \A i \in (p + 1)..L : g[i] = f[i]
      BY <1>5
  <2> QED  BY <2>2, <2>3
<1>8. \A i \in p..L : g[i] = FitAt(g, m, n, i)
  <2> TAKE i \in p..L
  <2>1. i <= Len(m) => i + 1 \in (p + 1)..L /\ i + 2 \in (p + 1)..L
      BY <1>0, <1>5
  <2>2. i <= Len(m) => f[i + 1] = g[i + 1] /\ f[i + 2] = g[i + 2]
      BY <1>7, <2>1
  <2>3. i \in Nat
      BY <1>5
  <2> HIDE DEF g
  <2>4. FitAt(f, m, n, i) = FitAt(g, m, n, i)
      BY <2>2, <2>3, FitLocal
  <2>5. g[i] = FitAt(f, m, n, i)
    <3>1. CASE i > p
      <4>1. i \in (p + 1)..L
          BY <1>5, <3>1
      <4> QED  BY <1>7, <4>1
    <3>2. CASE ~(i > p)
      <4>1. i = p
          BY <1>5, <3>2
      <4>2. g[p] = FitAt(f, m, n, p)
          BY <1>5 DEF g
      <4> QED  BY <4>1, <4>2
    <3> QED  BY <3>1, <3>2
  <2> QED  BY <2>4, <2>5
<1>9. FitFrom(g, m, n, p)
  <2> DEFINE e(x) == FitAt(g, m, n, x)
  <2>1. g = [i \in p..L |-> g[i]]
      OBVIOUS
  <2>2. \A i \in p..L : g[i] = e(i)
      BY <1>8
  <2> HIDE DEF e, g
  <2>3. g = [i \in p..L |-> e(i)]
      BY <2>1, <2>2
  <2> QED  BY <1>0, <2>3, Zenon DEF FitFrom, e
<1> QED  BY <1>2, <1>9 DEF T, p

\* The mask means what its places ask for.
LEMMA FitIs ==
    ASSUME NEW m, NEW n, Len(m) \in Nat, \A j \in 1..Len(m) : m[j] # "end"
    PROVE  /\ Fits(m, n) <=> 1 \in FitOf(m, n)[1]
           /\ \A i \in 1..(Len(m) + 2) : FitOf(m, n)[i] = FitAt(FitOf(m, n), m, n, i)
<1>1. \E f : FitFrom(f, m, n, 1)
  <2>1. Len(m) + 2 \in 0..(Len(m) + 2) /\ Len(m) + 3 - (Len(m) + 2) = 1
      OBVIOUS
  <2>2. \E f : FitFrom(f, m, n, Len(m) + 3 - (Len(m) + 2))
      BY <2>1, FitExists
  <2> QED  BY <2>1, <2>2
<1>2. FitFrom(FitOf(m, n), m, n, 1)
    BY <1>1, Zenon DEF FitOf
<1>3. Fits(m, n) <=> 1 \in FitOf(m, n)[1]
    BY Zenon DEF Fits, FitOf, FitFrom, FitAt
<1>4. \A i \in 1..(Len(m) + 2) : FitOf(m, n)[i] = FitAt(FitOf(m, n), m, n, i)
  <2> DEFINE g == FitOf(m, n)
             e(x) == FitAt(g, m, n, x)
  <2>1. g = [i \in 1..(Len(m) + 2) |-> e(i)]
      BY <1>2, Zenon DEF FitFrom
  <2> HIDE DEF e, g
  <2>2. \A i \in 1..(Len(m) + 2) : g[i] = e(i)
      BY <2>1
  <2> QED  BY <2>2 DEF e, g
<1> QED  BY <1>3, <1>4

\* F are the places of the name for the rest of the mask: what matches from there on
\* decides, at mi or, later in the name, at the last star; and what fits there
\* fits at mi too, as far behind as mi has come.
MatchTypes ==
    /\ mask \in Seq(MaskChars) /\ name \in Seq(NameChars)
    /\ mi \in 1..(Len(mask) + 1) /\ si \in 1..(Len(name) + 1)
    /\ star \in 0..(Len(mask) + 1) /\ (star # 0 => prestar \in 1..si)
Decides(F) == 1 \in F[1] <=> si \in F[mi] \/ (star # 0 /\ \E j \in F[star] : j > prestar)
StarFollows(F) == star # 0 => \A j \in F[star] : j >= prestar => j + (si - prestar) \in F[mi]
Matching == MatchTypes /\ Decides(FitOf(mask, name)) /\ StarFollows(FitOf(mask, name))

MatchInv ==
    /\ doing = "start" => mi = 1 /\ si = 1 /\ star = 0
    /\ doing = "match" => Matching
    /\ MatchIsRight

\* What the places of a mask and a name that is matched ask for.
LEMMA PlacesAsk ==
    ASSUME MatchTypes
    PROVE  /\ Len(mask) \in Nat /\ Len(name) \in Nat
           /\ \A i \in 1..(Len(mask) + 2) : FitOf(mask, name)[i] = FitAt(FitOf(mask, name), mask, name, i)
           /\ Fits(mask, name) <=> 1 \in FitOf(mask, name)[1]
           /\ \A i \in 1..(Len(mask) + 1) : At(mask, i) = "end" <=> i = Len(mask) + 1
           /\ \A i \in 1..(Len(name) + 1) : At(name, i) = "end" <=> i = Len(name) + 1
           /\ \A i \in 1..(Len(mask) + 1) : FitOf(mask, name)[i] \subseteq 1..(Len(name) + 1)
<1>1. /\ Len(mask) \in Nat /\ Len(name) \in Nat
      /\ \A i \in 1..Len(mask) : mask[i] # "end"
      /\ \A i \in 1..Len(name) : name[i] # "end"
    BY MaskAssumption, LenProperties, ElementOfSeq DEF MatchTypes
<1>2. /\ \A i \in 1..(Len(mask) + 2) : FitOf(mask, name)[i] = FitAt(FitOf(mask, name), mask, name, i)
      /\ Fits(mask, name) <=> 1 \in FitOf(mask, name)[1]
    BY <1>1, FitIs, Zenon
<1>3. \A i \in 1..(Len(mask) + 1) : At(mask, i) = "end" <=> i = Len(mask) + 1
    BY <1>1 DEF At
<1>4. \A i \in 1..(Len(name) + 1) : At(name, i) = "end" <=> i = Len(name) + 1
    BY <1>1 DEF At
<1>5. \A i \in 1..(Len(mask) + 1) : FitAt(FitOf(mask, name), mask, name, i) \subseteq 1..(Len(name) + 1)
    BY <1>1 DEF FitAt
<1>6. \A i \in 1..(Len(mask) + 1) : FitOf(mask, name)[i] \subseteq 1..(Len(name) + 1)
    BY <1>1, <1>2, <1>5
<1> QED  BY <1>1, <1>2, <1>3, <1>4, <1>6

\* The next place of the mask, of a character that asks for d here.
Asks(F, d, next) ==
    \A j \in Int : j \in F[mi] <=> j \in 1..(Len(name) + 1) /\ At(name, j) = d
                                     /\ (d = "end" \/ j + 1 \in F[next])

\* A comparison goes on, goes back to the last star, or answers, as the mask means.
LEMMA CompareStep ==
    ASSUME Matching, NEW d, NEW next, Compare(At(name, si), d, next), Asks(FitOf(mask, name), d, next),
           doing = "match", mask' = mask, name' = name, d # "end" => next \in 1..(Len(mask) + 1)
    PROVE  /\ doing' = "match" => Matching'
           /\ doing' \in {"match", "matched"}
           /\ doing' = "matched" => (verdict' <=> Fits(mask, name))
<1> DEFINE F == FitOf(mask, name)
           c == At(name, si)
<1>1. MatchTypes /\ Decides(F) /\ StarFollows(F) /\ Asks(F, d, next) /\ Compare(c, d, next)
    BY DEF Matching
<1>2. /\ Len(mask) \in Nat /\ Len(name) \in Nat
      /\ Fits(mask, name) <=> 1 \in F[1]
      /\ c = "end" <=> si = Len(name) + 1
    BY <1>1, PlacesAsk DEF MatchTypes
<1>3. FitOf(mask', name') = F
    OBVIOUS
<1>3a. /\ F[mi] \subseteq 1..(Len(name) + 1)
       /\ star # 0 => F[star] \subseteq 1..(Len(name) + 1)
    BY <1>1, PlacesAsk DEF MatchTypes
<1>3b. /\ mi \in Nat /\ si \in 1..(Len(name) + 1) /\ star \in 0..(Len(mask) + 1)
       /\ (star # 0 => prestar \in 1..si)
    BY <1>1, <1>2 DEF MatchTypes
<1> HIDE DEF F, c
<1>4. si \in F[mi] <=> c = d /\ (d = "end" \/ si + 1 \in F[next])
    BY <1>1, <1>3b DEF Asks, c
<1>5. CASE c = d /\ d = "end" /\ Answers(TRUE)
  <2>1. 1 \in F[1]
      BY <1>1, <1>4, <1>5 DEF Decides
  <2>2. doing' = "matched" /\ verdict' = TRUE
      BY <1>5 DEF Answers
  <2> QED  BY <1>2, <2>1, <2>2
<1>6. CASE c = d /\ d # "end" /\ mi' = next /\ si' = si + 1 /\ UNCHANGED <<doing, star, prestar, verdict>>
  <2>1. si <= Len(name)
      BY <1>2, <1>3b, <1>6
  <2>2. MatchTypes'
      BY <1>1, <1>2, <1>3b, <1>6, <2>1 DEF MatchTypes
  <2>3. 1 \in F[1] <=> si + 1 \in F[next] \/ (star # 0 /\ \E j \in F[star] : j > prestar)
      BY <1>1, <1>4, <1>6 DEF Decides
  <2>4. ASSUME star # 0, NEW j \in F[star], j >= prestar
        PROVE  j + (si + 1 - prestar) \in F[next]
    <3> DEFINE x == j + (si - prestar)
    <3>1. x \in F[mi] /\ j \in Int
        BY <1>1, <1>3a, <2>4 DEF StarFollows
    <3>2. x + 1 \in F[next]
      <4>1. x \in Int
          BY <1>3a, <3>1
      <4> HIDE DEF x
      <4> QED  BY <1>1, <1>6, <3>1, <4>1 DEF Asks
    <3>3. x + 1 = j + (si + 1 - prestar)
        BY <1>3b, <2>4, <3>1
    <3> QED  BY <3>2, <3>3
  <2>5. Decides(FitOf(mask, name))' /\ StarFollows(FitOf(mask, name))'
    <3>1. Decides(FitOf(mask, name))'
        BY <1>3, <1>6, <2>3 DEF Decides
    <3>2. StarFollows(FitOf(mask, name))'
      <4>1. star' # 0 => \A j \in F[star'] : j >= prestar' => j + (si' - prestar') \in F[mi']
        <5> SUFFICES ASSUME star' # 0, NEW j \in F[star'], j >= prestar' PROVE j + (si' - prestar') \in F[mi']
            OBVIOUS
        <5>1. star' = star /\ prestar' = prestar /\ mi' = next /\ si' = si + 1
            BY <1>6
        <5>2. star # 0 /\ j \in F[star] /\ j >= prestar
            BY <5>1
        <5>3. j + (si + 1 - prestar) \in F[next]
            BY <2>4, <5>2
        <5>4. si' - prestar' = si + 1 - prestar
            BY <1>3b, <5>1, <5>2
        <5>5. j + (si' - prestar') = j + (si + 1 - prestar)
            BY <5>4
        <5>6. F[mi'] = F[next]
            BY <5>1
        <5> QED  BY <5>3, <5>5, <5>6
      <4> QED  BY <1>3, <4>1, Zenon DEF StarFollows
    <3> QED  BY <3>1, <3>2
  <2> QED  BY <1>6, <2>2, <2>5 DEF Matching
<1>7. CASE c # d /\ (c = "end" \/ star = 0) /\ Answers(FALSE)
  <2>1. 1 \notin F[1]
    <3> SUFFICES ASSUME star # 0, NEW j \in F[star], j > prestar PROVE FALSE
        BY <1>1, <1>4, <1>7 DEF Decides
    <3>1. j + (si - prestar) \in F[mi] /\ j \in Int
        BY <1>1, <1>3a, <1>3b DEF StarFollows
    <3>2. si = Len(name) + 1
        BY <1>2, <1>7
    <3> QED  BY <1>2, <1>3a, <1>3b, <3>1, <3>2
  <2>2. doing' = "matched" /\ verdict' = FALSE
      BY <1>7 DEF Answers
  <2> QED  BY <1>2, <2>1, <2>2
<1>8. CASE /\ c # d /\ c # "end" /\ star # 0
           /\ mi' = star /\ prestar' = prestar + 1 /\ si' = prestar + 1 /\ UNCHANGED <<doing, star, verdict>>
  <2>1. si <= Len(name)
      BY <1>2, <1>3b, <1>8
  <2>2. MatchTypes'
      BY <1>1, <1>2, <1>3b, <1>8, <2>1 DEF MatchTypes
  <2>3. 1 \in F[1] <=> \E j \in F[star] : j > prestar
      BY <1>1, <1>4, <1>8 DEF Decides
  <2>4. (\E j \in F[star] : j > prestar) <=> prestar + 1 \in F[star] \/ \E j \in F[star] : j > prestar + 1
    <3>1. \A j \in F[star] : j > prestar <=> j = prestar + 1 \/ j > prestar + 1
        BY <1>3a, <1>3b, <1>8
    <3>2. prestar + 1 > prestar
        BY <1>3b, <1>8
    <3> QED  BY <3>1, <3>2
  <2>5. Decides(FitOf(mask, name))'
      BY <1>3, <1>8, <2>3, <2>4 DEF Decides
  <2>6. \A j \in F[star] : j + (prestar + 1 - (prestar + 1)) = j
      BY <1>3a, <1>3b, <1>8
  <2>7. StarFollows(FitOf(mask, name))'
    <3>1. star' # 0 => \A j \in F[star'] : j >= prestar' => j + (si' - prestar') \in F[mi']
      <4> SUFFICES ASSUME NEW j \in F[star'] PROVE j + (si' - prestar') \in F[mi']
          OBVIOUS
      <4>1. star' = star /\ prestar' = prestar + 1 /\ mi' = star /\ si' = prestar + 1
          BY <1>8
      <4>2. j \in F[star] /\ j + (prestar + 1 - (prestar + 1)) = j
          BY <2>6, <4>1
      <4>3. si' - prestar' = prestar + 1 - (prestar + 1)
          BY <1>3b, <1>8, <4>1
      <4>4. j + (si' - prestar') = j
          BY <4>2, <4>3
      <4>5. F[mi'] = F[star]
          BY <4>1
      <4> QED  BY <4>2, <4>4, <4>5
    <3> QED  BY <1>3, <3>1, Zenon DEF StarFollows
  <2> QED  BY <1>8, <2>2, <2>5, <2>7 DEF Matching
<1>9. \/ c = d /\ d = "end" /\ Answers(TRUE)
      \/ c = d /\ d # "end" /\ mi' = next /\ si' = si + 1 /\ UNCHANGED <<doing, star, prestar, verdict>>
      \/ c # d /\ (c = "end" \/ star = 0) /\ Answers(FALSE)
      \/ /\ c # d /\ c # "end" /\ star # 0
         /\ mi' = star /\ prestar' = prestar + 1 /\ si' = prestar + 1 /\ UNCHANGED <<doing, star, verdict>>
    BY <1>1, Zenon DEF Compare
<1> QED  BY <1>5, <1>6, <1>7, <1>8, <1>9

\* A turn of the loop goes on or answers, as the mask means.
LEMMA MatchStepIs ==
    ASSUME Matching, MatchStep
    PROVE  /\ doing' = "match" => Matching'
           /\ doing' \in {"match", "matched"}
           /\ doing' = "matched" => (verdict' <=> Fits(mask, name))
<1> DEFINE F == FitOf(mask, name)
           c == At(name, si)
           d == At(mask, mi)
<1>1. MatchTypes /\ Decides(F) /\ StarFollows(F)
    BY DEF Matching
<1>2. /\ Len(mask) \in Nat /\ Len(name) \in Nat
      /\ Fits(mask, name) <=> 1 \in F[1]
      /\ c = "end" <=> si = Len(name) + 1
      /\ d = "end" <=> mi = Len(mask) + 1
      /\ mi <= Len(mask) => (At(mask, mi + 1) = "end" <=> mi + 1 = Len(mask) + 1)
    BY <1>1, PlacesAsk DEF MatchTypes
<1>3. /\ mi \in 1..(Len(mask) + 1) /\ si \in 1..(Len(name) + 1) /\ star \in 0..(Len(mask) + 1)
      /\ (star # 0 => prestar \in 1..si)
    BY <1>1, <1>2 DEF MatchTypes
<1>4. /\ F[mi] \subseteq 1..(Len(name) + 1)
      /\ star # 0 => F[star] \subseteq 1..(Len(name) + 1)
      /\ mi <= Len(mask) => F[mi + 1] \subseteq 1..(Len(name) + 1)
    BY <1>1, <1>2, <1>3, PlacesAsk
<1>5. F[mi] = FitAt(F, mask, name, mi) /\ (mi <= Len(mask) => F[mi + 1] = FitAt(F, mask, name, mi + 1))
    BY <1>1, <1>2, <1>3, PlacesAsk
<1>6. doing = "match" /\ mask' = mask /\ name' = name /\ FitOf(mask', name') = F
    BY DEF MatchStep
<1>7. \A i \in 1..(Len(name) + 1) : At(name, i) = "end" <=> i = Len(name) + 1
    BY <1>1, PlacesAsk
<1>8. d \in {"?", "*", "/"} => mi <= Len(mask) /\ mi + 1 \in 1..(Len(mask) + 1)
    BY <1>2, <1>3
<1>9. Len(name) + 1 \in Nat
    BY <1>2
<1> HIDE DEF F
\* What may fit behind the last star fits at mi too, further on.
<1>10. ASSUME star # 0, NEW j \in F[star], j > prestar
       PROVE  j \in Int /\ j + (si - prestar) \in F[mi] /\ j + (si - prestar) > si
  <2>1. j \in Int /\ j + (si - prestar) > si
      BY <1>3, <1>4, <1>10
  <2> QED  BY <1>1, <1>3, <1>10, <2>1 DEF StarFollows
<1>11. CASE d = "?" /\ c = "end" /\ Answers(FALSE)
  <2>1. F[mi] = {j \in 1..Len(name) : j + 1 \in F[mi + 1]}
      BY <1>5, <1>11 DEF FitAt
  <2>2. 1 \notin F[1]
    <3>1. si \notin F[mi]
        BY <1>2, <1>11, <2>1
    <3>2. SUFFICES ASSUME star # 0, NEW j \in F[star], j > prestar PROVE FALSE
        BY <1>1, <3>1 DEF Decides
    <3>3. j + (si - prestar) \in 1..(Len(name) + 1) /\ j + (si - prestar) > Len(name) + 1
        BY <1>2, <1>4, <1>10, <1>11, <3>2
    <3> QED  BY <1>2, <3>3
  <2>3. doing' = "matched" /\ verdict' = FALSE
      BY <1>11 DEF Answers
  <2> QED  BY <1>2, <2>2, <2>3
<1>12. CASE d = "?" /\ c # "end" /\ mi' = mi + 1 /\ si' = si + 1 /\ UNCHANGED <<doing, star, prestar, verdict>>
  <2>1. F[mi] = {j \in 1..Len(name) : j + 1 \in F[mi + 1]}
      BY <1>5, <1>12 DEF FitAt
  <2>2. si \in 1..Len(name)
      BY <1>2, <1>3, <1>12
  <2>3. MatchTypes'
      BY <1>1, <1>2, <1>3, <1>6, <1>8, <1>12, <2>2 DEF MatchTypes
  <2>4. 1 \in F[1] <=> si + 1 \in F[mi + 1] \/ (star # 0 /\ \E j \in F[star] : j > prestar)
      BY <1>1, <2>1, <2>2 DEF Decides
  <2>5. Decides(FitOf(mask, name))'
      BY <1>6, <1>12, <2>4 DEF Decides
  <2>6. star' # 0 => \A j \in F[star'] : j >= prestar' => j + (si' - prestar') \in F[mi']
    <3> SUFFICES ASSUME star' # 0, NEW j \in F[star'], j >= prestar' PROVE j + (si' - prestar') \in F[mi']
        OBVIOUS
    <3>1. star' = star /\ prestar' = prestar /\ mi' = mi + 1 /\ si' = si + 1
        BY <1>12
    <3>2. star # 0 /\ j \in F[star] /\ j >= prestar /\ j \in Int
        BY <1>4, <3>1
    <3>3. j + (si - prestar) \in F[mi]
        BY <1>1, <3>2 DEF StarFollows
    <3>4. (j + (si - prestar)) + 1 \in F[mi + 1]
        BY <2>1, <3>3
    <3>5. j + (si' - prestar') = (j + (si - prestar)) + 1
        BY <1>3, <3>1, <3>2
    <3>6. F[mi'] = F[mi + 1]
        BY <3>1
    <3> QED  BY <3>4, <3>5, <3>6
  <2>7. StarFollows(FitOf(mask, name))'
      BY <1>6, <2>6, Zenon DEF StarFollows
  <2>8. doing' = "match"
      BY <1>6, <1>12
  <2> QED  BY <2>3, <2>5, <2>7, <2>8 DEF Matching
<1>13. CASE d = "*" /\ At(mask, mi + 1) = "end" /\ Answers(TRUE)
  <2>1. F[mi] = {j \in 1..(Len(name) + 1) : \E k \in F[mi + 1] : j <= k}
      BY <1>5, <1>13 DEF FitAt
  <2>2. Len(name) + 1 \in F[mi + 1]
    <3>1. F[mi + 1] = {j \in 1..(Len(name) + 1) : At(name, j) = "end"}
        BY <1>5, <1>8, <1>13 DEF FitAt
    <3>2. Len(name) + 1 \in 1..(Len(name) + 1)
        BY <1>2
    <3> QED  BY <1>7, <3>1, <3>2
  <2>3. si \in F[mi]
      BY <1>2, <1>3, <2>1, <2>2
  <2>4. 1 \in F[1]
      BY <1>1, <2>3 DEF Decides
  <2>5. doing' = "matched" /\ verdict' = TRUE
      BY <1>13 DEF Answers
  <2> QED  BY <1>2, <2>4, <2>5
<1>14. CASE /\ d = "*" /\ At(mask, mi + 1) # "end" /\ mi' = mi + 1 /\ star' = mi + 1 /\ prestar' = si
            /\ UNCHANGED <<doing, si, verdict>>
  <2>1. F[mi] = {j \in 1..(Len(name) + 1) : \E k \in F[mi + 1] : j <= k}
      BY <1>5, <1>14 DEF FitAt
  <2>2. MatchTypes'
    <3>1. mi + 1 \in 1..(Len(mask) + 1) /\ si \in 1..si /\ mi + 1 \in 0..(Len(mask) + 1)
        BY <1>3, <1>8, <1>14
    <3> QED  BY <1>1, <1>3, <1>6, <1>14, <3>1 DEF MatchTypes
  <2>3. si \in F[mi] <=> si \in F[mi + 1] \/ \E k \in F[mi + 1] : k > si
    <3>1. \A k \in F[mi + 1] : si <= k <=> k = si \/ k > si
        BY <1>3, <1>4, <1>8, <1>14
    <3> QED  BY <1>3, <2>1, <3>1
  <2>4. (star # 0 /\ \E j \in F[star] : j > prestar) => si \in F[mi]
    <3> SUFFICES ASSUME star # 0, NEW j \in F[star], j > prestar PROVE si \in F[mi]
        OBVIOUS
    <3>1. j + (si - prestar) \in F[mi] /\ j + (si - prestar) > si
        BY <1>10
    <3> DEFINE x == j + (si - prestar)
    <3>2. x \in F[mi] /\ x > si
        BY <3>1
    <3> HIDE DEF x
    <3>3. PICK k \in F[mi + 1] : x <= k
        BY <2>1, <3>2
    <3>4. k \in Int /\ x \in Int
        BY <1>4, <1>8, <1>14, <3>2
    <3>5. si <= k
        BY <1>3, <3>2, <3>3, <3>4
    <3> QED  BY <1>3, <2>1, <3>5
  <2>5. 1 \in F[1] <=> si \in F[mi + 1] \/ \E k \in F[mi + 1] : k > si
      BY <1>1, <2>3, <2>4 DEF Decides
  <2>6. mi + 1 # 0
      BY <1>3
  <2>7. Decides(FitOf(mask, name))'
      BY <1>6, <1>14, <2>5, <2>6 DEF Decides
  <2>8. star' # 0 => \A j \in F[star'] : j >= prestar' => j + (si' - prestar') \in F[mi']
    <3> SUFFICES ASSUME NEW j \in F[star'] PROVE j + (si' - prestar') \in F[mi']
        OBVIOUS
    <3>1. star' = mi + 1 /\ mi' = mi + 1 /\ si' = si /\ prestar' = si
        BY <1>14
    <3>2. j \in F[mi + 1] /\ j \in Int
        BY <1>4, <1>8, <1>14, <3>1
    <3>3. j + (si' - prestar') = j
        BY <1>3, <3>1, <3>2
    <3>4. F[mi'] = F[mi + 1]
        BY <3>1
    <3> QED  BY <3>2, <3>3, <3>4
  <2>9. StarFollows(FitOf(mask, name))'
      BY <1>6, <2>8, Zenon DEF StarFollows
  <2>10. doing' = "match"
      BY <1>6, <1>14
  <2> QED  BY <2>2, <2>7, <2>9, <2>10 DEF Matching
<1>15. CASE d = "/" /\ Compare(c, At(mask, mi + 1), mi + 2)
  <2>1. F[mi] = {j \in 1..(Len(name) + 1) : At(name, j) = At(mask, mi + 1)
                                             /\ (At(name, j) = "end" \/ j + 1 \in F[mi + 2])}
      BY <1>5, <1>15 DEF FitAt
  <2>2. Asks(F, At(mask, mi + 1), mi + 2)
      BY <2>1 DEF Asks
  <2>3. At(mask, mi + 1) # "end" => mi + 2 \in 1..(Len(mask) + 1)
      BY <1>2, <1>3, <1>8, <1>15
  <2> QED  BY <1>6, <1>15, <2>2, <2>3, CompareStep DEF F
<1>16. CASE d \notin {"?", "*", "/"} /\ Compare(c, d, mi + 1)
  <2>1. F[mi] = {j \in 1..(Len(name) + 1) : At(name, j) = d /\ (d = "end" \/ j + 1 \in F[mi + 1])}
      BY <1>5, <1>16 DEF FitAt
  <2>2. Asks(F, d, mi + 1)
      BY <2>1 DEF Asks
  <2>3. d # "end" => mi + 1 \in 1..(Len(mask) + 1)
      BY <1>2, <1>3
  <2> QED  BY <1>6, <1>16, <2>2, <2>3, CompareStep DEF F
<1>17. \/ d = "?" /\ c = "end" /\ Answers(FALSE)
       \/ d = "?" /\ c # "end" /\ mi' = mi + 1 /\ si' = si + 1 /\ UNCHANGED <<doing, star, prestar, verdict>>
       \/ d = "*" /\ At(mask, mi + 1) = "end" /\ Answers(TRUE)
       \/ /\ d = "*" /\ At(mask, mi + 1) # "end" /\ mi' = mi + 1 /\ star' = mi + 1 /\ prestar' = si
          /\ UNCHANGED <<doing, si, verdict>>
       \/ d = "/" /\ Compare(c, At(mask, mi + 1), mi + 2)
       \/ d \notin {"?", "*", "/"} /\ Compare(c, d, mi + 1)
    BY Zenon DEF MatchStep
<1> QED  BY <1>11, <1>12, <1>13, <1>14, <1>15, <1>16, <1>17, Zenon

\* A program that was started has tried nothing yet.
LEMMA InitMatchInv == MaskInit => MatchInv
BY DEF MaskInit, MatchInv, MatchIsRight

\* A match starts at the beginnings, where nothing was decided.
LEMMA StartMatchStep ==
    ASSUME MatchInv, doing = "start", NEW m \in Texts(MaskChars, MaxMask), NEW n \in Texts(NameChars, MaxName),
           StartMatch(m, n)
    PROVE  MatchInv'
<1>1. /\ mi' = 1 /\ si' = 1 /\ star' = 0 /\ doing' = "match" /\ mask' = m /\ name' = n
    BY DEF MatchInv, StartMatch
<1>2. m \in Seq(MaskChars) /\ n \in Seq(NameChars) /\ Len(m) \in Nat /\ Len(n) \in Nat
    BY MaskAssumption, TextsTyped
<1>3. MatchTypes'
    BY <1>1, <1>2 DEF MatchTypes
<1>4. Decides(FitOf(mask, name))' /\ StarFollows(FitOf(mask, name))'
    BY <1>1 DEF Decides, StarFollows
<1> QED  BY <1>1, <1>3, <1>4 DEF MatchInv, Matching, MatchIsRight

\* Every step keeps the invariant.
LEMMA MatchInvStep == MatchInv /\ [MaskNext]_maskVars => MatchInv'
<1> SUFFICES ASSUME MatchInv, [MaskNext]_maskVars PROVE MatchInv'
    OBVIOUS
<1>1. ASSUME doing = "start", NEW m \in Texts(MaskChars, MaxMask), NEW n \in Texts(NameChars, MaxName),
             StartMatch(m, n)
      PROVE  MatchInv'
    BY <1>1, StartMatchStep
<1>2. CASE MatchStep
  <2>1. Matching /\ mask' = mask /\ name' = name
      BY <1>2 DEF MatchInv, MatchStep
  <2>2. /\ doing' = "match" => Matching'
        /\ doing' \in {"match", "matched"}
        /\ doing' = "matched" => (verdict' <=> Fits(mask, name))
      BY <1>2, <2>1, MatchStepIs
  <2>3. MatchIsRight'
      BY <2>1, <2>2 DEF MatchIsRight
  <2> QED  BY <2>2, <2>3 DEF MatchInv
<1>3. ASSUME doing = "start", NEW m \in Texts(PathChars, MaxPath), Find(m)
      PROVE  MatchInv'
    BY <1>3 DEF Find, MatchInv, MatchIsRight
<1>4. CASE UNCHANGED maskVars
  <2>1. /\ doing' = doing /\ mask' = mask /\ name' = name /\ mi' = mi /\ si' = si /\ star' = star
        /\ prestar' = prestar /\ verdict' = verdict
      BY <1>4 DEF maskVars
  <2>2. Matching => Matching'
      BY <2>1 DEF Matching, MatchTypes, Decides, StarFollows
  <2>3. MatchIsRight'
      BY <2>1 DEF MatchInv, MatchIsRight
  <2> QED  BY <2>1, <2>2, <2>3 DEF MatchInv
<1> QED  BY <1>1, <1>2, <1>3, <1>4 DEF MaskNext

\* pattern_match answers what the mask means, whatever the mask and the name: going back
\* to the last star only loses no way to fit.
THEOREM MasksAreMatched == MaskSpec => []MatchIsRight
<1>1. MaskInit => MatchInv
    BY InitMatchInv
<1>2. MatchInv /\ [MaskNext]_maskVars => MatchInv'
    BY MatchInvStep
<1>3. MatchInv => MatchIsRight
    BY DEF MatchInv
<1> QED  BY <1>1, <1>2, <1>3, PTL DEF MaskSpec

-----------------------------------------------------------------------------
(* 5, 6, 7: lines by number. *)

\* The table of one more character.
TableWith(b, c) ==
    IF c # EOL THEN [b EXCEPT ![Len(b)] = <<b[Len(b)][1], b[Len(b)][2] + 1>>]
               ELSE Append(b, <<b[Len(b)][1] + b[Len(b)][2] + 1, 0>>)

\* f[i] is the table of the first i characters.
Parses(f, t, n) == f = [i \in 0..n |-> IF i = 0 THEN << <<0, 0>> >> ELSE TableWith(f[i - 1], t[i])]

\* What the tables are at each place.
LEMMA ParsesAt ==
    ASSUME NEW t, NEW n, NEW f, Parses(f, t, n)
    PROVE  \A i \in 0..n : f[i] = IF i = 0 THEN << <<0, 0>> >> ELSE TableWith(f[i - 1], t[i])
<1> DEFINE e(j) == IF j = 0 THEN << <<0, 0>> >> ELSE TableWith(f[j - 1], t[j])
<1>1. f = [j \in 0..n |-> e(j)]
    BY Zenon DEF Parses
<1> HIDE DEF e
<1>2. \A i \in 0..n : f[i] = e(i)
    BY <1>1
<1> QED  BY <1>2, Zenon DEF e

\* A text can be parsed, however long it is.
LEMMA ParsesExist ==
    ASSUME NEW t, NEW n \in Nat PROVE \E f : Parses(f, t, n)
<1> DEFINE T == {m \in Nat : ~ \E f : Parses(f, t, m)}
<1>1. SUFFICES ASSUME T # {} PROVE FALSE
    OBVIOUS
<1>2. PICK m \in T : \A k \in T : m <= k
  <2>1. T \subseteq Nat
      OBVIOUS
  <2> HIDE DEF T
  <2> QED  BY <1>1, <2>1, LeastNatural
<1>3. m \in Nat /\ ~ \E f : Parses(f, t, m)
    BY <1>2
<1>4. m # 0
  <2> DEFINE g == [i \in 0..0 |-> << <<0, 0>> >>]
             e(i) == IF i = 0 THEN << <<0, 0>> >> ELSE TableWith(g[i - 1], t[i])
  <2>1. \A i \in 0..0 : g[i] = e(i)
    <3>1. \A i \in 0..0 : e(i) = << <<0, 0>> >>
        OBVIOUS
    <3> HIDE DEF e
    <3> QED  BY <3>1
  <2>2. g = [i \in 0..0 |-> g[i]]
      OBVIOUS
  <2>3. g = [i \in 0..0 |-> e(i)]
    <3> HIDE DEF g, e
    <3> QED  BY <2>1, <2>2
  <2>4. Parses(g, t, 0)
    <3> HIDE DEF g
    <3> QED  BY <2>3, Zenon DEF Parses, e
  <2> QED  BY <1>3, <2>4
<1>5. m - 1 \in Nat /\ m - 1 \notin T
  <2>1. m - 1 \in Nat /\ ~(m <= m - 1)
      BY <1>3, <1>4
  <2> HIDE DEF T
  <2> QED  BY <1>2, <2>1
<1>6. PICK f : Parses(f, t, m - 1)
    BY <1>5
<1> HIDE DEF T
<1> DEFINE g == [i \in 0..m |-> IF i < m THEN f[i] ELSE TableWith(f[m - 1], t[m])]
           e(i) == IF i = 0 THEN << <<0, 0>> >> ELSE TableWith(g[i - 1], t[i])
<1>7. \A i \in 0..(m - 1) : f[i] = IF i = 0 THEN << <<0, 0>> >> ELSE TableWith(f[i - 1], t[i])
    BY <1>6, ParsesAt
<1>8. (\A i \in 0..(m - 1) : g[i] = f[i]) /\ g[m] = TableWith(f[m - 1], t[m])
    BY <1>3
<1>9. \A i \in 0..m : g[i] = e(i)
  <2> HIDE DEF g
  <2> TAKE i \in 0..m
  <2>1. CASE i = m
    <3>1. m - 1 \in 0..(m - 1)
        BY <1>3, <1>4
    <3>2. g[m - 1] = f[m - 1]
        BY <1>8, <3>1
    <3> QED  BY <1>4, <1>8, <2>1, <3>2
  <2>2. CASE i = 0
    <3>1. i \in 0..(m - 1)
        BY <1>3, <1>4, <2>2
    <3> QED  BY <1>7, <1>8, <2>2, <3>1
  <2>3. CASE i # m /\ i # 0
    <3>1. i \in 0..(m - 1) /\ i - 1 \in 0..(m - 1)
        BY <1>3, <2>3
    <3>2. g[i] = f[i] /\ g[i - 1] = f[i - 1]
        BY <1>8, <3>1
    <3>3. f[i] = TableWith(f[i - 1], t[i])
        BY <1>7, <2>3, <3>1
    <3> QED  BY <2>3, <3>2, <3>3
  <2> QED  BY <2>1, <2>2, <2>3
<1>10. g = [i \in 0..m |-> g[i]]
    OBVIOUS
<1>11. g = [i \in 0..m |-> e(i)]
  <2> HIDE DEF g, e
  <2> QED  BY <1>9, <1>10
<1>12. Parses(g, t, m)
  <2> HIDE DEF g
  <2> QED  BY <1>11, Zenon DEF Parses, e
<1> QED  BY <1>3, <1>12

\* parseFile gives the last of them.
LEMMA ParseFileIs ==
    ASSUME NEW t, Len(t) \in Nat
    PROVE  \E f : Parses(f, t, Len(t)) /\ parseFile(t) = f[Len(t)]
<1> DEFINE f == CHOOSE g : Parses(g, t, Len(t))
<1>1. Parses(f, t, Len(t))
    BY ParsesExist, Zenon
<1>2. parseFile(t) = f[Len(t)]
    BY Zenon DEF parseFile, Parses, TableWith, f
<1> QED  BY <1>1, <1>2

\* The ends of lines among the first n characters.
EndsTo(t, n) == {j \in 1..n : t[j] = EOL}

\* b is the table of the first n characters of t: its lines follow on each other, each
\* but the last with an end, and that is the first, second and so on.
LineOfTable(t, b, n, i) ==
    /\ b[i][1] \in Nat /\ b[i][2] \in Nat
    /\ i < Len(b) =>
        /\ b[i + 1][1] = b[i][1] + b[i][2] + 1 /\ b[i + 1][1] <= n
        /\ t[b[i + 1][1]] = EOL /\ Cardinality(EndsTo(t, b[i + 1][1])) = i
IsTable(t, b, n) ==
    /\ b \in Seq(Nat \X Nat) /\ Len(b) \in Nat \ {0} /\ b[1][1] = 0
    /\ b[Len(b)][1] + b[Len(b)][2] = n
    /\ Cardinality(EndsTo(t, n)) = Len(b) - 1
    /\ \A i \in 1..Len(b) : LineOfTable(t, b, n, i)

\* One more character is an end more or not.
LEMMA EndsGrow ==
    ASSUME NEW t, NEW n \in Nat
    PROVE  /\ IsFiniteSet(EndsTo(t, n)) /\ Cardinality(EndsTo(t, n)) \in Nat
           /\ Cardinality(EndsTo(t, n + 1)) =
                 IF t[n + 1] = EOL THEN Cardinality(EndsTo(t, n)) + 1 ELSE Cardinality(EndsTo(t, n))
<1>1. IsFiniteSet(1..n)
    BY FS_Interval
<1>2. EndsTo(t, n) \in SUBSET (1..n)
    BY DEF EndsTo
<1>3. IsFiniteSet(EndsTo(t, n)) /\ Cardinality(EndsTo(t, n)) \in Nat
    BY <1>1, <1>2, FS_Subset, FS_CardinalityType
<1>4. CASE t[n + 1] = EOL
  <2>1. EndsTo(t, n + 1) = EndsTo(t, n) \cup {n + 1} /\ n + 1 \notin EndsTo(t, n)
      BY <1>4 DEF EndsTo
  <2> QED  BY <1>3, <1>4, <2>1, FS_AddElement
<1>5. CASE t[n + 1] # EOL
  <2>1. EndsTo(t, n + 1) = EndsTo(t, n)
      BY <1>5 DEF EndsTo
  <2> QED  BY <1>3, <1>5, <2>1
<1> QED  BY <1>3, <1>4, <1>5

\* The table of one more character is its table.
LEMMA TableGrows ==
    ASSUME NEW t, NEW n \in Nat, NEW b, IsTable(t, b, n)
    PROVE  IsTable(t, TableWith(b, t[n + 1]), n + 1)
<1> DEFINE k == Len(b)
           after == TableWith(b, t[n + 1])
<1>1. /\ b \in Seq(Nat \X Nat) /\ k \in Nat \ {0} /\ b[1][1] = 0 /\ b[k][1] + b[k][2] = n
      /\ \A i \in 1..k : LineOfTable(t, b, n, i)
      /\ Cardinality(EndsTo(t, n)) = k - 1
    BY DEF IsTable
<1>2. k \in 1..k /\ b[k][1] \in Nat /\ b[k][2] \in Nat
    BY <1>1 DEF LineOfTable
<1>3. /\ t[n + 1] = EOL => Cardinality(EndsTo(t, n + 1)) = k
      /\ t[n + 1] # EOL => Cardinality(EndsTo(t, n + 1)) = k - 1
  <2>1. Cardinality(EndsTo(t, n + 1)) =
           IF t[n + 1] = EOL THEN Cardinality(EndsTo(t, n)) + 1 ELSE Cardinality(EndsTo(t, n))
      BY EndsGrow
  <2> QED  BY <1>1, <2>1
<1> HIDE DEF k
<1>3a. 1 \in 1..k
    BY <1>1
<1>4. CASE t[n + 1] # EOL
  <2> DEFINE x == <<b[k][1], b[k][2] + 1>>
  <2>0. x \in Nat \X Nat /\ x[1] = b[k][1] /\ x[2] = b[k][2] + 1
      BY <1>2
  <2>1. after = [b EXCEPT ![k] = x]
      BY <1>4 DEF TableWith, k
  <2> HIDE DEF x, after
  <2>2. after \in Seq(Nat \X Nat) /\ Len(after) = k /\ \A i \in 1..k : after[i] = IF i = k THEN x ELSE b[i]
    <3>1. k \in 1..Len(b) /\ b \in Seq(Nat \X Nat) /\ Len(b) = k
        BY <1>1, <1>2 DEF k
    <3> QED  BY <2>0, <2>1, <3>1, ExceptSeq
  <2>3. after[1][1] = 0
    <3>1. after[1] = IF 1 = k THEN x ELSE b[1]
        BY <1>3a, <2>2
    <3> QED  BY <1>1, <2>0, <3>1
  <2>4. after[k][1] + after[k][2] = n + 1
    <3>1. after[k] = x
        BY <1>2, <2>2
    <3>2. after[k][1] = b[k][1] /\ after[k][2] = b[k][2] + 1
        BY <2>0, <3>1
    <3> DEFINE u == b[k][1]
               v == b[k][2]
    <3>3. u \in Nat /\ v \in Nat /\ u + v = n /\ after[k][1] = u /\ after[k][2] = v + 1
        BY <1>1, <1>2, <3>2
    <3> HIDE DEF u, v
    <3> QED  BY <3>3
  <2>5. ASSUME NEW i \in 1..k PROVE LineOfTable(t, after, n + 1, i)
    <3>1. LineOfTable(t, b, n, i)
        BY <1>1
    <3>2. CASE i = k
      <4>1. after[i] = x /\ ~(i < Len(after))
          BY <1>1, <2>2, <3>2
      <4>2. after[i][1] \in Nat /\ after[i][2] \in Nat
          BY <1>2, <2>0, <4>1
      <4> QED  BY <4>1, <4>2 DEF LineOfTable
    <3>3. CASE i # k
      <4>1. i < k /\ i + 1 \in 1..k /\ i \in 1..k
        <5>1. k \in Nat \ {0}
            BY <1>1
        <5> QED  BY <3>3, <5>1
      <4>2. after[i] = b[i] /\ after[i + 1][1] = b[i + 1][1]
          BY <2>0, <2>2, <3>3, <4>1
      <4>3. /\ b[i][1] \in Nat /\ b[i][2] \in Nat
            /\ b[i + 1][1] = b[i][1] + b[i][2] + 1 /\ b[i + 1][1] <= n
            /\ t[b[i + 1][1]] = EOL /\ Cardinality(EndsTo(t, b[i + 1][1])) = i
          BY <3>1, <4>1 DEF LineOfTable, k
      <4>4. b[i + 1][1] <= n + 1
          BY <4>3
      <4> QED  BY <2>2, <4>2, <4>3, <4>4 DEF LineOfTable
    <3> QED  BY <3>2, <3>3
  <2>6. Cardinality(EndsTo(t, n + 1)) = k - 1
      BY <1>3, <1>4
  <2> QED  BY <1>1, <2>2, <2>3, <2>4, <2>5, <2>6 DEF IsTable, after
<1>5. CASE t[n + 1] = EOL
  <2> DEFINE x == <<b[k][1] + b[k][2] + 1, 0>>
  <2>0. x \in Nat \X Nat /\ x[1] = n + 1 /\ x[2] = 0
    <3>1. b[k][1] + b[k][2] + 1 = n + 1 /\ n + 1 \in Nat
        BY <1>1, <1>2
    <3>2. x = <<n + 1, 0>>
        BY <3>1
    <3> HIDE DEF x
    <3> QED  BY <3>1, <3>2
  <2>1. after = Append(b, x)
      BY <1>5 DEF TableWith, k
  <2> HIDE DEF x, after
  <2>2. /\ after \in Seq(Nat \X Nat) /\ Len(after) = k + 1 /\ after[k + 1] = x
        /\ \A i \in 1..k : after[i] = b[i]
      BY <1>1, <2>0, <2>1, AppendProperties DEF k
  <2>3. after[1][1] = 0
    <3>1. after[1] = b[1]
        BY <1>3a, <2>2
    <3> QED  BY <1>1, <3>1
  <2>4. after[k + 1][1] + after[k + 1][2] = n + 1
      BY <2>0, <2>2
  <2>5. ASSUME NEW i \in 1..(k + 1) PROVE LineOfTable(t, after, n + 1, i)
    <3>1. CASE i = k + 1
        BY <1>1, <2>0, <2>2, <3>1 DEF LineOfTable
    <3>2. CASE i = k
      <4>1. after[i] = b[k] /\ after[i + 1][1] = n + 1
          BY <1>2, <2>0, <2>2, <3>2
      <4>2. after[i + 1][1] = after[i][1] + after[i][2] + 1
          BY <1>1, <4>1
      <4>3. Cardinality(EndsTo(t, n + 1)) = i
          BY <1>3, <1>5, <3>2
      <4> QED  BY <1>2, <1>5, <4>1, <4>2, <4>3 DEF LineOfTable
    <3>3. CASE i # k /\ i # k + 1
      <4>1. i < k /\ i + 1 \in 1..k /\ i \in 1..k
        <5>1. k \in Nat \ {0}
            BY <1>1
        <5> QED  BY <3>3, <5>1
      <4>2. after[i] = b[i] /\ after[i + 1] = b[i + 1]
          BY <2>2, <4>1
      <4>3. LineOfTable(t, b, n, i)
          BY <1>1, <4>1
      <4>4. /\ b[i][1] \in Nat /\ b[i][2] \in Nat
            /\ b[i + 1][1] = b[i][1] + b[i][2] + 1 /\ b[i + 1][1] <= n
            /\ t[b[i + 1][1]] = EOL /\ Cardinality(EndsTo(t, b[i + 1][1])) = i
          BY <4>1, <4>3 DEF LineOfTable, k
      <4>5. b[i + 1][1] <= n + 1
          BY <4>4
      <4> QED  BY <2>2, <4>2, <4>4, <4>5 DEF LineOfTable
    <3> QED  BY <3>1, <3>2, <3>3
  <2>6. Cardinality(EndsTo(t, n + 1)) = k + 1 - 1
      BY <1>1, <1>3, <1>5
  <2> QED  BY <1>1, <2>2, <2>3, <2>4, <2>5, <2>6 DEF IsTable, after
<1> QED  BY <1>4, <1>5

\* parseFile makes the table of the whole text.
LEMMA ParsedIsTable ==
    ASSUME NEW t, Len(t) \in Nat PROVE IsTable(t, parseFile(t), Len(t))
<1>1. PICK f : Parses(f, t, Len(t)) /\ parseFile(t) = f[Len(t)]
    BY ParseFileIs
<1>2. \A i \in 0..Len(t) : f[i] = IF i = 0 THEN << <<0, 0>> >> ELSE TableWith(f[i - 1], t[i])
    BY <1>1, ParsesAt
<1> DEFINE T == {n \in 0..Len(t) : ~IsTable(t, f[n], n)}
<1>3. SUFFICES ASSUME T # {} PROVE FALSE
    BY <1>1
<1>4. PICK n \in T : \A k \in T : n <= k
  <2>1. T \subseteq Nat
      OBVIOUS
  <2> HIDE DEF T
  <2> QED  BY <1>3, <2>1, LeastNatural
<1>5. n # 0
  <2>1. f[0] = << <<0, 0>> >>
      BY <1>2
  <2>2. EndsTo(t, 0) = {} /\ Cardinality(EndsTo(t, 0)) = 0
      BY FS_EmptySet DEF EndsTo
  <2> DEFINE b == << <<0, 0>> >>
  <2>3. b \in Seq(Nat \X Nat) /\ Len(b) = 1 /\ b[1][1] = 0 /\ b[1][2] = 0
      OBVIOUS
  <2> HIDE DEF b
  <2>4. IsTable(t, b, 0)
      BY <2>2, <2>3 DEF IsTable, LineOfTable
  <2> QED  BY <2>1, <2>4 DEF b
<1>6. n - 1 \in 0..Len(t) /\ n \in 0..Len(t) /\ n - 1 + 1 = n /\ n - 1 \in Nat
    BY <1>4, <1>5
<1>7. IsTable(t, f[n - 1], n - 1)
  <2>1. ~(n <= n - 1)
      BY <1>6
  <2>2. n - 1 \notin T
    <3> HIDE DEF T
    <3> QED  BY <1>4, <2>1
  <2> QED  BY <1>6, <2>2
<1>8. IsTable(t, TableWith(f[n - 1], t[n]), n)
    BY <1>6, <1>7, TableGrows
<1> QED  BY <1>2, <1>4, <1>5, <1>8

\* A later end has more ends up to it.
LEMMA EndIsUnique ==
    ASSUME NEW t, NEW i \in Nat, NEW k \in Nat, i < k, t[k] = EOL
    PROVE  Cardinality(EndsTo(t, i)) # Cardinality(EndsTo(t, k))
<1>1. IsFiniteSet(EndsTo(t, k))
    BY EndsGrow
<1>2. EndsTo(t, i) \in SUBSET EndsTo(t, k) /\ k \in EndsTo(t, k) /\ k \notin EndsTo(t, i)
    BY DEF EndsTo
<1> QED  BY <1>1, <1>2, FS_Subset

\* The table is that of the text.
TableInv ==
    /\ text \in Seq(Nat) /\ Len(text) \in Nat /\ needLine \in Nat
    /\ IF lineAt = "start" THEN alarm = "off" ELSE IsTable(text, lines, Len(text))

\* The end of a line is where the next one begins in the table.
LEMMA EndIsNext ==
    ASSUME TableInv, lineAt # "start", NEW k \in 1..CountLines
    PROVE  EndOf(k) = lines[k + 1][1]
<1> DEFINE e == lines[k + 1][1]
<1>0. IsTable(text, lines, Len(text))
    BY DEF TableInv
<1>1. k \in 1..Len(lines) /\ k + 1 \in 1..Len(lines) /\ k < Len(lines) /\ Len(lines) \in Nat
  <2>1. Len(lines) \in Nat
      BY <1>0 DEF IsTable
  <2> QED  BY <2>1 DEF CountLines
<1>2. e \in Nat /\ e <= Len(text) /\ text[e] = EOL /\ Cardinality(EndsTo(text, e)) = k /\ e >= 1
  <2>1. LineOfTable(text, lines, Len(text), k)
      BY <1>0, <1>1 DEF IsTable
  <2> QED  BY <1>1, <2>1 DEF LineOfTable
<1>3. DOMAIN text = 1..Len(text) /\ Len(text) \in Nat
    BY DEF TableInv
<1> HIDE DEF e
<1>4. e \in Ends
    BY <1>2, <1>3 DEF Ends
<1>5. \A i \in Ends : i \in Nat /\ text[i] = EOL /\ {j \in Ends : j <= i} = EndsTo(text, i)
    BY <1>3 DEF Ends, EndsTo
<1>6. \A i \in Ends : Cardinality({j \in Ends : j <= i}) = k => i = e
  <2> SUFFICES ASSUME NEW i \in Ends, Cardinality(EndsTo(text, i)) = k, i # e PROVE FALSE
      BY <1>5
  <2>1. i \in Nat /\ text[i] = EOL
      BY <1>5
  <2>2. i < e \/ e < i
      BY <1>2, <2>1
  <2> QED  BY <1>2, <2>1, <2>2, EndIsUnique
<1>7. Cardinality({j \in Ends : j <= e}) = k
    BY <1>2, <1>4, <1>5
<1>8. \E i \in Ends : Cardinality({j \in Ends : j <= i}) = k
    BY <1>4, <1>7
<1>9. EndOf(k) \in Ends /\ Cardinality({j \in Ends : j <= EndOf(k)}) = k
    BY <1>8, Zenon DEF EndOf
<1>10. EndOf(k) = e
    BY <1>6, <1>9
<1> QED  BY <1>10 DEF e

\* The text of a line is what the table says.
LEMMA LineTextIs ==
    ASSUME TableInv, lineAt # "start", NEW k \in 1..CountLines
    PROVE  /\ lines[k][1] \in Nat /\ lines[k][2] \in Nat /\ lines[k][1] + lines[k][2] < Len(text)
           /\ LineText(k) \in Seq(Nat) /\ Len(LineText(k)) = lines[k][2]
           /\ \A i \in 1..lines[k][2] : LineText(k)[i] = text[lines[k][1] + i]
<1> DEFINE s == lines[k][1]
           l == lines[k][2]
<1>0. IsTable(text, lines, Len(text))
    BY DEF TableInv
<1>1. k \in 1..Len(lines) /\ k < Len(lines) /\ Len(lines) \in Nat
  <2>1. Len(lines) \in Nat
      BY <1>0 DEF IsTable
  <2> QED  BY <2>1 DEF CountLines
<1>2. s \in Nat /\ l \in Nat /\ lines[k + 1][1] = s + l + 1 /\ s + l + 1 <= Len(text)
  <2>1. LineOfTable(text, lines, Len(text), k)
      BY <1>0, <1>1 DEF IsTable
  <2> QED  BY <1>1, <2>1 DEF LineOfTable
<1>3. EndOf(k) = s + l + 1
    BY <1>2, EndIsNext
<1>4. (IF k = 1 THEN 1 ELSE EndOf(k - 1) + 1) = s + 1
  <2>1. CASE k = 1
      BY <1>2, <2>1 DEF TableInv, IsTable
  <2>2. CASE k # 1
    <3>1. k - 1 \in 1..CountLines /\ k - 1 + 1 = k
        BY <1>1, <2>2 DEF CountLines
    <3>2. EndOf(k - 1) = lines[k][1]
        BY <3>1, EndIsNext
    <3> QED  BY <2>2, <3>2
  <2> QED  BY <2>1, <2>2
<1> HIDE DEF s, l
<1>5. EndOf(k) - 1 = s + l
    BY <1>2, <1>3
<1>6. LineText(k) = SubSeq(text, s + 1, s + l)
    BY <1>4, <1>5 DEF LineText
<1> DEFINE first == s + 1
           last == s + l
<1>7. /\ first \in Nat /\ last \in Nat /\ text \in Seq(Nat) /\ Len(text) \in Nat
      /\ \A i \in first..last : text[i] \in Nat
  <2>1. first \in Nat /\ last \in Nat /\ text \in Seq(Nat) /\ Len(text) \in Nat
      BY <1>2 DEF TableInv
  <2>2. \A i \in first..last : i \in 1..Len(text)
      BY <1>2, <2>1
  <2> HIDE DEF first, last
  <2> QED  BY <2>1, <2>2, ElementOfSeq
<1>8. /\ SubSeq(text, first, last) \in Seq(Nat)
      /\ Len(SubSeq(text, first, last)) = IF first <= last THEN last - first + 1 ELSE 0
      /\ \A i \in 1..(last - first + 1) : SubSeq(text, first, last)[i] = text[first + i - 1]
  <2>1. first \in Int /\ last \in Int
      BY <1>7
  <2> HIDE DEF first, last
  <2> QED  BY <1>7, <2>1, SubSeqProperties
<1>9. last - first + 1 = l /\ (first <= last <=> l >= 1)
    BY <1>2
<1>10. \A i \in 1..l : LineText(k)[i] = text[s + i]
  <2> TAKE i \in 1..l
  <2>1. first + i - 1 = s + i
      BY <1>2
  <2> HIDE DEF first, last
  <2> QED  BY <1>6, <1>8, <1>9, <2>1 DEF first, last
<1>11. LineText(k) \in Seq(Nat) /\ Len(LineText(k)) = l
  <2>1. LineText(k) = SubSeq(text, first, last)
      BY <1>6
  <2> HIDE DEF first, last
  <2> QED  BY <1>2, <1>8, <1>9, <2>1
<1> QED  BY <1>2, <1>10, <1>11 DEF s, l

\* The part of the line that was printed is read in its place, with the alarm off.
PrintInv ==
    lineAt \in {"print", "printed"} =>
        /\ alarm = "off" /\ needLine \in 1..CountLines
        /\ out \in Seq(Nat) /\ Len(out) <= lines[needLine][2]
        /\ offset = lines[needLine][1] + Len(out)
        /\ \A i \in 1..Len(out) : out[i] = text[lines[needLine][1] + i]
        /\ lineAt = "printed" => Len(out) = lines[needLine][2]

\* The line after the alarm was asked for before it: the next number is 0.
LateInv ==
    /\ lineAt = "start" => linesAfter = 0
    /\ linesAfter \in 0..2
    /\ reader.input = "keys" /\ linesAfter # 0 =>
          linesAfter = 1 /\ signaled /\ lineAt # "more" /\ (lineAt = "got" => needLine = 0)

LinesInv == TableInv /\ PrintInv /\ LateInv

\* At the start nothing was read.
LEMMA InitLinesInv == LinesInit => LinesInv
<1> SUFFICES ASSUME LinesInit PROVE LinesInv
    OBVIOUS
<1>1. << >> \in Seq(Nat) /\ Len(<< >>) = 0
    OBVIOUS
<1> QED  BY <1>1 DEF LinesInit, LinesInv, TableInv, PrintInv, LateInv

\* Whatever keeps the text and the table, and neither prints nor begins a line.
LEMMA AwayFromLines ==
    ASSUME LinesInv, UNCHANGED <<reader, text, lines, linesAfter>>, lineAt # "start", lineAt' # "start",
           lineAt' \notin {"print", "printed"}, needLine' \in Nat,
           reader.input = "keys" /\ linesAfter # 0 =>
               signaled' /\ lineAt' # "more" /\ (lineAt' = "got" => needLine' = 0)
    PROVE  LinesInv'
BY DEF LinesInv, TableInv, PrintInv, LateInv

\* The file is read: a table of it.
LEMMA OpenTextStep == ASSUME LinesInv, OpenText PROVE LinesInv'
<1>0. PICK n \in 0..MaxText : \E stops \in SUBSET (1..n) : text' = [i \in 1..n |-> IF i \in stops THEN EOL ELSE i]
    BY DEF OpenText
<1>1. PICK stops \in SUBSET (1..n) : text' = [i \in 1..n |-> IF i \in stops THEN EOL ELSE i]
    BY <1>0
<1>2. text' \in Seq(Nat) /\ Len(text') \in Nat
  <2>1. n \in Nat
      OBVIOUS
  <2>2. \A i \in 1..n : (IF i \in stops THEN EOL ELSE i) \in Nat
      BY <2>1 DEF EOL
  <2>3. text' \in [1..n -> Nat]
      BY <1>1, <2>2
  <2>4. text' \in Seq(Nat)
      BY <2>1, <2>3, SeqDef
  <2> QED  BY <2>4, LenProperties
<1>3. IsTable(text', parseFile(text'), Len(text'))
    BY <1>2, ParsedIsTable
<1>4. /\ lineAt = "start" /\ lineAt' \in {"first", "end"} /\ lines' = parseFile(text')
      /\ needLine' = needLine /\ linesAfter' = linesAfter
    BY DEF OpenText
<1> QED  BY <1>2, <1>3, <1>4 DEF LinesInv, TableInv, PrintInv, LateInv

\* A number is read.
LEMMA ReadNumberStep == ASSUME LinesInv, ReadNumber \/ ScanNumber PROVE LinesInv'
<1>1. needLine \in Nat /\ (lineAt # "start" => CountLines + 1 \in Nat)
    BY DEF LinesInv, TableInv, IsTable, CountLines
<1>2. CASE FirstKey
    BY <1>2, AwayFromLines DEF LinesInv, TableInv, LateInv, FirstKey
<1>3. CASE Test
    BY <1>3, AwayFromLines DEF LinesInv, TableInv, LateInv, Test
<1>4. CASE MoreKeys
  <2>1. needLine' \in Nat
      BY <1>1, <1>4 DEF MoreKeys
  <2> QED  BY <1>4, <2>1, AwayFromLines DEF LinesInv, LateInv, MoreKeys
<1>5. CASE ScanNumber
  <2>1. needLine' \in Nat
      BY <1>1, <1>5 DEF ScanNumber
  <2> QED  BY <1>5, <2>1, AwayFromLines DEF ScanNumber
<1> QED  BY <1>2, <1>3, <1>4, <1>5 DEF ReadNumber

\* The alarm never rings while a line is printed.
LEMMA AlarmStep == ASSUME LinesInv, Alarm PROVE LinesInv'
<1>1. lineAt \notin {"start", "print", "printed"}
    BY DEF LinesInv, TableInv, PrintInv, Alarm
<1>2. /\ UNCHANGED <<reader, text, lines, linesAfter>> /\ needLine' \in Nat
      /\ lineAt' \in {lineAt, "end", "got"} /\ (lineAt' = "got" => (lineAt = "got" /\ needLine' = needLine) \/ needLine' = 0)
      /\ lineAt' # "end" => signaled'
    BY <1>1 DEF LinesInv, TableInv, LateInv, Alarm
<1>3. signaled => signaled'
    BY DEF Alarm
<1> QED  BY <1>1, <1>2, <1>3, AwayFromLines DEF LinesInv, LateInv

\* What is done with a number.
LEMMA UseNumberStep == ASSUME LinesInv, UseNumber PROVE LinesInv'
<1>1. /\ lineAt = "got" /\ UNCHANGED <<reader, text, lines, needLine, restart, signaled>>
      /\ needLine \in Nat /\ CountLines \in Int /\ linesAfter \in 0..2
    BY DEF LinesInv, TableInv, IsTable, CountLines, LateInv, UseNumber
<1>2. CASE needLine = 0 \/ needLine > CountLines
  <2>1. lineAt' \in {"end", "first"} /\ linesAfter' = linesAfter
      BY <1>1, <1>2 DEF UseNumber
  <2> QED  BY <1>1, <2>1, AwayFromLines DEF LinesInv, LateInv
<1>3. CASE needLine # 0 /\ ~(needLine > CountLines)
  <2>1. /\ lineAt' = "print" /\ alarm' = "off" /\ offset' = lines[needLine][1] /\ out' = << >>
        /\ linesAfter' = IF signaled /\ linesAfter < 2 THEN linesAfter + 1 ELSE linesAfter
      BY <1>1, <1>3 DEF UseNumber
  <2>2. needLine \in 1..CountLines
      BY <1>1, <1>3
  <2>3. lines[needLine][1] \in Nat /\ lines[needLine][2] \in Nat
      BY <1>1, <2>2, LineTextIs DEF LinesInv
  <2>4. << >> \in Seq(Nat) /\ Len(<< >>) = 0
      OBVIOUS
  <2>5. PrintInv'
      BY <1>1, <2>1, <2>2, <2>3, <2>4 DEF PrintInv, CountLines
  <2>6. LateInv'
      BY <1>1, <1>3, <2>1 DEF LinesInv, LateInv
  <2>7. TableInv'
      BY <1>1, <2>1 DEF LinesInv, TableInv
  <2> QED  BY <2>5, <2>6, <2>7 DEF LinesInv
<1> QED  BY <1>2, <1>3

\* A character is the next of the line.
LEMMA PrintCharStep == ASSUME LinesInv, PrintChar PROVE LinesInv'
<1>1. /\ lineAt = "print" /\ UNCHANGED <<reader, text, lines, needLine, alarm, signaled, linesAfter>>
      /\ needLine \in 1..CountLines /\ alarm = "off" /\ needLine \in Nat
      /\ out \in Seq(Nat) /\ offset = lines[needLine][1] + Len(out) /\ Len(out) < lines[needLine][2]
      /\ \A i \in 1..Len(out) : out[i] = text[lines[needLine][1] + i]
    BY DEF LinesInv, TableInv, PrintInv, PrintChar
<1>2. /\ lines[needLine][1] \in Nat /\ lines[needLine][2] \in Nat
      /\ lines[needLine][1] + lines[needLine][2] < Len(text)
    BY <1>1, LineTextIs DEF LinesInv
<1> DEFINE from == lines[needLine][1]
           l == lines[needLine][2]
           n == Len(out)
<1>3. Len(out) \in Nat /\ Len(text) \in Nat /\ text \in Seq(Nat)
    BY <1>1, LenProperties DEF LinesInv, TableInv
<1>4. offset < Len(text) /\ offset + 1 \in 1..Len(text) /\ offset \in Nat
  <2>1. from \in Nat /\ l \in Nat /\ from + l < Len(text) /\ n \in Nat /\ offset = from + n /\ n < l
      BY <1>1, <1>2, <1>3
  <2> HIDE DEF from, l, n
  <2> QED  BY <1>3, <2>1
<1>5. lineAt' = "print" /\ out' = Append(out, text[offset + 1]) /\ offset' = offset + 1
    BY <1>1, <1>4 DEF PrintChar
<1>6. text[offset + 1] \in Nat
    BY <1>3, <1>4, ElementOfSeq
<1>7. /\ out' \in Seq(Nat) /\ Len(out') = Len(out) + 1 /\ out'[Len(out) + 1] = text[offset + 1]
      /\ \A i \in 1..Len(out) : out'[i] = out[i]
    BY <1>1, <1>5, <1>6, AppendProperties
<1>8. \A i \in 1..Len(out') : out'[i] = text[lines[needLine][1] + i]
  <2> TAKE i \in 1..Len(out')
  <2>1. CASE i = Len(out) + 1
    <3>1. lines[needLine][1] + i = offset + 1
      <4>1. from \in Nat /\ n \in Nat /\ offset = from + n /\ i = n + 1
          BY <1>1, <1>2, <1>3, <2>1
      <4>2. from + i = offset + 1
        <5> HIDE DEF from, n
        <5> QED  BY <4>1
      <4> QED  BY <4>2
    <3> QED  BY <1>7, <2>1, <3>1
  <2>2. CASE i # Len(out) + 1
    <3>1. i \in 1..Len(out)
        BY <1>3, <1>7, <2>2
    <3> QED  BY <1>1, <1>7, <3>1
  <2> QED  BY <2>1, <2>2
<1>9. Len(out') <= lines[needLine][2] /\ offset' = lines[needLine][1] + Len(out')
  <2> DEFINE n2 == Len(out')
  <2>1. from \in Nat /\ l \in Nat /\ n \in Nat /\ offset = from + n /\ n < l /\ n2 = n + 1 /\ offset' = offset + 1
      BY <1>1, <1>2, <1>3, <1>5, <1>7
  <2>2. n2 <= l /\ offset' = from + n2
    <3> HIDE DEF from, l, n, n2
    <3> QED  BY <2>1
  <2> QED  BY <2>2
<1>10. PrintInv'
    BY <1>1, <1>5, <1>7, <1>8, <1>9 DEF PrintInv, CountLines
<1>11. TableInv'
    BY <1>1, <1>5 DEF LinesInv, TableInv
<1>12. LateInv'
    BY <1>1, <1>5 DEF LinesInv, LateInv
<1> QED  BY <1>10, <1>11, <1>12 DEF LinesInv

\* The end of the line, and the next number.
LEMMA EndLineStep == ASSUME LinesInv, EndLine \/ NextNumber PROVE LinesInv'
<1>1. CASE EndLine
  <2>1. TableInv'
      BY <1>1 DEF LinesInv, TableInv, EndLine
  <2>2. LateInv'
      BY <1>1 DEF LinesInv, LateInv, EndLine
  <2>3. PrintInv'
    <3>1. /\ UNCHANGED <<text, lines, needLine, offset, out, alarm>>
          /\ lineAt = "print" /\ Len(out) = lines[needLine][2]
        BY <1>1 DEF EndLine
    <3>2. CountLines' = CountLines
        BY <3>1 DEF CountLines
    <3> QED  BY <3>1, <3>2 DEF LinesInv, PrintInv
  <2> QED  BY <2>1, <2>2, <2>3 DEF LinesInv
<1>2. CASE NextNumber
    BY <1>2, AwayFromLines DEF LinesInv, TableInv, LateInv, NextNumber
<1> QED  BY <1>1, <1>2

\* Every step keeps the invariant.
LEMMA LinesStep == LinesInv /\ [LinesNext]_linesVars => LinesInv'
<1> SUFFICES ASSUME LinesInv, [LinesNext]_linesVars PROVE LinesInv'
    OBVIOUS
<1>1. CASE OpenText
    BY <1>1, OpenTextStep
<1>2. CASE ReadNumber \/ ScanNumber
    BY <1>2, ReadNumberStep
<1>3. CASE Alarm
    BY <1>3, AlarmStep
<1>4. CASE UseNumber
    BY <1>4, UseNumberStep
<1>5. CASE PrintChar
    BY <1>5, PrintCharStep
<1>6. CASE EndLine \/ NextNumber
    BY <1>6, EndLineStep
<1>7. CASE UNCHANGED linesVars
  <2>1. TableInv'
      BY <1>7 DEF LinesInv, TableInv, linesVars
  <2>2. LateInv'
      BY <1>7 DEF LinesInv, LateInv, linesVars
  <2>3. PrintInv'
      BY <1>7 DEF LinesInv, PrintInv, linesVars, CountLines
  <2> QED  BY <2>1, <2>2, <2>3 DEF LinesInv
<1> QED  BY <1>1, <1>2, <1>3, <1>4, <1>5, <1>6, <1>7 DEF LinesNext, ScanLines, KeyLines, PrintLine

\* What was printed is the line, and what is left follows in the file.
LEMMA PrintedIsLine == ASSUME LinesInv PROVE LineIsItsNumber
<1>1. ASSUME lineAt = "printed" PROVE out = LineText(needLine)
  <2>1. /\ needLine \in 1..CountLines /\ out \in Seq(Nat) /\ Len(out) = lines[needLine][2]
        /\ \A i \in 1..Len(out) : out[i] = text[lines[needLine][1] + i]
      BY <1>1 DEF LinesInv, PrintInv
  <2>2. /\ LineText(needLine) \in Seq(Nat) /\ Len(LineText(needLine)) = lines[needLine][2]
        /\ \A i \in 1..lines[needLine][2] : LineText(needLine)[i] = text[lines[needLine][1] + i]
      BY <1>1, <2>1, LineTextIs DEF LinesInv
  <2>3. \A i \in 1..Len(out) : out[i] = LineText(needLine)[i]
      BY <2>1, <2>2
  <2> QED  BY <2>1, <2>2, <2>3, SeqEqual
<1>2. ASSUME lineAt = "print"
      PROVE  LET remains == SubSeq(LineText(needLine), Len(out) + 1, lines[needLine][2]) IN
             \A i \in DOMAIN remains : offset + i \in DOMAIN text /\ text[offset + i] = remains[i]
  <2> DEFINE whole == LineText(needLine)
             l == lines[needLine][2]
             first == Len(out) + 1
             remains == SubSeq(whole, first, l)
             from == lines[needLine][1]
  <2>1. /\ needLine \in 1..CountLines /\ out \in Seq(Nat) /\ Len(out) <= l /\ offset = from + Len(out)
      BY <1>2 DEF LinesInv, PrintInv
  <2>2. /\ whole \in Seq(Nat) /\ Len(whole) = l /\ l \in Nat /\ from \in Nat /\ from + l < Len(text)
        /\ \A i \in 1..l : whole[i] = text[from + i]
      BY <1>2, <2>1, LineTextIs DEF LinesInv
  <2>3. Len(out) \in Nat /\ Len(text) \in Nat /\ DOMAIN text = 1..Len(text)
      BY <2>1, LenProperties DEF LinesInv, TableInv
  <2> HIDE DEF whole, l, from
  <2>4. first \in Nat /\ first >= 1
      BY <2>3
  <2>5. \A i \in first..l : whole[i] \in Nat
    <3>1. \A i \in first..l : i \in 1..Len(whole)
        BY <2>2, <2>4
    <3> QED  BY <2>2, <3>1, ElementOfSeq
  <2>6. /\ remains \in Seq(Nat) /\ Len(remains) = IF first <= l THEN l - first + 1 ELSE 0
        /\ \A i \in 1..(l - first + 1) : remains[i] = whole[first + i - 1]
    <3>1. first \in Int /\ l \in Int
        BY <2>2, <2>4
    <3> HIDE DEF first
    <3> QED  BY <2>5, <3>1, SubSeqProperties
  <2> HIDE DEF remains
  <2>7. DOMAIN remains = 1..Len(remains)
      BY <2>6, LenProperties
  <2>8. ASSUME NEW i \in DOMAIN remains PROVE offset + i \in DOMAIN text /\ text[offset + i] = remains[i]
    <3>1. i \in 1..(l - first + 1) /\ i \in Nat
        BY <2>2, <2>4, <2>6, <2>7
    <3>2. first + i - 1 \in 1..l /\ from + (first + i - 1) = offset + i
      <4> DEFINE n == Len(out)
      <4>1. n \in Nat /\ first = n + 1 /\ offset = from + n /\ from \in Nat /\ l \in Nat
          BY <2>1, <2>2, <2>3
      <4> HIDE DEF n, first
      <4> QED  BY <3>1, <4>1
    <3>3. remains[i] = text[offset + i]
      <4>1. remains[i] = whole[first + i - 1]
          BY <2>6, <3>1
      <4>2. whole[first + i - 1] = text[from + (first + i - 1)]
          BY <2>2, <3>2
      <4> QED  BY <3>2, <4>1, <4>2
    <3>4. offset + i \in 1..Len(text)
      <4> DEFINE n == Len(out)
                 m == Len(text)
      <4>1. n \in Nat /\ m \in Nat /\ i <= l - n /\ offset = from + n /\ l \in Nat /\ from \in Nat /\ from + l < m
          BY <2>1, <2>2, <2>3, <3>1
      <4> HIDE DEF n, m
      <4>2. offset + i \in 1..m
          BY <3>1, <4>1
      <4> QED  BY <4>2 DEF m
    <3> QED  BY <2>3, <3>3, <3>4
  <2> QED  BY <2>8 DEF remains, whole, l
<1> QED  BY <1>1, <1>2 DEF LineIsItsNumber

\* Whatever the file, and whenever the alarm comes, the line that is printed is the one
\* with that number, and the programs that read keys print at most one line after they
\* have shown the whole file.
THEOREM LinesByTheirNumbers == LinesSpec => []LineIsRight
<1>1. LinesInit => LinesInv
    BY InitLinesInv
<1>2. LinesInv /\ [LinesNext]_linesVars => LinesInv'
    BY LinesStep
<1>3. LinesInv => LineIsRight
    BY PrintedIsLine DEF LinesInv, LateInv, LineIsRight, OneLineAfterAlarm
<1> QED  BY <1>1, <1>2, <1>3, PTL DEF LinesSpec

-----------------------------------------------------------------------------
(* 18_ls, 3_file_access. *)

\* The greatest number of a set is the one that Max takes.
LEMMA GreatestIs ==
    ASSUME NEW T, T \subseteq Int, NEW x \in T, \A y \in T : x >= y
    PROVE  Max(T) = x
<1>1. \E z \in T : \A y \in T : z >= y
    OBVIOUS
<1>2. Max(T) \in T /\ \A y \in T : Max(T) >= y
    BY <1>1, Zenon DEF Max
<1>3. Max(T) \in Int /\ x \in Int /\ Max(T) >= x /\ x >= Max(T)
    BY <1>2
<1> QED  BY <1>3

\* k is the place of the last slash of a path that has letters behind it, or 0.
LastSlash(p, k) ==
    /\ k \in 0..(Len(p) - 1) /\ (k # 0 => p[k] = "/")
    /\ \A i \in (k + 1)..Len(p) : p[i] # "/"

\* There is such a place in every path that does not end with a slash.
LEMMA LastSlashExists ==
    ASSUME NEW S, NEW p \in Seq(S), Len(p) \in Nat \ {0}, p[Len(p)] # "/"
    PROVE  \E k : LastSlash(p, k)
<1> DEFINE T == {k \in 0..(Len(p) - 1) : \A i \in (k + 1)..Len(p) : p[i] # "/"}
<1>1. Len(p) - 1 \in T
    OBVIOUS
<1>2. PICK k \in T : \A j \in T : k <= j
  <2>1. T \subseteq Nat
      OBVIOUS
  <2> HIDE DEF T
  <2> QED  BY <1>1, <2>1, LeastNatural
<1>3. k # 0 => p[k] = "/"
  <2> SUFFICES ASSUME k # 0, p[k] # "/" PROVE FALSE
      OBVIOUS
  <2>1. k - 1 \in 0..(Len(p) - 1) /\ ~(k <= k - 1)
      BY <1>2
  <2>2. \A i \in (k - 1 + 1)..Len(p) : p[i] # "/"
    <3> TAKE i \in (k - 1 + 1)..Len(p)
    <3>1. i = k \/ i \in (k + 1)..Len(p)
        BY <1>2
    <3> QED  BY <1>2, <3>1
  <2>3. k - 1 \in T
      BY <2>1, <2>2
  <2> HIDE DEF T
  <2> QED  BY <1>2, <2>1, <2>3
<1> QED  BY <1>2, <1>3 DEF LastSlash

\* The end of a path from a place on.
LEMMA PathEnd ==
    ASSUME NEW S, NEW p \in Seq(S), Len(p) \in Nat, NEW i \in 1..Len(p)
    PROVE  /\ SubSeq(p, i, Len(p)) \in Seq(S) /\ Len(SubSeq(p, i, Len(p))) = Len(p) - i + 1
           /\ \A j \in 1..(Len(p) - i + 1) : SubSeq(p, i, Len(p))[j] = p[i + j - 1]
           /\ DOMAIN SubSeq(p, i, Len(p)) = 1..(Len(p) - i + 1)
<1> DEFINE n == Len(p)
<1>1. i \in Int /\ n \in Int /\ i <= n
    OBVIOUS
<1>2. \A j \in i..n : p[j] \in S
    BY ElementOfSeq
<1> HIDE DEF n
<1>3. /\ SubSeq(p, i, n) \in Seq(S) /\ Len(SubSeq(p, i, n)) = n - i + 1
      /\ \A j \in 1..(n - i + 1) : SubSeq(p, i, n)[j] = p[i + j - 1]
    BY <1>1, <1>2, SubSeqProperties
<1>4. DOMAIN SubSeq(p, i, n) = 1..(n - i + 1)
    BY <1>3, LenProperties
<1> QED  BY <1>3, <1>4 DEF n

\* The last part of a path is what follows its last slash.
LEMMA LastPartIs ==
    ASSUME NEW S, NEW p \in Seq(S), Len(p) \in Nat \ {0}, NEW k, LastSlash(p, k)
    PROVE  LastPart(p) = SubSeq(p, k + 1, Len(p))
<1> DEFINE Fine(s) == /\ \A i \in DOMAIN s : s[i] # "/"
                      /\ Len(s) < Len(p) => p[Len(p) - Len(s)] = "/"
           Rests == {SubSeq(p, i, Len(p)) : i \in 1..Len(p)}
           s0 == SubSeq(p, k + 1, Len(p))
<1>1. k \in Nat /\ k + 1 \in 1..Len(p)
    BY DEF LastSlash
<1>2. s0 \in Rests
    BY <1>1
<1>3. Fine(s0)
  <2>1. /\ Len(s0) = Len(p) - (k + 1) + 1 /\ DOMAIN s0 = 1..(Len(p) - (k + 1) + 1)
        /\ \A j \in 1..(Len(p) - (k + 1) + 1) : s0[j] = p[k + 1 + j - 1]
      BY <1>1, PathEnd
  <2>2. \A j \in DOMAIN s0 : s0[j] # "/"
    <3> TAKE j \in DOMAIN s0
    <3>1. k + 1 + j - 1 \in (k + 1)..Len(p)
        BY <1>1, <2>1
    <3> HIDE DEF s0
    <3> QED  BY <2>1, <3>1 DEF LastSlash
  <2>3. Len(s0) < Len(p) => p[Len(p) - Len(s0)] = "/"
    <3>1. Len(p) - Len(s0) = k /\ (Len(s0) < Len(p) => k # 0)
        BY <1>1, <2>1
    <3> QED  BY <3>1 DEF LastSlash
  <2> QED  BY <2>2, <2>3
<1>4. ASSUME NEW s \in Rests, Fine(s) PROVE s = s0
  <2>1. PICK i \in 1..Len(p) : s = SubSeq(p, i, Len(p))
      OBVIOUS
  <2>2. /\ Len(s) = Len(p) - i + 1 /\ DOMAIN s = 1..(Len(p) - i + 1)
        /\ \A j \in 1..(Len(p) - i + 1) : s[j] = p[i + j - 1]
      BY <2>1, PathEnd
  <2>3. ~(i <= k)
    <3> SUFFICES ASSUME i <= k PROVE FALSE
        OBVIOUS
    <3>1. k - i + 1 \in 1..(Len(p) - i + 1) /\ i + (k - i + 1) - 1 = k /\ k # 0
        BY <1>1
    <3>2. s[k - i + 1] = p[k] /\ k - i + 1 \in DOMAIN s
        BY <2>2, <3>1
    <3>3. s[k - i + 1] # "/"
        BY <1>4, <3>2
    <3> QED  BY <3>1, <3>2, <3>3 DEF LastSlash
  <2>4. ~(i > k + 1)
    <3> SUFFICES ASSUME i > k + 1 PROVE FALSE
        OBVIOUS
    <3>1. Len(s) < Len(p) /\ Len(p) - Len(s) = i - 1 /\ i - 1 \in (k + 1)..Len(p)
        BY <1>1, <2>2
    <3>2. p[i - 1] = "/"
        BY <1>4, <3>1
    <3> QED  BY <3>1, <3>2 DEF LastSlash
  <2>5. i = k + 1
      BY <1>1, <2>3, <2>4
  <2> QED  BY <2>1, <2>5
<1>5. LastPart(p) = CHOOSE s \in Rests : Fine(s)
    BY Zenon DEF LastPart
<1> HIDE DEF Rests, Fine, s0
<1>6. \E s \in Rests : Fine(s)
    BY <1>2, <1>3
<1>7. LastPart(p) \in Rests /\ Fine(LastPart(p))
    BY <1>5, <1>6, Zenon
<1>8. LastPart(p) = s0
    BY <1>4, <1>7
<1> QED  BY <1>8 DEF s0

\* basename gives it.
LEMMA BasenameIs ==
    ASSUME NEW S, NEW p \in Seq(S), Len(p) \in Nat \ {0}, NEW k, LastSlash(p, k)
    PROVE  basename(p) = SubSeq(p, k + 1, Len(p))
<1> DEFINE letters == {i \in DOMAIN p : p[i] # "/"}
           slashes(last) == {i \in 1..last : p[i] = "/"}
<1>1. k \in Nat /\ k < Len(p) /\ DOMAIN p = 1..Len(p)
    BY LenProperties DEF LastSlash
<1>2. Max(letters) = Len(p) /\ letters # {}
  <2>1. Len(p) \in letters
      BY <1>1 DEF LastSlash
  <2>2. letters \subseteq Int /\ \A y \in letters : Len(p) >= y
      BY <1>1
  <2> HIDE DEF letters
  <2> QED  BY <2>1, <2>2, GreatestIs
<1>3. (IF slashes(Len(p)) = {} THEN 0 ELSE Max(slashes(Len(p)))) = k
  <2>1. CASE k = 0
    <3>1. slashes(Len(p)) = {}
        BY <2>1 DEF LastSlash
    <3> QED  BY <2>1, <3>1
  <2>2. CASE k # 0
    <3>1. k \in slashes(Len(p))
        BY <1>1, <2>2 DEF LastSlash
    <3>2. slashes(Len(p)) \subseteq Int
        OBVIOUS
    <3>3. \A y \in slashes(Len(p)) : k >= y
      <4> SUFFICES ASSUME NEW y \in 1..Len(p), p[y] = "/" PROVE k >= y
          OBVIOUS
      <4>1. y \notin (k + 1)..Len(p)
          BY DEF LastSlash
      <4> QED  BY <1>1, <4>1
    <3> DEFINE T == slashes(Len(p))
    <3>4. k \in T /\ T \subseteq Int /\ \A y \in T : k >= y
        BY <3>1, <3>2, <3>3
    <3> HIDE DEF T
    <3>5. Max(T) = k /\ T # {}
        BY <3>4, GreatestIs
    <3> QED  BY <3>5 DEF T
  <2> QED  BY <2>1, <2>2
<1>4. basename(p) = IF letters = {} THEN <<"/">>
                    ELSE SubSeq(p, (IF slashes(Max(letters)) = {} THEN 0 ELSE Max(slashes(Max(letters)))) + 1, Max(letters))
    BY Zenon DEF basename
<1> HIDE DEF letters
<1>5. basename(p) = SubSeq(p, (IF slashes(Len(p)) = {} THEN 0 ELSE Max(slashes(Len(p)))) + 1, Len(p))
    BY <1>2, <1>4, Zenon
<1> HIDE DEF slashes
<1> QED  BY <1>3, <1>5, Zenon

\* The older program finds it, too, but right below the root.
LEMMA PrintFilenameIs ==
    ASSUME NEW S, NEW p \in Seq(S), Len(p) \in Nat \ {0}, NEW k, LastSlash(p, k)
    PROVE  printFilename(p) = IF k >= 2 THEN SubSeq(p, k + 1, Len(p)) ELSE p
<1> DEFINE T == {i \in 2..Len(p) : p[i] = "/"}
<1>1. k \in Nat /\ k < Len(p)
    BY DEF LastSlash
<1>2. printFilename(p) = IF T = {} THEN p ELSE SubSeq(p, Max(T) + 1, Len(p))
    BY Zenon DEF printFilename
<1>3. \A y \in T : k >= y
  <2> SUFFICES ASSUME NEW y \in 2..Len(p), p[y] = "/" PROVE k >= y
      OBVIOUS
  <2>1. y \notin (k + 1)..Len(p)
      BY DEF LastSlash
  <2> QED  BY <1>1, <2>1
<1>4. CASE k >= 2
  <2>1. k \in T /\ T \subseteq Int
      BY <1>1, <1>4 DEF LastSlash
  <2> HIDE DEF T
  <2>2. Max(T) = k
      BY <1>3, <2>1, GreatestIs
  <2> QED  BY <1>2, <1>4, <2>1, <2>2
<1>5. CASE ~(k >= 2)
  <2>1. T = {}
      BY <1>1, <1>3, <1>5
  <2> QED  BY <1>2, <1>5, <2>1
<1> QED  BY <1>4, <1>5

\* What is true of a whole line about the file f.
TrueLine(a, f, whole) ==
    /\ BeginsTrue(f, whole.columns)
    /\ whole.ended =>
        /\ Last(f.path) # "/" =>
              Last(whole.columns) = IF a = "old_ls" /\ Tail(f.path) = LastPart(f.path) /\ f.path[1] = "/"
                                   THEN f.path ELSE LastPart(f.path)
        /\ f.type = "regular" /\ f.size <= INT_MAX => whole.columns[5] = f.size
        /\ Len(whole.columns) < 7 => a = "ls"

\* A size that an int holds is printed as it is.
LEMMA SizeFits ==
    ASSUME NEW f, f.type = "regular", f.size \in Nat, f.size <= INT_MAX
    PROVE  printSize(f) = f.size
<1> DEFINE half == INT_MAX + 1
           s == f.size
<1>1. half \in Nat /\ s \in Nat /\ s + half < 2 * half /\ half > 0
    BY FilesAssumption
<1>2. printSize(f) = ((s + half) % (2 * half)) - half
    BY DEF printSize
<1> HIDE DEF half, s
<1>3. (s + half) % (2 * half) = s + half
  <2> DEFINE x == s + half
             y == 2 * half
  <2>1. x \in Nat /\ y \in Nat /\ x < y
      BY <1>1
  <2> HIDE DEF x, y
  <2>2. x % y = x
      BY <2>1
  <2> QED  BY <2>2 DEF x, y
<1>4. printSize(f) = s
    BY <1>1, <1>2, <1>3
<1> QED  BY <1>4 DEF s

\* The type and the rights are those of the file.
LEMMA BeginningIsTrue ==
    ASSUME NEW f, NEW c, Len(c) >= 2 => c[1] = printType(f) /\ c[2] = printRights(f)
    PROVE  BeginsTrue(f, c)
<1>1. printType(f) = "d" <=> f.type = "directory"
    BY DEF printType
<1>2. printType(f) = "-" <=> f.type = "regular"
    BY DEF printType
<1> DEFINE nine == <<"r", "w", "x", "r", "w", "x", "r", "w", "x">>
           three == <<"r", "w", "x">>
<1>3. ASSUME NEW j \in 1..9
      PROVE  printRights(f)[j] = IF j - 1 \in f.rights THEN nine[j] ELSE "-"
  <2>1. printRights(f)[j] = IF j - 1 \in f.rights THEN three[((j - 1) % 3) + 1] ELSE "-"
      BY Zenon DEF printRights
  <2>2. three[((j - 1) % 3) + 1] = nine[j]
    <3>1. j \in {1, 2, 3, 4, 5, 6, 7, 8, 9}
        OBVIOUS
    <3>2. CASE j \in {1, 2, 3}
        BY <3>2
    <3>3. CASE j \in {4, 5, 6}
        BY <3>3
    <3>4. CASE j \in {7, 8, 9}
        BY <3>4
    <3> QED  BY <3>1, <3>2, <3>3, <3>4
  <2> HIDE DEF nine, three
  <2> QED  BY <2>1, <2>2
<1> QED  BY <1>1, <1>2, <1>3, Zenon DEF BeginsTrue

\* The last column of a file that is listed is its name; and for the older program
\* the part of its path that printFilename finds.
LEMMA NamesAreTrue ==
    ASSUME NEW f \in LsFiles, Last(f.path) # "/"
    PROVE  /\ basename(f.path) = LastPart(f.path)
           /\ printFilename(f.path) = IF Tail(f.path) = LastPart(f.path) /\ f.path[1] = "/"
                                      THEN f.path ELSE LastPart(f.path)
<1> DEFINE p == f.path
           S == {p[i] : i \in DOMAIN p}
<1>1. p \in Seq(S) /\ p # << >>
    BY FilesAssumption
<1> HIDE DEF S, p
<1>2. Len(p) \in Nat \ {0}
    BY <1>1, EmptySeq, LenProperties
<1>3. p[Len(p)] # "/"
    BY DEF Last, p
<1>4. PICK k : LastSlash(p, k)
    BY <1>1, <1>2, <1>3, LastSlashExists
<1>5. /\ LastPart(p) = SubSeq(p, k + 1, Len(p)) /\ basename(p) = SubSeq(p, k + 1, Len(p))
      /\ printFilename(p) = IF k >= 2 THEN SubSeq(p, k + 1, Len(p)) ELSE p
    BY <1>1, <1>2, <1>4, LastPartIs, BasenameIs, PrintFilenameIs
<1>6. k \in Nat /\ k + 1 \in 1..Len(p)
    BY <1>2, <1>4 DEF LastSlash
<1>7. /\ Len(SubSeq(p, k + 1, Len(p))) = Len(p) - (k + 1) + 1
    BY <1>1, <1>2, <1>6, PathEnd
<1>8. Tail(p) = SubSeq(p, 2, Len(p)) /\ Len(Tail(p)) = Len(p) - 1
    BY <1>1, <1>2, HeadTailProperties, EmptySeq
<1>9. CASE k >= 2
  <2>1. Len(Tail(p)) # Len(SubSeq(p, k + 1, Len(p)))
      BY <1>2, <1>6, <1>7, <1>8, <1>9
  <2>2. Tail(p) # LastPart(p)
      BY <1>5, <2>1
  <2> QED  BY <1>5, <1>9, <2>2 DEF p
<1>10. CASE k = 1
  <2>1. p[1] = "/" /\ Tail(p) = LastPart(p)
      BY <1>4, <1>5, <1>8, <1>10 DEF LastSlash
  <2> QED  BY <1>5, <1>10, <2>1 DEF p
<1>11. CASE k = 0
  <2>1. p[1] # "/"
      BY <1>2, <1>4, <1>11 DEF LastSlash
  <2>2. SubSeq(p, 1, Len(p)) = p
    <3> DEFINE s == SubSeq(p, 1, Len(p))
    <3>1. 1 \in 1..Len(p)
        BY <1>2
    <3>2. s \in Seq(S) /\ Len(s) = Len(p) - 1 + 1 /\ \A j \in 1..(Len(p) - 1 + 1) : s[j] = p[1 + j - 1]
        BY <1>1, <1>2, <3>1, PathEnd
    <3> HIDE DEF s
    <3>3. Len(s) = Len(p) /\ \A j \in 1..Len(s) : s[j] = p[j]
        BY <1>2, <3>2
    <3>4. s = p
        BY <1>1, <3>2, <3>3, SeqEqual
    <3> QED  BY <3>4 DEF s
  <2> QED  BY <1>5, <1>11, <2>1, <2>2 DEF p
<1> QED  BY <1>6, <1>9, <1>10, <1>11

\* What printInfo prints about a file is true, and ends the line unless it fails.
LEMMA PrintInfoIs ==
    ASSUME NEW f \in LsFiles, NEW ret \in printInfo(f)
    PROVE  TrueLine("ls", f, ret[1]) /\ (ret[2] = -1 \/ ret[1].ended)
<1> DEFINE d == printType(f)
           u == printRights(f)
           z == printSize(f)
           b == basename(f.path)
           short == <<d, u, "owner", "group", z, b>>
           long == <<d, u, "owner", "group", z, "time", b>>
<1>1. /\ short[5] = z /\ Last(short) = b
      /\ long[5] = z /\ Last(long) = b
    BY DEF Last
<1>2. Last(f.path) # "/" => b = LastPart(f.path)
    BY NamesAreTrue
<1>3. f.type = "regular" /\ f.size <= INT_MAX => z = f.size
    BY FilesAssumption, SizeFits
<1>4. ASSUME NEW c \in {short, long}, ret[1] = Line(c, TRUE)
      PROVE  TrueLine("ls", f, ret[1]) /\ ret[1].ended
  <2>1. ret[1].columns = c /\ ret[1].ended
      BY <1>4 DEF Line
  <2>2. c[5] = z /\ Last(c) = b /\ c[1] = d /\ c[2] = u
      BY <1>1
  <2>3. BeginsTrue(f, c)
      BY <2>2, BeginningIsTrue, Zenon
  <2> HIDE DEF short, long, z, b
  <2> QED  BY <1>2, <1>3, <2>1, <2>2, <2>3 DEF TrueLine
<1>5. ASSUME NEW c \in {<< >>, <<d, u>>, <<d, u, "owner">>}, ret[1] = Line(c, FALSE), ret[2] = -1
      PROVE  TrueLine("ls", f, ret[1]) /\ ret[2] = -1
  <2>1. ret[1].ended = FALSE /\ ret[1].columns = c
      BY <1>5 DEF Line
  <2>2. Len(c) >= 2 => c[1] = d /\ c[2] = u
      BY <1>5
  <2>3. BeginsTrue(f, c)
      BY <2>2, BeginningIsTrue, Zenon
  <2> QED  BY <1>5, <2>1, <2>3, Zenon DEF TrueLine
<1>6. (\E c \in {<< >>, <<d, u>>, <<d, u, "owner">>} : ret[1] = Line(c, FALSE) /\ ret[2] = -1)
        \/ (\E c \in {short, long} : ret[1] = Line(c, TRUE))
  <2> DEFINE cuts == {<< >>, <<d, u>>, <<d, u, "owner">>}
             broken == {Line(c, FALSE) : c \in cuts}
             whole == {Line(c, TRUE) : c \in {short, long}}
  <2>1. ret \in (broken \X {-1}) \cup (whole \X {-1, 0})
      BY Zenon DEF printInfo
  <2> HIDE DEF short, long, cuts
  <2>2. \A l \in broken : \E c \in cuts : l = Line(c, FALSE)
      BY Zenon
  <2>3. \A l \in whole : \E c \in {short, long} : l = Line(c, TRUE)
      BY Zenon
  <2> HIDE DEF broken, whole
  <2>4. (ret[1] \in broken /\ ret[2] = -1) \/ ret[1] \in whole
      BY <2>1
  <2> QED  BY <2>2, <2>3, <2>4, Zenon DEF cuts
<1> HIDE DEF short, long
<1> QED  BY <1>4, <1>5, <1>6, Zenon

\* The same of the older one.
LEMMA PrintInfoOldIs ==
    ASSUME NEW f \in LsFiles, NEW ret \in printInfoOld(f)
    PROVE  /\ TrueLine("old_ls", f, ret[1])
           /\ (ret[2] = 0 /\ ret[1].ended = TRUE) \/ (ret[2] = 1 /\ ret[1].ended = FALSE)
<1> DEFINE d == printType(f)
           u == printRights(f)
           z == printSize(f)
           b == printFilename(f.path)
           long == <<d, u, "owner", "group", z, "time", b>>
<1>1. long[5] = z /\ Last(long) = b /\ Len(long) = 7 /\ long[1] = d /\ long[2] = u
    BY DEF Last
<1>2. Last(f.path) # "/" => b = IF Tail(f.path) = LastPart(f.path) /\ f.path[1] = "/"
                                THEN f.path ELSE LastPart(f.path)
    BY NamesAreTrue
<1>3. f.type = "regular" /\ f.size <= INT_MAX => z = f.size
    BY FilesAssumption, SizeFits
<1>4. CASE ret = <<Line(long, TRUE), 0>>
  <2>1. ret[1].columns = long /\ ret[1].ended = TRUE
      BY <1>4 DEF Line
  <2>2. ~(Len(ret[1].columns) < 7) /\ Last(ret[1].columns) = b /\ ret[1].columns[5] = z
      BY <1>1, <2>1
  <2>3. BeginsTrue(f, ret[1].columns)
      BY <1>1, <2>1, BeginningIsTrue, Zenon
  <2>4. ret[2] = 0
      BY <1>4
  <2> HIDE DEF long, z, b
  <2>5. TrueLine("old_ls", f, ret[1])
      BY <1>2, <1>3, <2>1, <2>2, <2>3, Zenon DEF TrueLine
  <2> QED  BY <2>1, <2>4, <2>5
<1>5. ASSUME NEW c \in {<< >>, <<d, u>>, <<d, u, "owner">>, <<d, u, "owner", "group", z>>},
             ret[1] = Line(c, FALSE), ret[2] = 1
      PROVE  TrueLine("old_ls", f, ret[1]) /\ ret[2] = 1 /\ ret[1].ended = FALSE
  <2>1. ret[1].ended = FALSE /\ ret[1].columns = c
      BY <1>5 DEF Line
  <2>2. Len(c) >= 2 => c[1] = d /\ c[2] = u
      BY <1>5
  <2>3. BeginsTrue(f, c)
      BY <2>2, BeginningIsTrue, Zenon
  <2>4. TrueLine("old_ls", f, ret[1])
      BY <2>1, <2>3, Zenon DEF TrueLine
  <2> QED  BY <1>5, <2>1, <2>4, Zenon
<1>6. (\E c \in {<< >>, <<d, u>>, <<d, u, "owner">>, <<d, u, "owner", "group", z>>} :
          ret[1] = Line(c, FALSE) /\ ret[2] = 1) \/ ret = <<Line(long, TRUE), 0>>
  <2> DEFINE cuts == {<< >>, <<d, u>>, <<d, u, "owner">>, <<d, u, "owner", "group", z>>}
             broken == {Line(c, FALSE) : c \in cuts}
  <2>1. ret \in (broken \X {1}) \cup {<<Line(long, TRUE), 0>>}
      BY Zenon DEF printInfoOld
  <2> HIDE DEF long, cuts
  <2>2. \A l \in broken : \E c \in cuts : l = Line(c, FALSE)
      BY Zenon
  <2> HIDE DEF broken
  <2>3. (ret[1] \in broken /\ ret[2] = 1) \/ ret = <<Line(long, TRUE), 0>>
      BY <2>1
  <2> QED  BY <2>2, <2>3, Zenon DEF cuts
<1>7. CASE \E c \in {<< >>, <<d, u>>, <<d, u, "owner">>, <<d, u, "owner", "group", z>>} :
              ret[1] = Line(c, FALSE) /\ ret[2] = 1
  <2>1. TrueLine("old_ls", f, ret[1]) /\ ret[2] = 1 /\ ret[1].ended = FALSE
      BY <1>5, <1>7, Zenon
  <2> HIDE DEF d, u, z, b, long
  <2> QED  BY <2>1
<1> HIDE DEF d, u, z, b, long
<1> QED  BY <1>4, <1>6, <1>7

\* The lines that can be printed.
PrintedLines == UNION {{ret[1] : ret \in printInfo(f) \cup printInfoOld(f)} : f \in LsFiles}

\* The lines are of the files so far, true, and whole but perhaps the last.
ListInv ==
    /\ listed \in Seq(LsFiles) /\ listing \in Seq(PrintedLines) /\ Len(listing) <= Len(listed)
    /\ asks \in {"none", "access"} => listing = << >>
    /\ asks \in {"ls", "old_ls"} /\ asksAt # "end" =>
          exitCode = -1 /\ Len(listing) < Len(listed) /\ \A i \in 1..Len(listing) : listing[i].ended
    /\ asks \in {"ls", "old_ls"} /\ exitCode = 0 =>
          Len(listing) = Len(listed) /\ \A i \in 1..Len(listing) : listing[i].ended
    /\ asks = "old_ls" /\ exitCode = 1 => listing[Len(listing)].ended = FALSE
    /\ \A i \in 1..Len(listing) :
        (i < Len(listing) => listing[i].ended) /\ TrueLine(asks, listed[i], listing[i])

\* The second opening is the last, and no change of the user follows.
OpeningsInv ==
    /\ openings \in Seq(BOOLEAN)
    /\ asks = "none" => openings = << >> /\ exitCode = -1
    /\ asks = "access" /\ asksAt = "open" => Len(openings) = 0
    /\ asks = "access" /\ asksAt \in {"setuid", "again"} => Len(openings) = 1
    /\ asks = "access" => asksAt \in {"open", "setuid", "again", "end"} /\ AccessIsReal

AskInv == ListInv /\ OpeningsInv

\* At the start nothing was asked.
LEMMA InitAskInv == FilesInit => AskInv
<1> SUFFICES ASSUME FilesInit PROVE AskInv
    OBVIOUS
<1>1. listed = << >> /\ listing = << >> /\ openings = << >> /\ asks = "none" /\ exitCode = -1
    BY DEF FilesInit
<1>2. << >> \in Seq(LsFiles) /\ << >> \in Seq(PrintedLines) /\ << >> \in Seq(BOOLEAN) /\ Len(<< >>) = 0
    BY EmptySeq
<1>3. ListInv
    BY <1>1, <1>2 DEF ListInv
<1>4. OpeningsInv
    BY <1>1, <1>2 DEF OpeningsInv
<1> QED  BY <1>3, <1>4 DEF AskInv

\* A line more, of the next file.
LEMMA OneMoreLine ==
    ASSUME ListInv, asks \in {"ls", "old_ls"}, asksAt = "list", NEW whole \in PrintedLines,
           TrueLine(asks, listed[Len(listing) + 1], whole), listing' = Append(listing, whole),
           UNCHANGED <<asks, listed>>, asksAt' \in {"list", "end"},
           asksAt' = "list" => whole.ended /\ exitCode' = -1 /\ Len(listing) + 1 # Len(listed),
           exitCode' = 0 => Len(listing) + 1 = Len(listed) /\ whole.ended,
           asks = "old_ls" /\ exitCode' = 1 => whole.ended = FALSE
    PROVE  ListInv'
<1> DEFINE n == Len(listing)
<1>1. /\ listed \in Seq(LsFiles) /\ listing \in Seq(PrintedLines) /\ n < Len(listed)
      /\ \A i \in 1..n : listing[i].ended /\ TrueLine(asks, listed[i], listing[i])
    BY DEF ListInv
<1>2. n \in Nat /\ Len(listed) \in Nat
    BY <1>1, LenProperties
<1>3. /\ listing' \in Seq(PrintedLines) /\ Len(listing') = n + 1 /\ listing'[n + 1] = whole
      /\ \A i \in 1..n : listing'[i] = listing[i]
    BY <1>1, AppendProperties
<1> HIDE DEF n
<1>4. \A i \in 1..Len(listing') :
        (i < Len(listing') => listing'[i].ended) /\ TrueLine(asks, listed[i], listing'[i])
  <2> TAKE i \in 1..Len(listing')
  <2>1. CASE i = n + 1
      BY <1>2, <1>3, <2>1 DEF n
  <2>2. CASE i # n + 1
    <3>1. i \in 1..n
        BY <1>2, <1>3, <2>2
    <3> QED  BY <1>1, <1>3, <3>1
  <2> QED  BY <2>1, <2>2
<1>5. asksAt' # "end" \/ exitCode' = 0 => \A i \in 1..Len(listing') : listing'[i].ended
  <2> SUFFICES ASSUME asksAt' # "end" \/ exitCode' = 0, NEW i \in 1..Len(listing') PROVE listing'[i].ended
      OBVIOUS
  <2>1. CASE i = n + 1
      BY <1>3, <2>1
  <2>2. CASE i # n + 1
    <3>1. i \in 1..n
        BY <1>2, <1>3, <2>2
    <3> QED  BY <1>1, <1>3, <3>1
  <2> QED  BY <2>1, <2>2
<1>6. Len(listing') <= Len(listed) /\ (asksAt' # "end" => Len(listing') < Len(listed))
    BY <1>1, <1>2, <1>3 DEF n
<1>7. asks' = asks /\ listed' = listed
    OBVIOUS
<1>8. asksAt' # "end" => exitCode' = -1
    OBVIOUS
<1>9. /\ exitCode' = 0 => Len(listing') = Len(listed)
      /\ asks = "old_ls" /\ exitCode' = 1 => listing'[Len(listing')].ended = FALSE
    BY <1>3 DEF n
<1>10. asks \notin {"none", "access"}
    OBVIOUS
<1> QED  BY <1>1, <1>3, <1>4, <1>5, <1>6, <1>7, <1>8, <1>9, <1>10 DEF ListInv

\* The turns of both programs.
LEMMA ListFileStep == ASSUME AskInv, ListFile \/ ListFileOld PROVE ListInv'
<1>1. /\ asks \in {"ls", "old_ls"} /\ asksAt = "list" /\ ListInv
    BY DEF AskInv, ListFile, ListFileOld
<1> DEFINE n == Len(listing)
           f == listed[n + 1]
<1>2. f \in LsFiles
  <2>1. n + 1 \in 1..Len(listed) /\ listed \in Seq(LsFiles)
      BY <1>1, LenProperties DEF ListInv
  <2> QED  BY <2>1, ElementOfSeq
<1>3. exitCode = -1
    BY <1>1 DEF ListInv
<1>4. CASE ListFile
  <2>1. PICK ret \in printInfo(f) :
            /\ listing' = Append(listing, ret[1])
            /\ IF ret[2] = -1 THEN exitCode' = 1 /\ asksAt' = "end"
               ELSE IF n + 1 = Len(listed) THEN exitCode' = 0 /\ asksAt' = "end"
               ELSE UNCHANGED <<exitCode, asksAt>>
      BY <1>4 DEF ListFile
  <2>2. asks = "ls" /\ asks' = asks /\ listed' = listed
      BY <1>4 DEF ListFile
  <2> HIDE DEF f
  <2>3. TrueLine(asks, f, ret[1]) /\ (ret[2] = -1 \/ ret[1].ended)
      BY <1>2, <2>2, PrintInfoIs
  <2>4. ret[1] \in PrintedLines
      BY <1>2 DEF PrintedLines
  <2>5. /\ asksAt' \in {"list", "end"}
        /\ asksAt' = "list" => ret[1].ended /\ exitCode' = -1 /\ n + 1 # Len(listed)
        /\ exitCode' = 0 => n + 1 = Len(listed) /\ ret[1].ended
        /\ asks = "old_ls" /\ exitCode' = 1 => ret[1].ended = FALSE
      BY <1>1, <1>3, <2>1, <2>2, <2>3
  <2> QED  BY <1>1, <2>1, <2>2, <2>3, <2>4, <2>5, OneMoreLine DEF f
<1>5. CASE ListFileOld
  <2>1. PICK ret \in printInfoOld(f) :
            /\ listing' = Append(listing, ret[1])
            /\ IF ret[2] # 0 THEN exitCode' = 1 /\ asksAt' = "end"
               ELSE IF n + 1 = Len(listed) THEN exitCode' = 0 /\ asksAt' = "end"
               ELSE UNCHANGED <<exitCode, asksAt>>
      BY <1>5 DEF ListFileOld
  <2>2. asks = "old_ls" /\ asks' = asks /\ listed' = listed
      BY <1>5 DEF ListFileOld
  <2> HIDE DEF f
  <2>3. TrueLine(asks, f, ret[1]) /\ ((ret[2] = 0 /\ ret[1].ended = TRUE) \/ (ret[2] = 1 /\ ret[1].ended = FALSE))
      BY <1>2, <2>2, PrintInfoOldIs
  <2>4. ret[1] \in PrintedLines
      BY <1>2 DEF PrintedLines
  <2>5. /\ asksAt' \in {"list", "end"}
        /\ asksAt' = "list" => ret[1].ended /\ exitCode' = -1 /\ n + 1 # Len(listed)
        /\ exitCode' = 0 => n + 1 = Len(listed) /\ ret[1].ended
        /\ asks = "old_ls" /\ exitCode' = 1 => ret[1].ended = FALSE
    <3>1. CASE ret[2] = 1 /\ ret[1].ended = FALSE
      <4>1. exitCode' = 1 /\ asksAt' = "end" /\ ret[1].ended = FALSE
          BY <2>1, <3>1
      <4> QED  BY <4>1
    <3>2. CASE ret[2] = 0 /\ ret[1].ended = TRUE
      <4>1. CASE n + 1 = Len(listed)
          BY <2>1, <3>2, <4>1
      <4>2. CASE n + 1 # Len(listed)
          BY <1>1, <1>3, <2>1, <3>2, <4>2
      <4> QED  BY <4>1, <4>2
    <3> QED  BY <2>3, <3>1, <3>2
  <2> QED  BY <1>1, <2>1, <2>2, <2>3, <2>4, <2>5, OneMoreLine DEF f
<1> QED  BY <1>4, <1>5

\* An opening more.
LEMMA OpenStep == ASSUME AskInv, OpenAndClose PROVE AskInv'
<1>1. /\ asks = "access" /\ asksAt \in {"open", "again"} /\ UNCHANGED <<asks, listed, listing, effective, readers>>
      /\ openings' = Append(openings, effective \in readers)
      /\ asksAt' \in {"setuid", "end"} /\ (asksAt' = "setuid" => asksAt = "open")
      /\ openings \in Seq(BOOLEAN) /\ Len(openings) = IF asksAt = "open" THEN 0 ELSE 1
    BY DEF AskInv, OpeningsInv, OpenAndClose
<1> DEFINE can == effective \in readers
<1>2. can \in BOOLEAN
    OBVIOUS
<1>3. openings' = Append(openings, can)
    BY <1>1, Zenon
<1> HIDE DEF can
<1>4. openings' \in Seq(BOOLEAN) /\ Len(openings') = Len(openings) + 1 /\ openings'[Len(openings) + 1] = can
    BY <1>1, <1>2, <1>3, AppendProperties
<1>5. Len(openings') = 2 => openings'[2] = can
    BY <1>1, <1>4
<1>6. AccessIsReal'
  <2> SUFFICES ASSUME Len(openings') = 2, effective' = "real" PROVE openings'[2] = ("real" \in readers')
      BY Zenon DEF AccessIsReal
  <2>1. effective = "real" /\ readers' = readers /\ openings'[2] = can
      BY <1>1, <1>5
  <2> QED  BY <2>1, Zenon DEF can
<1>7. OpeningsInv'
    BY <1>1, <1>4, <1>6 DEF OpeningsInv
<1>8. ListInv'
    BY <1>1 DEF AskInv, ListInv
<1> QED  BY <1>7, <1>8 DEF AskInv

\* Every step keeps the invariant.
LEMMA AskStep == AskInv /\ [FilesNext]_askVars => AskInv'
<1> SUFFICES ASSUME AskInv, [FilesNext]_askVars PROVE AskInv'
    OBVIOUS
<1>1. ASSUME NEW p \in {"ls", "old_ls"}, StartLs(p) PROVE AskInv'
  <2>1. /\ asks = "none" /\ asks' = p /\ asksAt' = "list" /\ UNCHANGED <<listing, exitCode, openings>>
        /\ listing = << >> /\ openings = << >> /\ exitCode = -1
      BY <1>1 DEF StartLs, AskInv, ListInv, OpeningsInv
  <2>2. listed' \in Seq(LsFiles) /\ Len(listed') \in Nat \ {0}
    <3>1. PICK n \in 1..MaxListed : listed' \in [1..n -> LsFiles]
        BY <1>1 DEF StartLs
    <3>2. n \in Nat \ {0} /\ DOMAIN listed' = 1..n
        BY <3>1
    <3>3. listed' \in Seq(LsFiles)
        BY <3>1, <3>2, SeqDef
    <3>4. DOMAIN listed' = 1..Len(listed') /\ Len(listed') \in Nat
        BY <3>3, LenProperties
    <3>5. 1 \in 1..Len(listed')
        BY <3>2, <3>4
    <3> QED  BY <3>3, <3>4, <3>5
  <2>3. << >> \in Seq(PrintedLines) /\ << >> \in Seq(BOOLEAN) /\ Len(<< >>) = 0
      BY EmptySeq
  <2>4. ListInv'
      BY <2>1, <2>2, <2>3 DEF ListInv
  <2>5. OpeningsInv'
      BY <2>1, <2>3, Zenon DEF OpeningsInv
  <2> QED  BY <2>4, <2>5 DEF AskInv
<1>2. CASE ListFile \/ ListFileOld
  <2>1. ListInv'
      BY <1>2, ListFileStep
  <2>2. openings' = openings /\ asks' = asks /\ asks \in {"ls", "old_ls"}
      BY <1>2 DEF ListFile, ListFileOld
  <2>3. OpeningsInv'
      BY <2>2 DEF AskInv, OpeningsInv
  <2> QED  BY <2>1, <2>3 DEF AskInv
<1>3. CASE StartAccess
  <2>1. /\ asks' = "access" /\ asksAt' = "open" /\ UNCHANGED <<listed, listing, exitCode, openings>>
        /\ listing = << >> /\ openings = << >>
      BY <1>3 DEF StartAccess, AskInv, ListInv, OpeningsInv
  <2>2. << >> \in Seq(PrintedLines) /\ << >> \in Seq(BOOLEAN) /\ Len(<< >>) = 0
      BY EmptySeq
  <2>3. ListInv'
      BY <2>1, <2>2 DEF AskInv, ListInv
  <2>4. OpeningsInv'
      BY <2>1, <2>2 DEF OpeningsInv, AccessIsReal
  <2> QED  BY <2>3, <2>4 DEF AskInv
<1>4. CASE OpenAndClose
    BY <1>4, OpenStep
<1>5. CASE Setuid
  <2>1. /\ asks = "access" /\ asks' = asks /\ asksAt = "setuid" /\ asksAt' = "again"
        /\ UNCHANGED <<listed, listing, exitCode, openings>>
      BY <1>5 DEF Setuid
  <2>2. ListInv'
      BY <2>1 DEF AskInv, ListInv
  <2>3. OpeningsInv'
      BY <2>1 DEF AskInv, OpeningsInv, AccessIsReal
  <2> QED  BY <2>2, <2>3 DEF AskInv
<1>6. CASE UNCHANGED askVars
  <2>1. ListInv'
      BY <1>6 DEF AskInv, ListInv, askVars
  <2>2. OpeningsInv'
      BY <1>6 DEF AskInv, OpeningsInv, AccessIsReal, askVars
  <2> QED  BY <2>1, <2>2 DEF AskInv
<1> QED  BY <1>1, <1>2, <1>3, <1>4, <1>5, <1>6 DEF FilesNext

\* What is printed is true.
LEMMA WhatIsTold == ASSUME AskInv PROVE FilesAreTold
<1>1. DOMAIN listing = 1..Len(listing)
    BY LenProperties DEF AskInv, ListInv
<1>2. ListingIsRight
  <2>1. /\ asks \in {"ls", "old_ls"} /\ exitCode = 0 =>
              Len(listing) = Len(listed) /\ \A i \in DOMAIN listing : listing[i].ended
        /\ asks = "old_ls" /\ exitCode = 1 => ~listing[Len(listing)].ended
      BY <1>1 DEF AskInv, ListInv
  <2>2. \A i \in DOMAIN listing : (i < Len(listing) => listing[i].ended) /\ TrueLine(asks, listed[i], listing[i])
      BY <1>1 DEF AskInv, ListInv
  <2> QED  BY <2>1, <2>2, Zenon DEF ListingIsRight, TrueLine
<1>3. AccessIsReal
  <2>1. CASE asks = "access"
      BY <2>1 DEF AskInv, OpeningsInv
  <2>2. CASE asks # "access"
      BY <2>2, Zenon DEF AccessIsReal
  <2> QED  BY <2>1, <2>2
<1> QED  BY <1>2, <1>3 DEF FilesAreTold

\* Whatever files there are and whichever call fails, what ls prints of a file is true of
\* it, and the second opening of 3_file_access is by the real user.
THEOREM FilesToldRight == FilesSpec => []FilesAreTold
<1>1. FilesInit => AskInv
    BY InitAskInv
<1>2. AskInv /\ [FilesNext]_askVars => AskInv'
    BY AskStep
<1>3. AskInv => FilesAreTold
    BY WhatIsTold
<1> QED  BY <1>1, <1>2, <1>3, PTL DEF FilesSpec

-----------------------------------------------------------------------------
(* 9_2_process, 10_exec, 11, 27, 28. *)

\* The places an empty line ends at among the first n characters of a text.
EmptyUpTo(t, n) == {i \in 1..n : t[i] = "NL" /\ (i = 1 \/ t[i - 1] = "NL")}

\* Nothing has been done.
AloneInv ==
    parent = "none" => /\ used = 0 /\ prevChar = "NL" /\ piped = << >> /\ open = FALSE /\ worker = NoChild
                       /\ answer = << >> /\ shown = << >> /\ result = "none" /\ given = << >>
                       /\ parentAt = "start"

\* 27: the pipe has one new line for every empty line read, and wc counts what
\* it has once the pipe is closed.
EmptyLinesInv ==
    parent = "27" =>
      /\ parentAt \in {"title", "read", "pclose", "end"}
      /\ given \in Seq(Char) /\ used \in 0..Len(given)
      /\ prevChar = IF used = 0 THEN "NL" ELSE given[used]
      /\ piped \in Seq({"NL"}) /\ Len(piped) = Cardinality(EmptyUpTo(given, used))
      /\ result = "success" => used = Len(given) /\ parentAt \in {"pclose", "end"}
      /\ parentAt \in {"title", "read"} => open
      /\ shown = IF worker = EXIT_SUCCESS THEN <<Len(piped)>> ELSE << >>
      /\ worker = EXIT_SUCCESS => ~open

\* What sort answers is what it was given, in another order.
InOrderOf(s, t) ==
    /\ s \in [1..NUM_INT -> 0..(MAX - 1)] /\ t \in [1..NUM_INT -> 0..(MAX - 1)]
    /\ \E order \in Bijection(1..NUM_INT, 1..NUM_INT) : \A i \in 1..NUM_INT : s[i] = t[order[i]]
    /\ \A i \in 2..NUM_INT : s[i - 1] <= s[i]

\* So many numbers fill rows.
WholeRows(n) == \E k \in 0..NUM_INT : n = k * INT_PER_LINE

\* 28: the rows are the beginning of the answer, and full ones.
RowsInv ==
    parent = "28" =>
      /\ parentAt \in {"numbers", "write", "sorted", "p2close", "end"}
      /\ parentAt \in {"numbers", "write"} => open /\ shown = << >> /\ used = 0
      /\ parentAt \in {"numbers", "write"} => worker # EXIT_SUCCESS
      /\ parentAt \in {"write", "sorted"} => given \in [1..NUM_INT -> 0..(MAX - 1)] /\ result = "none"
      /\ parentAt = "numbers" => result = "none"
      /\ parentAt = "p2close" => result = "failure"
      /\ worker # EXIT_SUCCESS => answer = << >>
      /\ parentAt = "sorted" \/ result = "success" =>
           /\ given \in [1..NUM_INT -> 0..(MAX - 1)] /\ piped = given /\ ~open
           /\ WholeRows(used)
           /\ used <= NUM_INT /\ shown \in Seq(Int) /\ Len(shown) = used
           /\ worker \in {NoChild, ChildRuns} => used = 0
           /\ worker = EXIT_SUCCESS =>
                /\ InOrderOf(answer, given)
                /\ \A i \in 1..used : shown[i] = answer[i]
      /\ result = "success" => used = NUM_INT /\ parentAt = "end"

\* 9 and 9w: the parent's line is the last, and is printed when the child is over.
WaitInv ==
    parent \in {"9", "9w"} =>
      /\ parentAt \in {"wait", "end"}
      /\ shown \in Seq({"text", "parent_line"})
      /\ parentAt = "wait" => result = "none" /\ \A i \in 1..Len(shown) : shown[i] = "text"
      /\ parentAt = "end" => worker # ChildRuns
      /\ \A i \in 1..Len(shown) : shown[i] = "parent_line" => i = Len(shown) /\ worker # ChildRuns
      /\ result = "success" /\ ignored => parent = "9w"

\* 10: the end that is told is that of a child that is over.
StatusInv ==
    parent = "10" =>
      /\ parentAt \in {"wait", "end"}
      /\ parentAt = "wait" => result = "none" /\ shown = << >>
      /\ result = "success" => shown = <<worker>> /\ worker # ChildRuns

\* 11: the directories passed over held no file that can be read.
SearchInv ==
    parent \in {"11", "11c"} =>
      /\ parentAt \in {"search", "exec", "end"}
      /\ given \in Seq(Holdings) /\ used \in 0..Len(given)
      /\ parentAt = "search" =>
           /\ used < Len(given) /\ result = "none" /\ open = FALSE
           /\ \A i \in 1..used : given[i] \notin {"file", "program"}
      /\ parentAt = "exec" => result = "none" /\ open = FALSE
      /\ parentAt = "exec" \/ result = "replaced" =>
           /\ used \in 1..(Len(given) - 1) /\ given[used] \in {"file", "program"}
           /\ \A i \in 1..(used - 1) : given[i] \notin {"file", "program"}
      /\ result = "replaced" => given[used] = "program" /\ (open => parent = "11")

Parents == {"none", "27", "28", "9", "9w", "10", "11", "11c"}

ChildInv == parent \in Parents /\ AloneInv /\ EmptyLinesInv /\ RowsInv /\ WaitInv /\ StatusInv /\ SearchInv

\* One more character read is one more empty line, or none (27/main.c).
LEMMA EmptyLinesGrow ==
    ASSUME NEW t \in Seq(Char), NEW n \in Nat, n < Len(t)
    PROVE  /\ Cardinality(EmptyUpTo(t, n)) \in Nat
           /\ Cardinality(EmptyUpTo(t, n + 1)) =
                IF t[n + 1] = "NL" /\ (IF n = 0 THEN "NL" ELSE t[n]) = "NL"
                   THEN Cardinality(EmptyUpTo(t, n)) + 1 ELSE Cardinality(EmptyUpTo(t, n))
<1>1. IsFiniteSet(1..n)
  <2>1. 1 \in Int /\ n \in Int  OBVIOUS
  <2> QED  BY <2>1, FS_Interval
<1>2. IsFiniteSet(EmptyUpTo(t, n)) /\ n + 1 \notin EmptyUpTo(t, n)
    BY <1>1, FS_Subset DEF EmptyUpTo
<1>3. Cardinality(EmptyUpTo(t, n)) \in Nat
    BY <1>2, FS_CardinalityType
<1>4. CASE t[n + 1] = "NL" /\ (IF n = 0 THEN "NL" ELSE t[n]) = "NL"
  <2>1. EmptyUpTo(t, n + 1) = EmptyUpTo(t, n) \cup {n + 1}
      BY <1>4 DEF EmptyUpTo
  <2> QED  BY <1>2, <1>3, <1>4, <2>1, FS_AddElement
<1>5. CASE ~(t[n + 1] = "NL" /\ (IF n = 0 THEN "NL" ELSE t[n]) = "NL")
  <2>1. EmptyUpTo(t, n + 1) = EmptyUpTo(t, n)
      BY <1>5 DEF EmptyUpTo
  <2> QED  BY <1>3, <1>5, <2>1
<1> QED  BY <1>4, <1>5

\* Before the first character there is no empty line, and after the last one
\* all of them have been met.
LEMMA EmptyLinesAll ==
    ASSUME NEW t \in Seq(Char)
    PROVE  /\ Cardinality(EmptyUpTo(t, 0)) = 0
           /\ Cardinality(EmptyUpTo(t, Len(t))) = EmptyLines(t)
<1>1. EmptyUpTo(t, 0) = {}
    BY DEF EmptyUpTo
<1>2. EmptyUpTo(t, Len(t)) = {i \in DOMAIN t : t[i] = "NL" /\ (i = 1 \/ t[i - 1] = "NL")}
    BY DEF EmptyUpTo
<1> QED  BY <1>1, <1>2, FS_EmptySet DEF EmptyLines

\* A program is one of those the invariant speaks of, and its own part is the
\* only one that says something.
LEMMA OneProgram ==
    /\ parent' = "27" /\ EmptyLinesInv' => ChildInv'
    /\ parent' = "28" /\ RowsInv' => ChildInv'
    /\ parent' \in {"9", "9w"} /\ WaitInv' => ChildInv'
    /\ parent' = "10" /\ StatusInv' => ChildInv'
    /\ parent' \in {"11", "11c"} /\ SearchInv' => ChildInv'
BY DEF ChildInv, Parents, AloneInv, EmptyLinesInv, RowsInv, WaitInv, StatusInv, SearchInv

\* 27: the parent's steps keep what it and wc have counted (27/main.c).
LEMMA EmptyLinesKept ==
    ASSUME ChildInv, parent = "27", CountsEmptyLines \/ Wc \/ NoSuchProgram
    PROVE  ChildInv'
<1> USE DEF ChildInv, EXIT_SUCCESS, ChildRuns, NoChild, ChildOver, Finish
<1>0. EmptyLinesInv /\ parent # "none" /\ parent # "28"
    OBVIOUS
<1>1. CASE OpenAndPopen
    BY <1>0, <1>1 DEF OpenAndPopen
<1>2. CASE WriteTitle
  <2>1. parent' = "27" /\ EmptyLinesInv'
      BY <1>0, <1>2 DEF WriteTitle, EmptyLinesInv
  <2> QED  BY <2>1, OneProgram
<1>3. CASE ReadChar
  <2>1. given \in Seq(Char) /\ used \in Nat /\ used < Len(given)
      BY <1>0, <1>3 DEF ReadChar, EmptyLinesInv
  <2>2. given' = given /\ used' = used + 1 /\ prevChar' = given[used + 1]
      BY <1>3 DEF ReadChar
  <2> DEFINE atEnd == given[used + 1] = "NL" /\ prevChar = "NL"
  <2>3. piped' = IF atEnd THEN Append(piped, "NL") ELSE piped
      BY <1>3 DEF ReadChar
  <2>4. Len(piped') = IF atEnd THEN Len(piped) + 1 ELSE Len(piped)
      BY <2>3, <1>0 DEF EmptyLinesInv
  <2>5. Cardinality(EmptyUpTo(given, used + 1)) =
          IF atEnd THEN Cardinality(EmptyUpTo(given, used)) + 1 ELSE Cardinality(EmptyUpTo(given, used))
      BY <2>1, EmptyLinesGrow, <1>0 DEF EmptyLinesInv
  <2>6. Len(piped') = Cardinality(EmptyUpTo(given', used'))
    <3>1. Len(piped) = Cardinality(EmptyUpTo(given, used))
        BY <1>0 DEF EmptyLinesInv
    <3> HIDE DEF atEnd
    <3> QED  BY <2>2, <2>4, <2>5, <3>1
  <2>7. piped' \in Seq({"NL"})
      BY <2>3, <1>0 DEF EmptyLinesInv
  <2>8. prevChar' = IF used' = 0 THEN "NL" ELSE given'[used']
      BY <2>1, <2>2
  <2>9. /\ parentAt = "read" /\ parentAt' = "read" /\ open' /\ parent' = parent
        /\ worker' = worker /\ shown' = shown /\ result' = result /\ result # "success"
        /\ worker # EXIT_SUCCESS /\ shown = << >>
      BY <1>3, <1>0 DEF ReadChar, EmptyLinesInv
  <2>10. parent' = "27" /\ EmptyLinesInv'
      BY <1>0, <2>1, <2>2, <2>6, <2>7, <2>8, <2>9 DEF EmptyLinesInv
  <2> QED  BY <2>10, OneProgram
<1>4. CASE ReadEnds
  <2>1. parent' = "27" /\ EmptyLinesInv'
      BY <1>0, <1>4 DEF ReadEnds, EmptyLinesInv
  <2> QED  BY <2>1, OneProgram
<1>5. CASE Pclose
  <2>1. parent' = "27" /\ EmptyLinesInv'
      BY <1>0, <1>5 DEF Pclose, EmptyLinesInv
  <2> QED  BY <2>1, OneProgram
<1>6. CASE PcloseReturns
  <2>1. parent' = "27" /\ EmptyLinesInv'
      BY <1>0, <1>6 DEF PcloseReturns, EmptyLinesInv
  <2> QED  BY <2>1, OneProgram
<1>7. CASE Wc
  <2>1. parent' = "27" /\ EmptyLinesInv'
      BY <1>0, <1>7 DEF Wc, EmptyLinesInv
  <2> QED  BY <2>1, OneProgram
<1>8. CASE NoSuchProgram
  <2>1. parent' = "27" /\ EmptyLinesInv'
      BY <1>0, <1>8 DEF NoSuchProgram, EmptyLinesInv
  <2> QED  BY <2>1, OneProgram
<1> QED  BY <1>1, <1>2, <1>3, <1>4, <1>5, <1>6, <1>7, <1>8 DEF CountsEmptyLines

\* Rows are full: where one begins there is room for all of it (28/main.c).
LEMMA RowFits ==
    ASSUME NEW n \in Nat, WholeRows(n), n < NUM_INT
    PROVE  WholeRows(n + INT_PER_LINE) /\ n + INT_PER_LINE <= NUM_INT
<1> PICK k \in 0..NUM_INT : n = k * INT_PER_LINE
    BY DEF WholeRows
<1>1. NUM_INT \in Nat /\ INT_PER_LINE \in Nat /\ INT_PER_LINE >= 1
    BY ChildAssumption
<1>2. PICK m \in 0..NUM_INT : NUM_INT = m * INT_PER_LINE
    BY ChildAssumption
<1>3. k < m
  <2>1. SUFFICES ASSUME k >= m PROVE FALSE
      OBVIOUS
  <2>2. PICK d \in Nat : k = m + d
      BY <2>1
  <2>3. k * INT_PER_LINE = m * INT_PER_LINE + d * INT_PER_LINE
      BY <1>1, <2>2
  <2>4. d * INT_PER_LINE >= 0
      BY <1>1
  <2> QED  BY <1>1, <1>2, <2>3, <2>4
<1>4. PICK d \in Nat : m = k + 1 + d
    BY <1>3
<1>5. m * INT_PER_LINE = k * INT_PER_LINE + INT_PER_LINE + d * INT_PER_LINE
    BY <1>1, <1>4
<1>6. d * INT_PER_LINE >= 0
    BY <1>1
<1>7. (k + 1) * INT_PER_LINE = k * INT_PER_LINE + INT_PER_LINE
    BY <1>1
<1>8. k + 1 \in 0..NUM_INT
  <2>1. m <= NUM_INT
      OBVIOUS
  <2> QED  BY <1>1, <1>3, <2>1
<1>9. WholeRows(n + INT_PER_LINE)
    BY <1>7, <1>8 DEF WholeRows
<1> QED  BY <1>1, <1>2, <1>5, <1>6, <1>9

\* A row is printed behind the ones before it.
LEMMA JoinedRows ==
    ASSUME NEW s \in Seq(Int), NEW t \in Seq(Int)
    PROVE  /\ s \o t \in Seq(Int) /\ Len(s \o t) = Len(s) + Len(t)
           /\ \A i \in 1..Len(s) : (s \o t)[i] = s[i]
           /\ \A i \in 1..Len(t) : (s \o t)[Len(s) + i] = t[i]
OBVIOUS

\* A sequence and the same numbers in order have every value the
\* same number of times.
LEMMA SameTimes ==
    ASSUME NEW s, NEW t, InOrderOf(s, t), NEW v
    PROVE  Times(s, v) = Times(t, v)
<1>1. NUM_INT \in Nat /\ s \in [1..NUM_INT -> 0..(MAX - 1)] /\ t \in [1..NUM_INT -> 0..(MAX - 1)]
    BY ChildAssumption DEF InOrderOf
<1>2. PICK order \in Bijection(1..NUM_INT, 1..NUM_INT) : \A i \in 1..NUM_INT : s[i] = t[order[i]]
    BY DEF InOrderOf
<1> DEFINE inS == {i \in 1..NUM_INT : s[i] = v}
           inT == {i \in 1..NUM_INT : t[i] = v}
           to == [i \in inS |-> order[i]]
<1>3. order \in [1..NUM_INT -> 1..NUM_INT]
    BY DEF Bijection, Injection
<1>4. \A i, j \in 1..NUM_INT : order[i] = order[j] => i = j
    BY DEF Bijection, Injection, IsInjective
<1>5. \A j \in 1..NUM_INT : \E i \in 1..NUM_INT : order[i] = j
    BY DEF Bijection, Surjection
<1>6. to \in [inS -> inT]
    BY <1>2, <1>3
<1>7. to \in Bijection(inS, inT)
  <2>1. \A i, j \in inS : to[i] = to[j] => i = j
      BY <1>4
  <2>2. \A j \in inT : \E i \in inS : to[i] = j
      BY <1>2, <1>5
  <2> QED  BY <1>6, <2>1, <2>2 DEF Bijection, Injection, IsInjective, Surjection
<1>8. IsFiniteSet(inS)
  <2>1. 1 \in Int /\ NUM_INT \in Int
      BY <1>1
  <2>2. IsFiniteSet(1..NUM_INT)
      BY <2>1, FS_Interval
  <2> QED  BY <2>2, FS_Subset
<1>9. Cardinality(inS) = Cardinality(inT)
  <2>1. ExistsBijection(inS, inT)
      BY <1>7 DEF ExistsBijection
  <2> HIDE DEF inS, inT
  <2> QED  BY <1>8, <2>1, FS_Bijection
<1>10. Times(s, v) = Cardinality(inS) /\ Times(t, v) = Cardinality(inT)
    BY <1>1 DEF Times
<1> QED  BY <1>9, <1>10

\* 28: the parent's steps, and those of sort, keep the rows the beginning of
\* the sorted numbers (28/main.c).
LEMMA RowsKept ==
    ASSUME ChildInv, parent = "28", SortsNumbers \/ Sort \/ NoSuchProgram
    PROVE  ChildInv'
<1> USE DEF ChildInv, EXIT_SUCCESS, ChildRuns, NoChild, ChildOver, Finish
<1>0. RowsInv /\ parent # "none"
    OBVIOUS
<1>a. NUM_INT \in Nat /\ INT_PER_LINE \in Nat /\ INT_PER_LINE >= 1
    BY ChildAssumption
<1>1. CASE P2open
    BY <1>0, <1>1 DEF P2open
<1>2. CASE Numbers
  <2>1. /\ parentAt = "numbers" /\ parent' = "28" /\ used' = used /\ shown' = shown /\ answer' = answer
        /\ worker' = worker /\ piped' = piped
      BY <1>2 DEF Numbers
  <2>2. open /\ shown = << >> /\ used = 0 /\ worker # EXIT_SUCCESS /\ answer = << >> /\ result = "none"
      BY <1>0, <2>1 DEF RowsInv
  <2>3. \/ parentAt' = "write" /\ given' \in [1..NUM_INT -> 0..(MAX - 1)] /\ result' = result /\ open' = open
        \/ parentAt' = "p2close" /\ result' = "failure"
      BY <1>2 DEF Numbers
  <2>4. RowsInv'
      BY <2>1, <2>2, <2>3 DEF RowsInv
  <2> QED  BY <2>1, <2>4, OneProgram
<1>3. CASE P2close
  <2>1. parent' = "28" /\ RowsInv'
      BY <1>0, <1>3 DEF P2close, RowsInv
  <2> QED  BY <2>1, OneProgram
<1>4. CASE WriteNumbers
  <2>1. used' = 0 /\ shown' = << >> /\ worker' # EXIT_SUCCESS /\ given' = given /\ given \in [1..NUM_INT -> 0..(MAX - 1)]
      BY <1>0, <1>4 DEF WriteNumbers, RowsInv
  <2>2. WholeRows(0)
      BY <1>a DEF WholeRows
  <2>3. piped' = given /\ ~open' /\ parent' = "28"
      BY <1>4 DEF WriteNumbers
  <2>a. answer' = << >>
      BY <1>0, <1>4 DEF WriteNumbers, RowsInv
  <2>4. parentAt' \in {"sorted", "end"} /\ result' \in {"none", "killed"} /\ (parentAt' = "sorted" => result' = "none")
      BY <1>0, <1>4 DEF WriteNumbers, RowsInv
  <2>5. parent' = "28" /\ RowsInv'
      BY <1>a, <2>1, <2>2, <2>3, <2>4, <2>a DEF RowsInv
  <2> QED  BY <2>5, OneProgram
<1>5. CASE ReadRow
  <2>1. PICK val \in 0..(MAX - 1) :
          shown' = shown \o [i \in 1..INT_PER_LINE |-> IF answer = << >> THEN val ELSE answer[used + i]]
      BY <1>5 DEF ReadRow
  <2>2. /\ parentAt = "sorted" /\ used < NUM_INT /\ worker \notin {NoChild, ChildRuns}
        /\ used' = used + INT_PER_LINE
        /\ given' = given /\ piped' = piped /\ open' = open /\ worker' = worker /\ answer' = answer
        /\ parent' = parent /\ parentAt' = parentAt /\ result' = result
      BY <1>5 DEF ReadRow
  <2>3. /\ given \in [1..NUM_INT -> 0..(MAX - 1)] /\ piped = given /\ ~open /\ result = "none"
        /\ shown \in Seq(Int) /\ Len(shown) = used /\ used \in Nat
      BY <1>0, <2>2 DEF RowsInv
  <2>4. WholeRows(used)
      BY <1>0, <2>2 DEF RowsInv
  <2>5. used + INT_PER_LINE <= NUM_INT /\ WholeRows(used + INT_PER_LINE)
      BY <2>2, <2>3, <2>4, RowFits
  <2> DEFINE added == [i \in 1..INT_PER_LINE |-> IF answer = << >> THEN val ELSE answer[used + i]]
  <2>6. CASE worker = EXIT_SUCCESS
    <3>1. InOrderOf(answer, given) /\ \A i \in 1..used : shown[i] = answer[i]
        BY <1>0, <2>2, <2>6 DEF RowsInv
    <3>2. answer \in [1..NUM_INT -> 0..(MAX - 1)] /\ MAX \in Nat
        BY <3>1, ChildAssumption DEF InOrderOf
    <3>3. answer # << >>
        BY <3>2, <2>2, <2>3, <1>a
    <3>4. added \in Seq(Int) /\ Len(added) = INT_PER_LINE /\ \A i \in 1..INT_PER_LINE : added[i] = answer[used + i]
        BY <1>a, <2>3, <2>5, <3>2, <3>3
    <3>5. shown' = shown \o added
        BY <2>1
    <3> HIDE DEF added
    <3>6. shown' \in Seq(Int) /\ Len(shown') = used'
        BY <2>2, <2>3, <3>4, <3>5, JoinedRows
    <3>7. \A i \in 1..used' : shown'[i] = answer[i]
      <4> SUFFICES ASSUME NEW i \in 1..used' PROVE shown'[i] = answer[i]
          OBVIOUS
      <4>1. CASE i <= used
        <5>1. i \in 1..Len(shown)
            BY <2>2, <2>3, <1>a, <4>1
        <5> QED  BY <5>1, <2>3, <3>1, <3>4, <3>5, JoinedRows
      <4>2. CASE i > used
        <5>1. i - used \in 1..INT_PER_LINE /\ used + (i - used) = i
            BY <1>a, <2>2, <2>3, <4>2
        <5>2. shown'[used + (i - used)] = added[i - used]
            BY <5>1, <2>3, <3>4, <3>5, JoinedRows
        <5> QED  BY <3>4, <5>1, <5>2
      <4> QED  BY <1>a, <2>2, <2>3, <4>1, <4>2
    <3>8. InOrderOf(answer', given')
        BY <2>2, <3>1
    <3>9. parent' = "28" /\ RowsInv'
        BY <2>2, <2>3, <2>5, <2>6, <3>6, <3>7, <3>8 DEF RowsInv
    <3> QED  BY <3>9, OneProgram
  <2>7. CASE worker # EXIT_SUCCESS
    <3>1. answer = << >>
        BY <1>0, <2>2, <2>7 DEF RowsInv
    <3>2. added \in Seq(Int) /\ Len(added) = INT_PER_LINE
        BY <1>a, <3>1
    <3>3. shown' = shown \o added
        BY <2>1
    <3> HIDE DEF added
    <3>4. shown' \in Seq(Int) /\ Len(shown') = used'
        BY <2>2, <2>3, <3>2, <3>3, JoinedRows
    <3>5. parent' = "28" /\ RowsInv'
        BY <2>2, <2>3, <2>5, <2>7, <3>1, <3>4 DEF RowsInv
    <3> QED  BY <3>5, OneProgram
  <2> QED  BY <2>6, <2>7
<1>6. CASE RowsEnd
  <2>1. /\ parentAt = "sorted" /\ used = NUM_INT /\ parentAt' = "end" /\ result' = "success" /\ ~open'
        /\ used' = used /\ shown' = shown /\ answer' = answer /\ given' = given
        /\ worker' = worker /\ piped' = piped /\ parent' = parent
      BY <1>6 DEF RowsEnd
  <2>2. parent' = "28" /\ RowsInv'
      BY <1>0, <1>a, <2>1 DEF RowsInv
  <2> QED  BY <2>2, OneProgram
<1>7. CASE Sort
  <2>1. PICK order \in Bijection(DOMAIN piped, DOMAIN piped) :
          /\ answer' = [i \in DOMAIN piped |-> piped[order[i]]]
          /\ \A i \in 2..Len(piped) : piped[order[i - 1]] <= piped[order[i]]
      BY <1>7 DEF Sort
  <2>2. /\ worker = ChildRuns /\ ~open /\ worker' = EXIT_SUCCESS /\ used' = used /\ shown' = shown
        /\ given' = given /\ piped' = piped /\ open' = open /\ parent' = parent
        /\ parentAt' = parentAt /\ result' = result
      BY <1>7 DEF Sort
  <2>3. parentAt \notin {"numbers", "write"}
      BY <1>0, <2>2 DEF RowsInv
  <2>4. ASSUME parentAt = "sorted" \/ result = "success"
        PROVE  InOrderOf(answer', given) /\ used = 0
    <3>1. given \in [1..NUM_INT -> 0..(MAX - 1)] /\ piped = given /\ used = 0
        BY <1>0, <2>2, <2>4 DEF RowsInv
    <3>2. DOMAIN piped = 1..NUM_INT /\ Len(piped) = NUM_INT
        BY <1>a, <3>1
    <3>3. order \in [1..NUM_INT -> 1..NUM_INT]
        BY <3>2 DEF Bijection, Injection
    <3>4. answer' = [i \in 1..NUM_INT |-> given[order[i]]]
        BY <2>1, <3>1, <3>2
    <3>5. answer' \in [1..NUM_INT -> 0..(MAX - 1)]
        BY <3>1, <3>3, <3>4
    <3>6. \A i \in 1..NUM_INT : answer'[i] = given[order[i]]
        BY <3>4
    <3>7. \A i \in 2..NUM_INT : answer'[i - 1] <= answer'[i]
        BY <1>a, <2>1, <3>1, <3>2, <3>6
    <3> QED  BY <3>1, <3>2, <3>5, <3>6, <3>7 DEF InOrderOf
  <2>5. parent' = "28" /\ RowsInv'
      BY <1>0, <1>a, <2>2, <2>3, <2>4 DEF RowsInv
  <2> QED  BY <2>5, OneProgram
<1>8. CASE NoSuchProgram
  <2>1. parent' = "28" /\ RowsInv'
      BY <1>0, <1>8 DEF NoSuchProgram, RowsInv
  <2> QED  BY <2>1, OneProgram
<1> QED  BY <1>1, <1>2, <1>3, <1>4, <1>5, <1>6, <1>7, <1>8 DEF SortsNumbers

\* One more line, behind those that were printed.
LEMMA LineMore ==
    ASSUME NEW s \in Seq({"text", "parent_line"}), NEW e \in {"text", "parent_line"}
    PROVE  /\ Append(s, e) \in Seq({"text", "parent_line"}) /\ Len(Append(s, e)) = Len(s) + 1
           /\ Append(s, e)[Len(s) + 1] = e /\ \A i \in 1..Len(s) : Append(s, e)[i] = s[i]
OBVIOUS

\* 9_2_process and SunStudioProjects/9_fork: the parent prints when the child is over.
LEMMA WaitKept ==
    ASSUME ChildInv, parent \in {"9", "9w"}, Wait9 \/ Wait9w \/ Cat
    PROVE  ChildInv'
<1> USE DEF EXIT_SUCCESS, EXIT_FAILURE, ChildRuns, NoChild, ChildOver, Finish
<1>0. WaitInv
    BY DEF ChildInv
<1>1. shown \in Seq({"text", "parent_line"})
    BY <1>0 DEF WaitInv
<1>2. ASSUME parentAt = "wait", worker # ChildRuns, worker' = worker, parent' = parent, ignored' = ignored,
             parentAt' = "end", shown' = Append(shown, "parent_line"), ignored => parent = "9w"
      PROVE  WaitInv'
  <2>1. \A i \in 1..Len(shown) : shown[i] = "text"
      BY <1>0, <1>2 DEF WaitInv
  <2>2. /\ shown' \in Seq({"text", "parent_line"}) /\ Len(shown') = Len(shown) + 1
        /\ \A i \in 1..Len(shown) : shown'[i] = shown[i]
      BY <1>1, <1>2, LineMore
  <2>3. \A i \in 1..Len(shown') : shown'[i] = "parent_line" => i = Len(shown')
      BY <2>1, <2>2
  <2> QED  BY <1>2, <2>2, <2>3 DEF WaitInv
<1>3. ASSUME parentAt = "wait", worker # ChildRuns, worker' = worker, parent' = parent, ignored' = ignored,
             parentAt' = "end", shown' = shown, result' = "failure"
      PROVE  WaitInv'
    BY <1>0, <1>3 DEF WaitInv
<1>4. CASE Wait9
  <2>1. WaitInv'
      BY <1>2, <1>3, <1>4 DEF Wait9
  <2> QED  BY <1>4, <2>1, OneProgram DEF Wait9
<1>5. CASE Wait9w
  <2>1. WaitInv'
      BY <1>2, <1>5 DEF Wait9w
  <2> QED  BY <1>5, <2>1, OneProgram DEF Wait9w
<1>6. CASE Cat
  <2>1. /\ worker = ChildRuns /\ worker' # ChildRuns /\ parent' = parent /\ parentAt' = parentAt
        /\ result' = result /\ ignored' = ignored
        /\ shown' = shown \/ shown' = Append(shown, "text")
      BY <1>6 DEF Cat
  <2>2. parentAt = "wait" /\ \A i \in 1..Len(shown) : shown[i] = "text"
      BY <1>0, <2>1 DEF WaitInv
  <2>3. /\ shown' \in Seq({"text", "parent_line"})
        /\ \A i \in 1..Len(shown') : shown'[i] = "text"
    <3>1. CASE shown' = shown
        BY <1>1, <2>2, <3>1
    <3>2. CASE shown' = Append(shown, "text")
        BY <1>1, <2>2, <3>2, LineMore
    <3> QED  BY <2>1, <3>1, <3>2
  <2>4. WaitInv'
      BY <1>0, <2>1, <2>2, <2>3 DEF WaitInv
  <2> QED  BY <2>1, <2>4, OneProgram
<1> QED  BY <1>4, <1>5, <1>6

\* 10_exec: the end that is told is the one the child had.
LEMMA StatusKept ==
    ASSUME ChildInv, parent = "10", Wait10 \/ UserProgram
    PROVE  ChildInv'
<1> USE DEF EXIT_SUCCESS, EXIT_FAILURE, ChildRuns, NoChild, ChildOver, Finish
<1>0. StatusInv
    BY DEF ChildInv
<1>1. CASE Wait10
  <2>1. parentAt = "wait" /\ shown = << >> /\ worker # ChildRuns /\ worker' = worker /\ parent' = parent /\ parentAt' = "end"
      BY <1>0, <1>1 DEF Wait10, StatusInv
  <2>2. result' = "failure" \/ shown' = Append(shown, worker)
      BY <1>1 DEF Wait10
  <2>3. Append(<< >>, worker) = <<worker>>
      OBVIOUS
  <2>4. StatusInv'
      BY <2>1, <2>2, <2>3 DEF StatusInv
  <2> QED  BY <2>1, <2>4, OneProgram
<1>2. CASE UserProgram
  <2>1. worker = ChildRuns /\ parent' = parent /\ parentAt' = parentAt /\ result' = result /\ shown' = shown
      BY <1>2 DEF UserProgram
  <2>2. StatusInv'
      BY <1>0, <2>1 DEF StatusInv
  <2> QED  BY <2>1, <2>2, OneProgram
<1> QED  BY <1>1, <1>2

\* 11: a directory is passed over when it holds no file that can be read.
LEMMA SearchKept ==
    ASSUME ChildInv, parentAt \in {"search", "exec"}, execvpe
    PROVE  ChildInv'
<1> USE DEF Finish
<1>0. SearchInv /\ parent \in {"11", "11c"}
    BY DEF ChildInv, Parents, AloneInv, EmptyLinesInv, RowsInv, WaitInv, StatusInv, SearchInv
<1>1. CASE SearchPath
  <2>1. parentAt = "search" /\ parent' = parent /\ given' = given /\ given \in Seq(Holdings) /\ used \in Nat /\ used < Len(given)
        /\ result = "none" /\ open = FALSE
      BY <1>0, <1>1 DEF SearchPath, SearchInv
  <2>2. \A i \in 1..used : given[i] \notin {"file", "program"}
      BY <1>0, <2>1 DEF SearchInv
  <2>3. CASE used + 1 = Len(given)
    <3>1. parentAt' = "end" /\ result' = "failure" /\ open' = FALSE /\ used' = used
        BY <1>1, <2>3 DEF SearchPath
    <3>2. SearchInv'
        BY <1>0, <2>1, <3>1 DEF SearchInv
    <3> QED  BY <1>0, <2>1, <3>2, OneProgram
  <2>4. CASE used + 1 # Len(given)
    <3>1. /\ used' = used + 1 /\ result' = result /\ open' = open
          /\ parentAt' = IF given[used + 1] \in {"file", "program"} THEN "exec" ELSE "search"
        BY <1>1, <2>4 DEF SearchPath
    <3>2. used + 1 \in 1..(Len(given) - 1)
        BY <2>1, <2>4
    <3>3. SearchInv'
        BY <1>0, <2>1, <2>2, <3>1, <3>2 DEF SearchInv
    <3> QED  BY <1>0, <2>1, <3>3, OneProgram
  <2> QED  BY <2>3, <2>4
<1>2. CASE Execv
  <2>1. SearchInv'
      BY <1>0, <1>2 DEF Execv, SearchInv
  <2> QED  BY <1>0, <1>2, <2>1, OneProgram DEF Execv
<1> QED  BY <1>1, <1>2 DEF execvpe

\* Nothing is done before a program is started.
LEMMA ChildBegins == ChildInit => ChildInv
BY DEF ChildInit, ChildInv, Parents, AloneInv, EmptyLinesInv, RowsInv, WaitInv, StatusInv, SearchInv, NoChild

\* A program starts as its part of the invariant says.
LEMMA ChildStarts ==
    ASSUME ChildInv, parent = "none",
           \/ \E p \in {"27", "28", "9", "9w", "10"} : StartFails(p)
           \/ OpenAndPopen \/ P2open
           \/ \E p \in {"9", "9w", "10"} : Fork(p)
           \/ \E p \in {"11", "11c"} : initEnv(p)
    PROVE  ChildInv'
<1> USE DEF EXIT_SUCCESS, ChildRuns, NoChild, ChildOver, Finish
<1>0. AloneInv
    BY DEF ChildInv
<1>a. Cardinality(EmptyUpTo(<< >>, 0)) = 0 /\ << >> \in Seq(Char)
  <2>1. << >> \in Seq(Char)
      OBVIOUS
  <2> QED  BY <2>1, EmptyLinesAll
<1>1. ASSUME NEW p \in {"27", "28", "9", "9w", "10"}, StartFails(p)
      PROVE  ChildInv'
  <2>1. parent' = p /\ parentAt' = "end" /\ result' = "failure" /\ open' = FALSE
        /\ given' = << >> /\ used' = 0 /\ piped' = << >> /\ prevChar' = "NL" /\ worker' = NoChild /\ shown' = << >> /\ answer' = << >>
      BY <1>0, <1>1 DEF StartFails, AloneInv
  <2>2. CASE p = "27"
    <3>1. EmptyLinesInv'
        BY <1>a, <2>1, <2>2 DEF EmptyLinesInv
    <3> QED  BY <2>1, <2>2, <3>1, OneProgram
  <2>3. CASE p = "28"
    <3>1. RowsInv'
        BY <2>1, <2>3 DEF RowsInv
    <3> QED  BY <2>1, <2>3, <3>1, OneProgram
  <2>4. CASE p \in {"9", "9w"}
    <3>1. WaitInv'
        BY <2>1, <2>4 DEF WaitInv
    <3> QED  BY <2>1, <2>4, <3>1, OneProgram
  <2>5. CASE p = "10"
    <3>1. StatusInv'
        BY <2>1, <2>5 DEF StatusInv
    <3> QED  BY <2>1, <2>5, <3>1, OneProgram
  <2> QED  BY <2>2, <2>3, <2>4, <2>5
<1>2. CASE OpenAndPopen
  <2>1. given' \in Seq(Char)
    <3>1. given' \in UNION {[1..n -> Char] : n \in 0..MaxFile}
        BY <1>2 DEF OpenAndPopen, BoundedSeq, SeqOf
    <3>2. PICK n \in 0..MaxFile : given' \in [1..n -> Char]
        BY <3>1
    <3>3. n \in Nat
        BY <3>2, ChildAssumption
    <3> QED  BY <3>2, <3>3
  <2>2. Cardinality(EmptyUpTo(given', 0)) = 0
      BY <2>1, EmptyLinesAll
  <2>3. /\ parent' = "27" /\ parentAt' = "title" /\ worker' = ChildRuns /\ open' = TRUE /\ used' = 0 /\ piped' = << >>
        /\ prevChar' = "NL" /\ shown' = << >> /\ result' = "none"
      BY <1>0, <1>2 DEF OpenAndPopen, AloneInv
  <2>4. EmptyLinesInv'
      BY <2>1, <2>2, <2>3 DEF EmptyLinesInv
  <2> QED  BY <2>3, <2>4, OneProgram
<1>3. CASE P2open
  <2>1. parent' = "28" /\ RowsInv'
      BY <1>0, <1>3 DEF P2open, AloneInv, RowsInv
  <2> QED  BY <2>1, OneProgram
<1>4. ASSUME NEW p \in {"9", "9w", "10"}, Fork(p)
      PROVE  ChildInv'
  <2>1. parent' = p /\ parentAt' = "wait" /\ worker' = ChildRuns /\ shown' = << >> /\ result' = "none"
      BY <1>0, <1>4 DEF Fork, AloneInv
  <2>2. CASE p = "10"
      BY <2>1, <2>2, OneProgram DEF StatusInv
  <2>3. CASE p \in {"9", "9w"}
    <3>1. WaitInv'
        BY <2>1 DEF WaitInv
    <3> QED  BY <2>1, <2>3, <3>1, OneProgram
  <2> QED  BY <2>2, <2>3
<1>5. ASSUME NEW p \in {"11", "11c"}, initEnv(p)
      PROVE  ChildInv'
  <2>1. PICK n \in 1..MaxDirs : given' \in [1..n -> Holdings]
      BY <1>5 DEF initEnv
  <2>2. MaxDirs \in Nat
      BY ChildAssumption
  <2>3. given' \in Seq(Holdings) /\ Len(given') = n
      BY <2>1, <2>2
  <2>4. /\ parent' = p /\ used' = 0
        /\ \/ parentAt' = "search" /\ result' = "none" /\ open' = FALSE
           \/ parentAt' = "end" /\ result' \in {"failure", "killed"} /\ open' = FALSE
      BY <1>0, <1>5 DEF initEnv, AloneInv
  <2>5. SearchInv'
      BY <2>1, <2>2, <2>3, <2>4 DEF SearchInv
  <2> QED  BY <2>4, <2>5, OneProgram
<1> QED  BY <1>1, <1>2, <1>3, <1>4, <1>5

\* The invariant says what the programs show.
LEMMA ChildIsToldIf == ChildInv => ChildIsTold
<1> SUFFICES ASSUME ChildInv PROVE ChildIsTold
    OBVIOUS
<1>1. CountIsTold
  <2> SUFFICES ASSUME parent = "27", result = "success", worker = EXIT_SUCCESS PROVE shown = <<EmptyLines(given)>>
      BY DEF CountIsTold
  <2>1. /\ shown = <<Len(piped)>> /\ Len(piped) = Cardinality(EmptyUpTo(given, used))
        /\ used = Len(given) /\ given \in Seq(Char)
      BY DEF ChildInv, EmptyLinesInv
  <2> QED  BY <2>1, EmptyLinesAll
<1>2. RowsAreSorted
  <2> SUFFICES ASSUME parent = "28", result = "success", worker = EXIT_SUCCESS PROVE
                   /\ Len(shown) = NUM_INT
                   /\ \A i \in 2..Len(shown) : shown[i - 1] <= shown[i]
                   /\ \A v \in 0..(MAX - 1) : Times(shown, v) = Times(given, v)
      BY DEF RowsAreSorted
  <2>1. /\ used = NUM_INT /\ Len(shown) = used /\ shown \in Seq(Int) /\ InOrderOf(answer, given)
        /\ \A i \in 1..used : shown[i] = answer[i]
      BY DEF ChildInv, RowsInv
  <2>2. NUM_INT \in Nat
      BY ChildAssumption
  <2>3. \A i \in 2..NUM_INT : shown[i - 1] <= shown[i]
      BY <2>1, <2>2 DEF InOrderOf
  <2>4. shown = answer
      BY <2>1, <2>2 DEF InOrderOf
  <2>5. \A v \in 0..(MAX - 1) : Times(shown, v) = Times(given, v)
      BY <2>1, <2>4, SameTimes
  <2> QED  BY <2>1, <2>3, <2>5
<1>3. ParentLast
  <2>1. parent \in {"9", "9w"} => shown \in Seq({"text", "parent_line"})
      BY DEF ChildInv, WaitInv
  <2> QED  BY <2>1 DEF ChildInv, WaitInv, ParentLast
<1>4. EndIsTold
    BY DEF ChildInv, StatusInv, EndIsTold
<1>5. FirstInPath
  <2> DEFINE readable == {i \in 1..(Len(given) - 1) : given[i] \in {"file", "program"}}
  <2> SUFFICES ASSUME parent \in {"11", "11c"}, result = "replaced"
               PROVE  readable # {} /\ given[Min(readable)] = "program" /\ (open => parent = "11")
      BY DEF FirstInPath
  <2>1. /\ used \in 1..(Len(given) - 1) /\ given[used] = "program" /\ given \in Seq(Holdings)
        /\ \A i \in 1..(used - 1) : given[i] \notin {"file", "program"}
        /\ open => parent = "11"
      BY DEF ChildInv, SearchInv
  <2>2. used \in readable /\ \A i \in readable : used <= i
      BY <2>1
  <2>3. \A i \in readable : i \in Int
      BY <2>1
  <2> HIDE DEF readable
  <2>4. Min(readable) \in readable /\ Min(readable) <= used
      BY <2>2, Zenon DEF Min
  <2>5. Min(readable) = used
      BY <2>2, <2>3, <2>4
  <2> QED  BY <2>1, <2>2, <2>5
<1> QED  BY <1>1, <1>2, <1>3, <1>4, <1>5 DEF ChildIsTold

\* What a program shows, or becomes, is what the program it starts made of its
\* input: wc's count of 27/main.c, sort's rows of 28/main.c, the parent's last
\* line of 9_2_process, the end 10_exec tells and the program 11/main.c finds.
THEOREM ProgramsTold == ChildSpec => []ChildIsTold
<1>1. ChildInit => ChildInv
    BY ChildBegins
<1>2. ChildInv /\ [ChildNext]_childVars => ChildInv'
  <2> SUFFICES ASSUME ChildInv, [ChildNext]_childVars PROVE ChildInv'
      OBVIOUS
  <2>1. CASE UNCHANGED childVars
      BY <2>1 DEF childVars, ChildInv, AloneInv, EmptyLinesInv, RowsInv, WaitInv, StatusInv, SearchInv
  <2>2. CASE \/ \E p \in {"27", "28", "9", "9w", "10"} : StartFails(p)
             \/ OpenAndPopen \/ P2open
             \/ \E p \in {"9", "9w", "10"} : Fork(p)
             \/ \E p \in {"11", "11c"} : initEnv(p)
    <3>1. parent = "none"
        BY <2>2 DEF StartFails, OpenAndPopen, P2open, Fork, initEnv
    <3> QED  BY <2>2, <3>1, ChildStarts
  <2>3. CASE parent = "27" /\ CountsEmptyLines
      BY <2>3, EmptyLinesKept
  <2>4. CASE parent = "28" /\ SortsNumbers
      BY <2>4, RowsKept
  <2>5. CASE Waits
    <3>1. \/ parent \in {"9", "9w"} /\ (Wait9 \/ Wait9w)
          \/ parent = "10" /\ Wait10
        BY <2>5 DEF Waits, Wait9, Wait9w, Wait10
    <3> QED  BY <3>1, WaitKept, StatusKept
  <2>6. CASE execvpe
    <3>1. parentAt \in {"search", "exec"}
        BY <2>6 DEF execvpe, SearchPath, Execv
    <3> QED  BY <2>6, <3>1, SearchKept
  <2>7. CASE Wc
      BY <2>7, EmptyLinesKept DEF Wc
  <2>8. CASE NoSuchProgram
    <3>1. parent = "27" \/ parent = "28"
        BY <2>8 DEF NoSuchProgram
    <3> QED  BY <2>8, <3>1, EmptyLinesKept, RowsKept
  <2>9. CASE Sort
    <3>1. parent = "28"
        BY <2>9 DEF Sort
    <3> QED  BY <2>9, <3>1, RowsKept
  <2>10. CASE Cat
    <3>1. parent \in {"9", "9w"}
        BY <2>10 DEF Cat
    <3> QED  BY <2>10, <3>1, WaitKept
  <2>11. CASE UserProgram
    <3>1. parent = "10"
        BY <2>11 DEF UserProgram
    <3> QED  BY <2>11, <3>1, StatusKept
  <2> QED  BY <2>1, <2>2, <2>3, <2>4, <2>5, <2>6, <2>7, <2>8, <2>9, <2>10, <2>11
              DEF ChildNext, ParentStep, ChildStep
<1>3. ChildInv => ChildIsTold
    BY ChildIsToldIf
<1> QED  BY <1>1, <1>2, <1>3, PTL DEF ChildSpec

-----------------------------------------------------------------------------
(* HttpClient: the parts of a URL. *)

\* v are the n elements of s from i on.
IsPiece(v, s, i, n) ==
    Len(v) = n /\ \A k \in 1..n : v[k] = s[i + k - 1]

\* A piece of a text.
LEMMA PieceOf ==
    ASSUME NEW S, NEW s \in Seq(S), NEW i \in Nat, NEW n \in Nat, i >= 1, i + n - 1 <= Len(s), NEW j, j = i + n - 1
    PROVE  SubSeq(s, i, j) \in Seq(S) /\ IsPiece(SubSeq(s, i, j), s, i, n)
<1> DEFINE v == SubSeq(s, i, j)
           end == Len(s)
<1>1. end \in Nat /\ i \in Int /\ j \in Int
    BY LenProperties
<1>2. \A k \in i..j : k \in 1..end
  <2> HIDE DEF end
  <2> QED  BY <1>1 DEF end
<1>3. \A k \in i..j : s[k] \in S
    BY <1>2, ElementOfSeq
<1>4. /\ v \in Seq(S) /\ Len(v) = IF i <= j THEN j - i + 1 ELSE 0
      /\ \A k \in 1..(j - i + 1) : v[k] = s[i + k - 1]
    BY <1>1, <1>3, SubSeqProperties
<1> HIDE DEF v
<1>5. Len(v) = n
    BY <1>4
<1>6. \A k \in 1..n : v[k] = s[i + k - 1]
  <2>1. j - i + 1 = n
      OBVIOUS
  <2> QED  BY <1>4, <2>1
<1> QED  BY <1>4, <1>5, <1>6 DEF v, IsPiece

\* One text behind another.
LEMMA TextsJoined ==
    ASSUME NEW S, NEW s \in Seq(S), NEW t \in Seq(S), NEW u, u = s \o t
    PROVE  /\ u \in Seq(S) /\ Len(u) = Len(s) + Len(t)
           /\ \A i \in 1..Len(s) : u[i] = s[i]
           /\ \A i \in 1..Len(t) : u[Len(s) + i] = t[i]
OBVIOUS

\* Three texts one behind another, whichever two are joined first.
LEMMA ThreeJoined ==
    ASSUME NEW S, NEW s \in Seq(S), NEW t \in Seq(S), NEW u \in Seq(S)
    PROVE  s \o (t \o u) = s \o t \o u
BY ConcatAssociative

\* The characters of URLs, and of the parts of one.
UrlText == (UNION {Range(h) : h \in UrlHeads}) \cup UrlChars
PartText == UrlText \cup {"80", "h", ":", "/", "?", "#"}

\* The first n characters of a text, and the others.
LEMMA TextCut ==
    ASSUME NEW S, NEW s \in Seq(S), NEW n \in Nat, n <= Len(s)
    PROVE  /\ SubSeq(s, 1, n) \in Seq(S) /\ Len(SubSeq(s, 1, n)) = n
           /\ \A i \in 1..n : SubSeq(s, 1, n)[i] = s[i]
           /\ Drop(s, n) \in Seq(S) /\ Len(Drop(s, n)) = Len(s) - n
           /\ \A i \in 1..(Len(s) - n) : Drop(s, n)[i] = s[n + i]
<1> DEFINE v == SubSeq(s, 1, n)
           w == SubSeq(s, n + 1, Len(s))
           l == Len(s) - n
<1>1. Len(s) \in Nat /\ l \in Nat
    BY LenProperties
<1>2. v \in Seq(S) /\ IsPiece(v, s, 1, n)
  <2>1. 1 \in Nat /\ 1 >= 1 /\ 1 + n - 1 <= Len(s) /\ n = 1 + n - 1
      BY <1>1
  <2> QED  BY <2>1, PieceOf
<1>3. w \in Seq(S) /\ IsPiece(w, s, n + 1, l)
  <2>1. n + 1 \in Nat /\ n + 1 >= 1 /\ n + 1 + l - 1 <= Len(s) /\ Len(s) = n + 1 + l - 1
      BY <1>1
  <2> HIDE DEF l
  <2> QED  BY <1>1, <2>1, PieceOf
<1>4. Drop(s, n) = w
    BY DEF Drop
<1> HIDE DEF v, w
<1>5. \A i \in 1..n : v[i] = s[i]
  <2>1. \A i \in 1..n : 1 + i - 1 = i
      OBVIOUS
  <2> QED  BY <1>2, <2>1 DEF IsPiece
<1>6. \A i \in 1..l : w[i] = s[n + i]
  <2>1. \A i \in 1..l : n + 1 + i - 1 = n + i
      BY <1>1
  <2> HIDE DEF l
  <2> QED  BY <1>3, <2>1 DEF IsPiece
<1>7. Len(v) = n /\ Len(w) = l
    BY <1>2, <1>3 DEF IsPiece
<1> QED  BY <1>2, <1>3, <1>4, <1>5, <1>6, <1>7 DEF v

\* A text put together again.
LEMMA TextMended ==
    ASSUME NEW S, NEW s \in Seq(S), NEW n \in Nat, n <= Len(s)
    PROVE  SubSeq(s, 1, n) \o Drop(s, n) = s
<1> DEFINE v == SubSeq(s, 1, n)
           w == Drop(s, n)
           u == v \o w
<1>1. /\ v \in Seq(S) /\ Len(v) = n /\ (\A i \in 1..n : v[i] = s[i])
      /\ w \in Seq(S) /\ Len(w) = Len(s) - n /\ \A i \in 1..(Len(s) - n) : w[i] = s[n + i]
    BY TextCut
<1>2. u = v \o w
    OBVIOUS
<1> HIDE DEF v, w, u
<1>3. /\ u \in Seq(S) /\ Len(u) = Len(v) + Len(w)
      /\ (\A i \in 1..Len(v) : u[i] = v[i]) /\ \A i \in 1..Len(w) : u[Len(v) + i] = w[i]
    BY <1>1, <1>2, TextsJoined
<1>4. Len(s) \in Nat /\ Len(u) = Len(s)
    BY <1>1, <1>3, LenProperties
<1>5. ASSUME NEW i \in 1..Len(s) PROVE u[i] = s[i]
  <2>1. CASE i <= n
    <3>1. i \in 1..n
        BY <2>1
    <3> QED  BY <1>1, <1>3, <3>1
  <2>2. CASE i > n
    <3>1. i - n \in 1..(Len(s) - n) /\ n + (i - n) = i
        BY <1>4, <2>2
    <3>2. \A k \in 1..(Len(s) - n) : u[n + k] = s[n + k]
        BY <1>1, <1>3
    <3>3. u[n + (i - n)] = s[n + (i - n)]
        BY <3>1, <3>2
    <3> QED  BY <3>1, <3>3
  <2> QED  BY <2>1, <2>2
<1>6. u = s
    BY <1>3, <1>4, <1>5, SeqEqual
<1> QED  BY <1>2, <1>6 DEF v, w

\* A character, and a text cut behind it.
LEMMA MendedBehind ==
    ASSUME NEW S, NEW s \in Seq(S), NEW n \in Nat, n <= Len(s), n >= 1, NEW c, s[1] = c
    PROVE  /\ SubSeq(s, 2, n) \in Seq(S) /\ Len(SubSeq(s, 2, n)) = n - 1
           /\ \A i \in 1..(n - 1) : SubSeq(s, 2, n)[i] = s[i + 1]
           /\ <<c>> \o SubSeq(s, 2, n) = SubSeq(s, 1, n)
<1> DEFINE v == SubSeq(s, 2, n)
           w == SubSeq(s, 1, n)
           l == n - 1
           one == <<c>>
           u == one \o v
<1>0. Len(s) \in Nat /\ l \in Nat
    BY LenProperties
<1>1. v \in Seq(S) /\ IsPiece(v, s, 2, l)
  <2>1. 2 \in Nat /\ 2 >= 1 /\ 2 + l - 1 <= Len(s) /\ n = 2 + l - 1
      BY <1>0
  <2> HIDE DEF l
  <2> QED  BY <1>0, <2>1, PieceOf
<1>2. w \in Seq(S) /\ Len(w) = n /\ \A i \in 1..n : w[i] = s[i]
    BY TextCut
<1>3. one \in Seq(S) /\ Len(one) = 1 /\ one[1] = c
  <2>1. c \in S
    <3>1. 1 \in 1..Len(s)
        BY <1>0
    <3> QED  BY <3>1, ElementOfSeq
  <2> QED  BY <2>1
<1>4. u = one \o v
    OBVIOUS
<1>5. l = n - 1
    OBVIOUS
<1> HIDE DEF v, w, l, one, u
<1>6. Len(v) = l /\ \A i \in 1..l : v[i] = s[i + 1]
  <2>1. \A i \in 1..l : 2 + i - 1 = i + 1
      BY <1>0
  <2>2. Len(v) = l /\ \A i \in 1..l : v[i] = s[2 + i - 1]
      BY <1>1 DEF IsPiece
  <2>3. ASSUME NEW i \in 1..l PROVE v[i] = s[i + 1]
    <3>1. 2 + i - 1 = i + 1 /\ v[i] = s[2 + i - 1]
        BY <2>1, <2>2
    <3> QED  BY <3>1
  <2> QED  BY <2>2, <2>3
<1>7. /\ u \in Seq(S) /\ Len(u) = Len(one) + Len(v)
      /\ (\A i \in 1..Len(one) : u[i] = one[i]) /\ \A i \in 1..Len(v) : u[Len(one) + i] = v[i]
  <2>1. one \in Seq(S) /\ v \in Seq(S)
      BY <1>1, <1>3
  <2> QED  BY <1>4, <2>1, TextsJoined
<1>8. ASSUME NEW i \in 1..n PROVE u[i] = w[i]
  <2>1. CASE i = 1
    <3>1. 1 \in 1..Len(one) /\ 1 \in 1..n
        BY <1>3
    <3>2. u[1] = c /\ w[1] = c
        BY <1>2, <1>3, <1>7, <3>1
    <3> QED  BY <2>1, <3>2
  <2>2. CASE i # 1
    <3>1. i - 1 \in 1..l /\ 1 + (i - 1) = i /\ (i - 1) + 1 = i
        BY <1>0, <1>5, <2>2
    <3>2. u[i] = v[i - 1]
        BY <1>3, <1>6, <1>7, <3>1
    <3>3. v[i - 1] = s[i]
        BY <1>6, <3>1
    <3> QED  BY <1>2, <3>2, <3>3
  <2> QED  BY <2>1, <2>2
<1>9. Len(u) = n
    BY <1>0, <1>3, <1>5, <1>6, <1>7
<1>10. u = w
    BY <1>2, <1>7, <1>8, <1>9, SeqEqual
<1> QED  BY <1>1, <1>4, <1>5, <1>6, <1>10 DEF v, w, one

\* Up to the first of a set of delimiters, there is none.
LEMMA UntilIs ==
    ASSUME NEW S, NEW s \in Seq(S), NEW ds
    PROVE  /\ Until(s, ds) \in Nat /\ Until(s, ds) <= Len(s)
           /\ \A i \in 1..Until(s, ds) : s[i] \notin ds
           /\ Until(s, ds) < Len(s) => s[Until(s, ds) + 1] \in ds
<1> DEFINE end == Len(s)
           hits == {i \in DOMAIN s : s[i] \in ds}
           places == hits \cup {end + 1}
           least == Min(places)
<1>1. end \in Nat /\ DOMAIN s = 1..end
    BY LenProperties
<1>2. hits = {i \in 1..end : s[i] \in ds}
    BY <1>1
<1>3. Until(s, ds) = least - 1
    BY DEF Until
<1> HIDE DEF end, hits
<1>4. places \subseteq Nat /\ end + 1 \in places
    BY <1>1, <1>2
<1>5. least \in places /\ \A j \in places : least <= j
  <2> HIDE DEF places
  <2>1. places # {}
      BY <1>4
  <2> QED  BY <1>4, <2>1, LeastChosen, Zenon DEF Min
<1>6. least \in hits \/ least = end + 1
    BY <1>5
<1>7. (\A j \in hits : least <= j) /\ least <= end + 1
    BY <1>4, <1>5
<1> HIDE DEF least
<1>8. least \in Nat /\ least >= 1
    BY <1>1, <1>2, <1>6
<1>9. ASSUME NEW i \in 1..(least - 1) PROVE s[i] \notin ds
  <2>1. i \in 1..end /\ i < least
      BY <1>1, <1>7, <1>8
  <2>2. i \notin hits
      BY <1>2, <1>7, <1>8, <2>1
  <2> QED  BY <1>2, <2>1, <2>2
<1>10. least - 1 < end => s[least] \in ds
  <2>1. least - 1 < end => least # end + 1
      BY <1>1, <1>8
  <2> QED  BY <1>2, <1>6, <2>1
<1>11. least - 1 \in Nat /\ least - 1 <= end /\ (least - 1) + 1 = least
    BY <1>1, <1>7, <1>8
<1> QED  BY <1>3, <1>9, <1>10, <1>11 DEF end

\* A text and nothing behind it.
LEMMA WithNothing ==
    ASSUME NEW S, NEW s \in Seq(S)
    PROVE  s \o << >> = s
OBVIOUS

\* A text whose first character was taken off, and put back.
LEMMA HeadMended ==
    ASSUME NEW S, NEW s \in Seq(S), s # << >>, NEW c, s[1] = c
    PROVE  <<c>> \o Drop(s, 1) = s /\ <<c>> \in Seq(S) /\ Drop(s, 1) \in Seq(S)
<1> DEFINE v == SubSeq(s, 1, 1)
<1>1. Len(s) \in Nat /\ Len(s) >= 1
    BY LenProperties, EmptySeq
<1>2. v \o Drop(s, 1) = s
    BY <1>1, TextMended
<1>3. v \in Seq(S) /\ Len(v) = 1 /\ \A i \in 1..1 : v[i] = s[i]
    BY <1>1, TextCut
<1>4. Drop(s, 1) \in Seq(S)
    BY <1>1, TextCut
<1> HIDE DEF v
<1>5. v = <<c>>
  <2>1. v[1] = c
      BY <1>3
  <2> QED  BY <1>3, <2>1
<1> QED  BY <1>2, <1>3, <1>4, <1>5

\* The URL as the parts give it, up to each of them; the URL with a scheme in small letters.
ToScheme == Part("scheme") \o <<":", "/", "/">>
ToHost == ToScheme \o Part("host")
PortGiven == IF Part("port") = <<"80">> THEN << >> ELSE After(":", "port")
ToPort == ToHost \o PortGiven
ToPath == ToPort \o After("/", "path")
ToQuery == ToPath \o After("?", "query")
ToFragment == ToQuery \o After("#", "fragment")

WholeUrl == [i \in DOMAIN url |-> IF i < Until(url, {":"}) + 1 THEN LowerCase(url[i]) ELSE url[i]]

Makes(s, t, u) == s \o t = u

\* No two parts have one name, each is a text, and none holds what would have ended it.
PartNames == {"scheme", "host", "port", "path", "query", "fragment"}
NoPart(names) == \A x \in names : ~Has(x)
Unique == \A p, q \in parts : p[1] = q[1] => p = q
PartsAreTexts == \A x \in PartNames : Part(x) \in Seq(PartText)
KeptApart ==
    /\ Part("host")[1] # "[" => No({":", "/"}, Part("host"))
    /\ Part("host")[1] = "[" => \A i \in 1..(Len(Part("host")) - 1) : Part("host")[i] # "]"
    /\ No({"/"}, Part("port")) /\ No({"?", "#"}, Part("path")) /\ No({"#"}, Part("query"))

\* What is left of the URL when each part is looked for.
LeftOf ==
    /\ urlAt \in {"start", "scheme"} => parts = {}
    /\ urlAt = "scheme" => rest = url
    /\ urlAt = "host" => NoPart(PartNames \ {"scheme"}) /\ Makes(ToScheme, rest, WholeUrl)
    /\ urlAt = "port" => NoPart({"port", "path", "query", "fragment"}) /\ Makes(ToHost, rest, WholeUrl)
    /\ urlAt = "path" => NoPart({"path", "query", "fragment"}) /\ Makes(ToPort, <<"/">> \o rest, WholeUrl)
    /\ urlAt = "query" => /\ NoPart({"query", "fragment"}) /\ Makes(ToPath, rest, WholeUrl)
                          /\ rest = << >> \/ rest[1] \in {"?", "#"}
    /\ urlAt = "fragment" => /\ NoPart({"fragment"}) /\ Makes(ToQuery, rest, WholeUrl)
                             /\ rest = << >> \/ rest[1] = "#"
    /\ urlAt = "parsed" => ToFragment = WholeUrl

PartPlaces == {"host", "port", "path", "query", "fragment"}
SchemeCut == urlAt \in PartPlaces \cup {"parsed"} => Len(Part("scheme")) = Until(url, {":"})

UrlTypes ==
    /\ SchemeCut
    /\ url \in Seq(UrlText) /\ rest \in Seq(UrlText)
    /\ urlAt \in {"start", "scheme", "host", "port", "path", "query", "fragment", "parsed",
                  "error", "connect", "receive", "over"}

UrlInv == UrlTypes /\ Unique /\ PartsAreTexts /\ KeptApart /\ LeftOf

\* One part more, and the others as they were.
LEMMA PartAdded ==
    ASSUME Unique, NEW x, NEW t, ~Has(x), parts' = parts \cup {<<x, t>>}
    PROVE  /\ Unique' /\ Has(x)' /\ Part(x)' = t
           /\ \A y : y # x => (Has(y)' <=> Has(y)) /\ Part(y)' = Part(y)
<1> DEFINE new == <<x, t>>
<1>1. new[1] = x /\ new[2] = t /\ new \in parts' /\ \A p \in parts' : p \in parts \/ p = new
    OBVIOUS
<1>2. \A p \in parts : p[1] # x /\ p \in parts'
    BY DEF Has
<1> HIDE DEF new
<1>3. Unique'
    BY <1>1, <1>2 DEF Unique
<1>4. Has(x)'
    BY <1>1 DEF Has
<1>5. Part(x)' = t
  <2> DEFINE p == CHOOSE p \in parts' : p[1] = x
  <2>1. p \in parts' /\ p[1] = x
      BY <1>1, Zenon
  <2>2. Part(x)' = p[2]
      BY <1>4 DEF Part
  <2> HIDE DEF p
  <2>3. p = new
      BY <1>1, <1>2, <2>1
  <2> QED  BY <1>1, <2>2, <2>3
<1>6. ASSUME NEW y, y # x PROVE (Has(y)' <=> Has(y)) /\ Part(y)' = Part(y)
  <2>1. Has(y)' <=> Has(y)
      BY <1>1, <1>2, <1>6 DEF Has
  <2>2. CASE ~Has(y)
      BY <2>1, <2>2 DEF Part
  <2>3. CASE Has(y)
    <3> DEFINE p == CHOOSE p \in parts : p[1] = y
               q == CHOOSE q \in parts' : q[1] = y
    <3>1. p \in parts /\ p[1] = y
      <4>1. \E p1 \in parts : p1[1] = y
          BY <2>3 DEF Has
      <4> QED  BY <4>1, Zenon
    <3>2. q \in parts' /\ q[1] = y
      <4>1. \E q1 \in parts' : q1[1] = y
          BY <2>1, <2>3 DEF Has
      <4> QED  BY <4>1, Zenon
    <3>3. Part(y) = p[2] /\ Part(y)' = q[2]
        BY <2>1, <2>3 DEF Part
    <3> HIDE DEF p, q
    <3>4. p = q
        BY <1>1, <1>6, <3>1, <3>2 DEF Unique
    <3> QED  BY <2>1, <3>3, <3>4
  <2> QED  BY <2>2, <2>3
<1> QED  BY <1>3, <1>4, <1>5, <1>6

\* The parts of the URL and what they are joined to are texts.
LEMMA JoinsAreTexts ==
    ASSUME PartsAreTexts
    PROVE  /\ ToScheme \in Seq(PartText) /\ ToHost \in Seq(PartText) /\ ToPort \in Seq(PartText)
           /\ ToPath \in Seq(PartText) /\ ToQuery \in Seq(PartText)
<1>1. {":", "/", "?", "#"} \subseteq PartText
    BY DEF PartText
<1>2. \A c \in {":", "/", "?", "#"} : <<c>> \in Seq(PartText)
    BY <1>1
<1>3. <<":", "/", "/">> \in Seq(PartText) /\ << >> \in Seq(PartText)
    BY <1>1
<1>4. \A x \in PartNames : Part(x) \in Seq(PartText)
    BY DEF PartsAreTexts
<1>5. \A s, t \in Seq(PartText) : s \o t \in Seq(PartText)
  <2> HIDE DEF PartText
  <2> QED  BY ConcatProperties
<1>6. ASSUME NEW c \in {":", "/", "?", "#"}, NEW x \in PartNames
      PROVE  After(c, x) \in Seq(PartText)
    BY <1>2, <1>3, <1>4, <1>5 DEF After
<1>7. /\ Part("scheme") \in Seq(PartText) /\ Part("host") \in Seq(PartText)
      /\ After(":", "port") \in Seq(PartText) /\ After("/", "path") \in Seq(PartText)
      /\ After("?", "query") \in Seq(PartText)
    BY <1>4, <1>6 DEF PartNames
<1>8. ToScheme \in Seq(PartText)
    BY <1>3, <1>5, <1>7 DEF ToScheme
<1>9. ToHost \in Seq(PartText)
    BY <1>5, <1>7, <1>8 DEF ToHost
<1>10. ToPort \in Seq(PartText)
  <2>1. PortGiven \in Seq(PartText)
      BY <1>3, <1>7 DEF PortGiven
  <2> QED  BY <1>5, <1>9, <2>1 DEF ToPort
<1>11. ToPath \in Seq(PartText)
    BY <1>5, <1>7, <1>10 DEF ToPath
<1>12. ToQuery \in Seq(PartText)
    BY <1>5, <1>7, <1>11 DEF ToQuery
<1> QED  BY <1>8, <1>9, <1>10, <1>11, <1>12

\* A part is cut off: what is joined up to it, with what is left, is what it was.
LEMMA Joined ==
    ASSUME NEW s \in Seq(PartText), NEW t \in Seq(PartText), NEW behind \in Seq(PartText),
           NEW r, Makes(t, behind, r), NEW w, Makes(s, r, w)
    PROVE  Makes(s \o t, behind, w)
<1>1. s \o (t \o behind) = s \o t \o behind
    BY ThreeJoined
<1>2. t \o behind = r
    BY DEF Makes
<1>3. s \o r = w
    BY DEF Makes
<1>4. s \o t \o behind = s \o r
    BY <1>1, <1>2
<1> QED  BY <1>3, <1>4 DEF Makes

\* Texts of the URL are texts of parts.
LEMMA UrlTextIsPart ==
    /\ \A s : s \in Seq(UrlText) => s \in Seq(PartText)
    /\ "80" \notin UrlText
<1>1. ASSUME NEW s \in Seq(UrlText) PROVE s \in Seq(PartText)
  <2>1. UrlText \subseteq PartText
      BY DEF PartText
  <2>2. Len(s) \in Nat /\ s \in [1..Len(s) -> UrlText]
      BY <1>1
  <2>3. s \in [1..Len(s) -> PartText]
      BY <2>1, <2>2
  <2> QED  BY <2>2, <2>3
<1>2. "80" \notin UrlText
    BY ClientAssumption DEF UrlText
<1> QED  BY <1>1, <1>2

\* What a part step does to the other parts.
LEMMA PartStep ==
    ASSUME UrlInv, NEW x \in PartNames, NEW t, NEW behind, NEW next, ~Has(x), Parsed(x, t, behind, next),
           t \in Seq(PartText), behind \in Seq(UrlText), next \in {"host", "port", "path", "query", "fragment", "parsed"},
           IF x = "scheme" THEN Len(t) = Until(url, {":"}) ELSE urlAt \in PartPlaces
    PROVE  /\ UrlTypes' /\ Unique' /\ PartsAreTexts' /\ Has(x)' /\ Part(x)' = t
           /\ \A y : y # x => (Has(y)' <=> Has(y)) /\ Part(y)' = Part(y)
           /\ rest' = behind /\ urlAt' = next /\ WholeUrl' = WholeUrl
<1>1. parts' = parts \cup {<<x, t>>} /\ rest' = behind /\ urlAt' = next /\ url' = url
    BY DEF Parsed
<1>2. /\ Unique' /\ Has(x)' /\ Part(x)' = t
      /\ \A y : y # x => (Has(y)' <=> Has(y)) /\ Part(y)' = Part(y)
    BY <1>1, PartAdded DEF UrlInv
<1>3. PartsAreTexts'
  <2>1. \A y \in PartNames : Part(y) \in Seq(PartText)
      BY DEF UrlInv, PartsAreTexts
  <2>2. ASSUME NEW y \in PartNames PROVE Part(y)' \in Seq(PartText)
    <3>1. y = x \/ Part(y)' = Part(y)
        BY <1>2
    <3> QED  BY <1>2, <2>1, <3>1
  <2> QED  BY <2>2 DEF PartsAreTexts
<1>4. WholeUrl' = WholeUrl
    BY <1>1 DEF WholeUrl
<1>5. UrlTypes'
  <2>1. SchemeCut'
    <3>1. CASE x = "scheme"
        BY <1>1, <1>2, <3>1 DEF SchemeCut
    <3>2. CASE x # "scheme"
      <4>1. Part("scheme")' = Part("scheme")
          BY <1>2, <3>2
      <4>2. Len(Part("scheme")) = Until(url, {":"})
          BY <3>2 DEF UrlInv, UrlTypes, SchemeCut
      <4> QED  BY <1>1, <4>1, <4>2 DEF SchemeCut
    <3> QED  BY <3>1, <3>2
  <2> QED  BY <1>1, <2>1 DEF UrlInv, UrlTypes
<1> QED  BY <1>1, <1>2, <1>3, <1>4, <1>5

\* A URL that is none.
LEMMA BadUrlStep ==
    ASSUME UrlInv, BadUrl
    PROVE  UrlInv'
<1>1. /\ urlAt' = "error" /\ url' = url /\ rest' = rest /\ parts' = parts
    BY DEF BadUrl
<1>2. UrlTypes'
    BY <1>1 DEF UrlInv, UrlTypes, SchemeCut, PartPlaces
<1>3. Unique' /\ LeftOf'
    BY <1>1 DEF UrlInv, Unique, LeftOf
<1>4. \A y : (Has(y)' <=> Has(y)) /\ Part(y)' = Part(y)
    BY <1>1 DEF Has, Part
<1>5. PartsAreTexts' /\ KeptApart'
    BY <1>4 DEF UrlInv, PartsAreTexts, KeptApart
<1> QED  BY <1>2, <1>3, <1>5 DEF UrlInv

\* The scheme, in small letters, and the colon and slashes behind it.
LEMMA SchemeStep ==
    ASSUME UrlInv, Scheme
    PROVE  UrlInv'
<1> DEFINE n == Until(rest, {":"})
           t == [i \in 1..n |-> LowerCase(rest[i])]
           behind == Drop(rest, n + 3)
           back == Drop(rest, n)
           slashes == <<":", "/", "/">>
<1>1. /\ urlAt = "scheme" /\ url \in Seq(UrlText) /\ rest \in Seq(UrlText) /\ rest = url /\ parts = {}
    BY DEF Scheme, UrlInv, UrlTypes, LeftOf
<1>2. CASE SchemeEnds(n) /\ Parsed("scheme", t, behind, "host")
  <2>1. n \in Nat /\ n <= Len(rest) /\ Len(rest) \in Nat
      BY <1>1, UntilIs, LenProperties
  <2>2. back \in Seq(UrlText) /\ Len(back) = Len(rest) - n /\ \A i \in 1..(Len(rest) - n) : back[i] = rest[n + i]
    <3> HIDE DEF n
    <3> QED  BY <1>1, <2>1, TextCut
  <2>3. Len(back) >= 3 /\ back[1] = ":" /\ back[2] = "/" /\ back[3] = "/"
    <3>1. IsPrefix(slashes, back)
        BY <1>2 DEF SchemeEnds
    <3> HIDE DEF back
    <3>2. Len(slashes) = 3 /\ slashes[1] = ":" /\ slashes[2] = "/" /\ slashes[3] = "/" /\ slashes \in Seq({":", "/"})
        OBVIOUS
    <3>3. Len(back) >= 3 /\ SubSeq(slashes, 1, 3) = SubSeq(back, 1, 3)
        BY <3>1, <3>2 DEF IsPrefix
    <3>4. 3 \in Nat /\ 3 <= Len(slashes) /\ 3 <= Len(back)
        BY <2>1, <2>2, <3>2, <3>3
    <3>5. \A i \in 1..3 : SubSeq(back, 1, 3)[i] = back[i]
        BY <2>2, <3>4, TextCut
    <3>6. \A i \in 1..3 : SubSeq(slashes, 1, 3)[i] = slashes[i]
      <4> HIDE DEF slashes
      <4> QED  BY <3>2, <3>4, TextCut
    <3>7. 1 \in 1..3 /\ 2 \in 1..3 /\ 3 \in 1..3
        OBVIOUS
    <3> HIDE DEF slashes
    <3> QED  BY <3>2, <3>3, <3>5, <3>6, <3>7
  <2>4. n + 3 \in Nat /\ n + 3 <= Len(rest)
      BY <2>1, <2>2, <2>3
  <2>5. behind \in Seq(UrlText) /\ Len(behind) = Len(rest) - (n + 3) /\ \A i \in 1..(Len(rest) - (n + 3)) : behind[i] = rest[n + 3 + i]
    <3> DEFINE k == n + 3
    <3>1. k \in Nat /\ k <= Len(rest) /\ behind = Drop(rest, k)
        BY <2>4
    <3> HIDE DEF n, k, behind
    <3>2. /\ Drop(rest, k) \in Seq(UrlText) /\ Len(Drop(rest, k)) = Len(rest) - k
          /\ \A i \in 1..(Len(rest) - k) : Drop(rest, k)[i] = rest[k + i]
        BY <1>1, <3>1, TextCut
    <3> QED  BY <3>1, <3>2 DEF k
  <2>6. t \in Seq(PartText) /\ Len(t) = n /\ \A i \in 1..n : t[i] = LowerCase(rest[i])
    <3>1. \A i \in 1..n : LowerCase(rest[i]) \in PartText
      <4>1. \A i \in 1..Len(rest) : rest[i] \in UrlText
          BY <1>1, ElementOfSeq
      <4>2. \A i \in 1..n : rest[i] \in UrlText
          BY <2>1, <4>1
      <4>3. "h" \in PartText /\ UrlText \subseteq PartText
          BY DEF PartText
      <4> QED  BY <4>2, <4>3 DEF LowerCase
    <3> HIDE DEF n
    <3> QED  BY <2>1, <3>1
  <2>7. /\ UrlTypes' /\ Unique' /\ PartsAreTexts' /\ Has("scheme")' /\ Part("scheme")' = t
        /\ \A y : y # "scheme" => (Has(y)' <=> Has(y)) /\ Part(y)' = Part(y)
        /\ rest' = behind /\ urlAt' = "host" /\ WholeUrl' = WholeUrl
    <3>1. ~Has("scheme") /\ "scheme" \in PartNames
        BY <1>1 DEF Has, PartNames
    <3>2. Len(t) = Until(url, {":"})
        BY <1>1, <2>6
    <3> HIDE DEF t, behind
    <3> QED  BY <1>2, <2>5, <2>6, <3>1, <3>2, PartStep
  <2>8. \A y : ~Has(y) /\ Part(y) = << >>
      BY <1>1 DEF Has, Part
  <2>9. NoPart(PartNames \ {"scheme"})'
      BY <2>7, <2>8 DEF NoPart
  <2>10. KeptApart'
    <3>1. Part("host")' = << >> /\ Part("port")' = << >> /\ Part("path")' = << >> /\ Part("query")' = << >>
        BY <2>7, <2>8
    <3> QED  BY <3>1 DEF KeptApart, No
  <2>11. (t \o slashes) \o behind = WholeUrl
    <3> DEFINE s == t \o slashes
               w == s \o behind
    <3>1. slashes \in Seq(PartText) /\ Len(slashes) = 3 /\ slashes[1] = ":" /\ slashes[2] = "/" /\ slashes[3] = "/"
        BY DEF PartText
    <3>2. s = t \o slashes /\ w = s \o behind
        OBVIOUS
    <3>3. behind \in Seq(PartText)
        BY <2>5, UrlTextIsPart
    <3> HIDE DEF slashes, s, w, t, behind, back
    <3>4. /\ s \in Seq(PartText) /\ Len(s) = Len(t) + Len(slashes)
          /\ (\A i \in 1..Len(t) : s[i] = t[i]) /\ \A i \in 1..Len(slashes) : s[Len(t) + i] = slashes[i]
      <4>1. t \in Seq(PartText) /\ slashes \in Seq(PartText)
          BY <2>6, <3>1
      <4> QED  BY <3>2, <4>1, TextsJoined
    <3>5. /\ w \in Seq(PartText) /\ Len(w) = Len(s) + Len(behind)
          /\ (\A i \in 1..Len(s) : w[i] = s[i]) /\ \A i \in 1..Len(behind) : w[Len(s) + i] = behind[i]
        BY <3>2, <3>3, <3>4, TextsJoined
    <3>6. Len(s) = n + 3 /\ Len(w) = Len(rest)
        BY <2>1, <2>5, <2>6, <3>1, <3>4, <3>5
    <3>7. WholeUrl = [i \in 1..Len(rest) |-> IF i < n + 1 THEN LowerCase(rest[i]) ELSE rest[i]]
      <4>1. DOMAIN url = 1..Len(rest)
          BY <1>1, LenProperties
      <4> QED  BY <1>1, <4>1 DEF WholeUrl
    <3> HIDE DEF n
    <3>8. ASSUME NEW i \in 1..Len(rest) PROVE w[i] = WholeUrl[i]
      <4>1. CASE i <= n
        <5>1. i \in 1..n /\ i \in 1..(n + 3) /\ i < n + 1
            BY <2>1, <4>1
        <5>2. w[i] = s[i] /\ s[i] = t[i]
            BY <2>6, <3>4, <3>5, <3>6, <5>1
        <5> QED  BY <2>6, <3>7, <5>1, <5>2
      <4>2. CASE i > n /\ i <= n + 3
        <5>1. i - n \in 1..3 /\ n + (i - n) = i /\ ~(i < n + 1) /\ i \in 1..(n + 3) /\ i - n \in 1..(Len(rest) - n)
            BY <2>1, <4>2
        <5>2. w[i] = s[i]
            BY <3>5, <3>6, <5>1
        <5>3. s[n + (i - n)] = slashes[i - n]
          <6>1. \A k \in 1..3 : s[n + k] = slashes[k]
              BY <2>6, <3>1, <3>4
          <6> QED  BY <5>1, <6>1
        <5>4. back[i - n] = rest[n + (i - n)]
            BY <2>2, <5>1
        <5>5. slashes[i - n] = back[i - n]
            BY <2>3, <3>1, <5>1
        <5>6. WholeUrl[i] = rest[i]
            BY <3>7, <5>1
        <5> QED  BY <5>1, <5>2, <5>3, <5>4, <5>5, <5>6
      <4>3. CASE i > n + 3
        <5>1. i - (n + 3) \in 1..(Len(rest) - (n + 3)) /\ n + 3 + (i - (n + 3)) = i /\ ~(i < n + 1)
            BY <2>1, <4>3
        <5>2. w[n + 3 + (i - (n + 3))] = behind[i - (n + 3)]
          <6>1. \A k \in 1..(Len(rest) - (n + 3)) : w[n + 3 + k] = behind[k]
              BY <2>5, <3>5, <3>6
          <6> QED  BY <5>1, <6>1
        <5>3. behind[i - (n + 3)] = rest[n + 3 + (i - (n + 3))]
            BY <2>5, <5>1
        <5>4. WholeUrl[i] = rest[i]
            BY <3>7, <5>1
        <5> QED  BY <5>1, <5>2, <5>3, <5>4
      <4> QED  BY <2>1, <4>1, <4>2, <4>3
    <3>9. w = [i \in 1..Len(rest) |-> w[i]]
      <4>1. DOMAIN w = 1..Len(w) /\ w = [i \in DOMAIN w |-> w[i]]
          BY <3>5, LenProperties
      <4> QED  BY <3>6, <4>1
    <3>10. w = WholeUrl
        BY <3>7, <3>8, <3>9
    <3> QED  BY <3>2, <3>10
  <2>12. Makes(ToScheme, rest, WholeUrl)'
    <3>1. ToScheme' = t \o slashes
        BY <2>7 DEF ToScheme
    <3> HIDE DEF t, behind, slashes
    <3> QED  BY <2>7, <2>11, <3>1 DEF Makes
  <2>13. LeftOf'
      BY <2>7, <2>9, <2>12 DEF LeftOf
  <2> QED  BY <2>7, <2>10, <2>13 DEF UrlInv
<1>3. CASE BadUrl
    BY <1>3, BadUrlStep
<1> QED  BY <1>2, <1>3 DEF Scheme

\* The host.
LEMMA HostStep ==
    ASSUME UrlInv, Host
    PROVE  UrlInv'
<1> DEFINE a == Until(rest, {"]"}) + 1
           b == Until(rest, {":", "/"})
           n == IF Here1 = "[" THEN Min({a, Len(rest)}) ELSE b
           v == SubSeq(rest, 1, n)
           behind == Drop(rest, n)
<1>1. /\ urlAt = "host" /\ rest \in Seq(UrlText) /\ PartsAreTexts /\ KeptApart
      /\ NoPart(PartNames \ {"scheme"}) /\ Makes(ToScheme, rest, WholeUrl)
    BY DEF Host, UrlInv, UrlTypes, LeftOf
<1>2. (n > 0 /\ Parsed("host", v, behind, "port")) \/ BadUrl
    BY DEF Host
<1>3. CASE n > 0 /\ Parsed("host", v, behind, "port")
  <2>1. Len(rest) \in Nat /\ a \in Nat /\ a >= 1 /\ b \in Nat /\ b <= Len(rest) /\ \A i \in 1..b : rest[i] \notin {":", "/"}
      BY <1>1, UntilIs, LenProperties
  <2>2. n \in Nat /\ n <= Len(rest)
    <3> DEFINE two == {a, Len(rest)}
    <3>1. two \subseteq Nat /\ two # {} /\ Len(rest) \in two
        BY <2>1
    <3>2. Min(two) \in two /\ \A j \in two : Min(two) <= j
      <4> HIDE DEF two
      <4> QED  BY <3>1, LeastChosen, Zenon DEF Min
    <3> DEFINE least == Min(two)
    <3>3. least \in Nat /\ least <= Len(rest)
        BY <3>1, <3>2
    <3>4. n = IF Here1 = "[" THEN least ELSE b
        OBVIOUS
    <3> HIDE DEF least, two, n
    <3> QED  BY <2>1, <3>3, <3>4
  <2>3. Here1 # "[" => n = b
      OBVIOUS
  <2>12. Here1 = "[" => n <= a
    <3> DEFINE two == {a, Len(rest)}
    <3>1. two \subseteq Nat /\ two # {} /\ a \in two
        BY <2>1
    <3>2. Min(two) \in two /\ \A j \in two : Min(two) <= j
      <4> HIDE DEF two
      <4> QED  BY <3>1, LeastChosen, Zenon DEF Min
    <3>3. Here1 = "[" => n = Min(two)
        OBVIOUS
    <3> HIDE DEF two, n, a
    <3> QED  BY <3>1, <3>2, <3>3
  <2> HIDE DEF n
  <2>4. /\ v \in Seq(UrlText) /\ Len(v) = n /\ (\A i \in 1..n : v[i] = rest[i]) /\ behind \in Seq(UrlText)
      BY <1>1, <2>2, TextCut
  <2>5. Makes(v, behind, rest)
      BY <1>1, <2>2, TextMended DEF Makes
  <2> HIDE DEF v, behind
  <2>6. v \in Seq(PartText) /\ behind \in Seq(PartText) /\ rest \in Seq(PartText)
      BY <1>1, <2>4, UrlTextIsPart
  <2>7. /\ UrlTypes' /\ Unique' /\ PartsAreTexts' /\ Has("host")' /\ Part("host")' = v
        /\ \A y : y # "host" => (Has(y)' <=> Has(y)) /\ Part(y)' = Part(y)
        /\ rest' = behind /\ urlAt' = "port" /\ WholeUrl' = WholeUrl
    <3>1. ~Has("host") /\ "host" \in PartNames
        BY <1>1 DEF NoPart, PartNames
    <3>2. urlAt \in PartPlaces /\ "host" # "scheme"
        BY <1>1 DEF PartPlaces
    <3> QED  BY <1>3, <2>4, <2>6, <3>1, <3>2, PartStep
  <2>8. KeptApart'
    <3>1. ASSUME v[1] # "[" PROVE No({":", "/"}, v)
      <4>1. 1 \in 1..n /\ 1 \in 1..Len(rest)
          BY <1>3, <2>1, <2>2
      <4>2. rest # << >> /\ v[1] = rest[1]
          BY <2>4, <4>1
      <4>3. n = b
          BY <2>3, <3>1, <4>2 DEF Here1
      <4>4. DOMAIN v = 1..n
          BY <2>4, LenProperties
      <4> QED  BY <2>1, <2>4, <4>3, <4>4 DEF No
    <3>2. Part("port")' = Part("port") /\ Part("path")' = Part("path") /\ Part("query")' = Part("query")
        BY <2>7
    <3>3. ASSUME v[1] = "[", NEW i \in 1..(Len(v) - 1) PROVE v[i] # "]"
      <4>1. 1 \in 1..n /\ 1 \in 1..Len(rest)
          BY <1>3, <2>1, <2>2
      <4>2. rest # << >> /\ v[1] = rest[1]
          BY <2>4, <4>1
      <4>3. n <= a
          BY <2>12, <3>3, <4>2 DEF Here1
      <4>4. i \in 1..n /\ i \in 1..Until(rest, {"]"})
        <5>1. i \in Int /\ i >= 1 /\ i <= n - 1 /\ n \in Nat /\ a \in Nat
            BY <2>1, <2>2, <2>4
        <5>2. i <= a - 1 /\ a - 1 = Until(rest, {"]"})
          <6>1. Until(rest, {"]"}) \in Nat /\ a = Until(rest, {"]"}) + 1
              BY <1>1, UntilIs
          <6> HIDE DEF a
          <6> QED  BY <4>3, <5>1, <6>1
        <5> HIDE DEF a
        <5> QED  BY <5>1, <5>2
      <4>5. rest[i] \notin {"]"}
          BY <1>1, <4>4, UntilIs
      <4> QED  BY <2>4, <4>4, <4>5
    <3> QED  BY <1>1, <2>7, <3>1, <3>2, <3>3 DEF KeptApart
  <2>9. Makes(ToScheme \o v, behind, WholeUrl)
    <3>1. ToScheme \in Seq(PartText)
        BY <1>1, JoinsAreTexts
    <3> QED  BY <1>1, <2>5, <2>6, <3>1, Joined
  <2>10. ToHost' = ToScheme \o v
    <3>1. ToScheme' = ToScheme
        BY <2>7 DEF ToScheme
    <3> QED  BY <2>7, <3>1 DEF ToHost
  <2>11. Makes(ToHost, rest, WholeUrl)'
      BY <2>7, <2>9, <2>10 DEF Makes
  <2>13. NoPart({"port", "path", "query", "fragment"})'
      BY <1>1, <2>7 DEF NoPart, PartNames
  <2>14. LeftOf'
      BY <2>7, <2>11, <2>13 DEF LeftOf
  <2> QED  BY <2>7, <2>8, <2>14 DEF UrlInv
<1> QED  BY <1>2, <1>3, BadUrlStep

\* The path.
LEMMA PathStep ==
    ASSUME UrlInv, Path
    PROVE  UrlInv'
<1> DEFINE n == Until(rest, {"#", "?"})
           v == SubSeq(rest, 1, n)
           behind == Drop(rest, n)
<1>1. /\ urlAt = "path" /\ rest \in Seq(UrlText) /\ PartsAreTexts /\ KeptApart
      /\ NoPart({"path", "query", "fragment"}) /\ Makes(ToPort, <<"/">> \o rest, WholeUrl)
    BY DEF Path, UrlInv, UrlTypes, LeftOf
<1>2. Parsed("path", v, behind, "query")
    BY DEF Path
<1>3. /\ n \in Nat /\ n <= Len(rest) /\ (\A i \in 1..n : rest[i] \notin {"#", "?"})
      /\ n < Len(rest) => rest[n + 1] \in {"#", "?"}
    BY <1>1, UntilIs
<1> HIDE DEF n
<1>4. /\ v \in Seq(UrlText) /\ Len(v) = n /\ (\A i \in 1..n : v[i] = rest[i]) /\ behind \in Seq(UrlText)
      /\ Len(behind) = Len(rest) - n /\ \A i \in 1..(Len(rest) - n) : behind[i] = rest[n + i]
  <2>1. n \in Nat /\ n <= Len(rest) /\ rest \in Seq(UrlText)
      BY <1>1, <1>3
  <2>2. /\ SubSeq(rest, 1, n) \in Seq(UrlText) /\ Len(SubSeq(rest, 1, n)) = n
        /\ \A i \in 1..n : SubSeq(rest, 1, n)[i] = rest[i]
        /\ Drop(rest, n) \in Seq(UrlText) /\ Len(Drop(rest, n)) = Len(rest) - n
        /\ \A i \in 1..(Len(rest) - n) : Drop(rest, n)[i] = rest[n + i]
    <3> HIDE DEF v, behind
    <3> QED  BY <2>1, TextCut
  <2> QED  BY <2>2
<1>5. Makes(v, behind, rest)
    BY <1>1, <1>3, TextMended DEF Makes
<1> HIDE DEF v, behind
<1>6. v \in Seq(PartText) /\ behind \in Seq(PartText) /\ rest \in Seq(PartText)
    BY <1>1, <1>4, UrlTextIsPart
<1>7. /\ UrlTypes' /\ Unique' /\ PartsAreTexts' /\ Has("path")' /\ Part("path")' = v
      /\ \A y : y # "path" => (Has(y)' <=> Has(y)) /\ Part(y)' = Part(y)
      /\ rest' = behind /\ urlAt' = "query" /\ WholeUrl' = WholeUrl
  <2>1. ~Has("path") /\ "path" \in PartNames
      BY <1>1 DEF NoPart, PartNames
  <2>2. urlAt \in PartPlaces /\ "path" # "scheme"
      BY <1>1 DEF PartPlaces
  <2> QED  BY <1>2, <1>4, <1>6, <2>1, <2>2, PartStep
<1>8. KeptApart'
  <2>1. No({"?", "#"}, v)
    <3>1. DOMAIN v = 1..n
        BY <1>4, LenProperties
    <3> QED  BY <1>3, <1>4, <3>1 DEF No
  <2>2. Part("host")' = Part("host") /\ Part("port")' = Part("port") /\ Part("query")' = Part("query")
      BY <1>7
  <2> QED  BY <1>1, <1>7, <2>1, <2>2 DEF KeptApart
<1> DEFINE slash == <<"/">>
           sv == slash \o v
           sr == slash \o rest
<1>9. slash \in Seq(PartText)
    BY DEF PartText
<1>10. Makes(slash, rest, sr) /\ sv = slash \o v /\ After("/", "path")' = sv
    BY <1>7 DEF Makes, After
<1>11. Makes(ToPort, sr, WholeUrl)
    BY <1>1
<1> HIDE DEF slash, sv, sr
<1>12. Makes(sv, behind, sr)
    BY <1>5, <1>6, <1>9, <1>10, Joined
<1>13. sv \in Seq(PartText)
    BY <1>6, <1>9, <1>10, TextsJoined
<1>14. Makes(ToPort \o sv, behind, WholeUrl)
  <2>1. ToPort \in Seq(PartText)
      BY <1>1, JoinsAreTexts
  <2> QED  BY <1>6, <1>11, <1>12, <1>13, <2>1, Joined
<1>15. ToPath' = ToPort \o sv
  <2>1. ToScheme' = ToScheme
      BY <1>7 DEF ToScheme
  <2>2. ToHost' = ToHost
      BY <1>7, <2>1 DEF ToHost
  <2>3. ToPort' = ToPort
      BY <1>7, <2>2 DEF ToPort, PortGiven, After
  <2> QED  BY <1>10, <2>3 DEF ToPath
<1>16. Makes(ToPath, rest, WholeUrl)'
    BY <1>7, <1>14, <1>15 DEF Makes
<1>17. behind = << >> \/ behind[1] \in {"?", "#"}
  <2>1. CASE n < Len(rest)
    <3>1. Len(rest) \in Nat
        BY <1>1, LenProperties
    <3>2. 1 \in 1..(Len(rest) - n)
        BY <1>3, <2>1, <3>1
    <3> QED  BY <1>3, <1>4, <2>1, <3>2
  <2>2. CASE n = Len(rest)
      BY <1>3, <1>4, <2>2, EmptySeq
  <2>3. Len(rest) \in Nat
      BY <1>1, LenProperties
  <2> QED  BY <1>3, <2>1, <2>2, <2>3
<1>18. NoPart({"query", "fragment"})'
    BY <1>1, <1>7 DEF NoPart
<1>19. LeftOf'
    BY <1>7, <1>16, <1>17, <1>18 DEF LeftOf
<1> QED  BY <1>7, <1>8, <1>19 DEF UrlInv

\* The query, between a question mark and a number sign.
LEMMA QueryStep ==
    ASSUME UrlInv, Query
    PROVE  UrlInv'
<1> DEFINE n == Until(rest, {"#"})
           v == SubSeq(rest, 2, n)
           w == SubSeq(rest, 1, n)
           behind == Drop(rest, n)
<1>1. /\ urlAt = "query" /\ rest \in Seq(UrlText) /\ PartsAreTexts /\ KeptApart
      /\ NoPart({"query", "fragment"}) /\ Makes(ToPath, rest, WholeUrl)
      /\ rest = << >> \/ rest[1] \in {"?", "#"}
    BY DEF Query, UrlInv, UrlTypes, LeftOf
<1>2. \/ Here1 = "?" /\ Parsed("query", v, behind, "fragment")
      \/ Here1 # "?" /\ urlAt' = "fragment" /\ UNCHANGED <<url, rest, parts, addresses, sockets>>
    BY DEF Query
<1>3. CASE Here1 = "?" /\ Parsed("query", v, behind, "fragment")
  <2>1. /\ n \in Nat /\ n <= Len(rest) /\ (\A i \in 1..n : rest[i] \notin {"#"})
        /\ n < Len(rest) => rest[n + 1] \in {"#"}
      BY <1>1, UntilIs
  <2>2. rest # << >> /\ rest[1] = "?"
      BY <1>3 DEF Here1
  <2>3. Len(rest) \in Nat /\ Len(rest) >= 1
      BY <1>1, <2>2, LenProperties, EmptySeq
  <2> HIDE DEF n
  <2>4. n >= 1
    <3>1. n = 0 => rest[1] \in {"#"}
        BY <2>1, <2>3
    <3> QED  BY <2>1, <2>2, <3>1
  <2>5. /\ w \in Seq(UrlText) /\ behind \in Seq(UrlText)
        /\ Len(behind) = Len(rest) - n /\ \A i \in 1..(Len(rest) - n) : behind[i] = rest[n + i]
    <3>1. n \in Nat /\ n <= Len(rest) /\ rest \in Seq(UrlText)
        BY <1>1, <2>1
    <3>2. /\ SubSeq(rest, 1, n) \in Seq(UrlText) /\ Drop(rest, n) \in Seq(UrlText)
          /\ Len(Drop(rest, n)) = Len(rest) - n
          /\ \A i \in 1..(Len(rest) - n) : Drop(rest, n)[i] = rest[n + i]
      <4> HIDE DEF v, w, behind
      <4> QED  BY <3>1, TextCut
    <3> QED  BY <3>2
  <2>6. Makes(w, behind, rest)
      BY <1>1, <2>1, TextMended DEF Makes
  <2>7. /\ v \in Seq(UrlText) /\ Len(v) = n - 1 /\ (\A i \in 1..(n - 1) : v[i] = rest[i + 1])
        /\ <<"?">> \o v = w
      BY <1>1, <2>1, <2>2, <2>4, MendedBehind
  <2> HIDE DEF v, behind, w
  <2>8. v \in Seq(PartText) /\ behind \in Seq(PartText) /\ rest \in Seq(PartText) /\ w \in Seq(PartText)
      BY <1>1, <2>5, <2>7, UrlTextIsPart
  <2>9. /\ UrlTypes' /\ Unique' /\ PartsAreTexts' /\ Has("query")' /\ Part("query")' = v
        /\ \A y : y # "query" => (Has(y)' <=> Has(y)) /\ Part(y)' = Part(y)
        /\ rest' = behind /\ urlAt' = "fragment" /\ WholeUrl' = WholeUrl
    <3>1. ~Has("query") /\ "query" \in PartNames
        BY <1>1 DEF NoPart, PartNames
    <3>2. urlAt \in PartPlaces /\ "query" # "scheme"
        BY <1>1 DEF PartPlaces
    <3> QED  BY <1>3, <2>5, <2>8, <3>1, <3>2, PartStep
  <2>10. KeptApart'
    <3>1. No({"#"}, v)
      <4>1. DOMAIN v = 1..(n - 1)
          BY <2>7, LenProperties
      <4>2. \A i \in 1..(n - 1) : i + 1 \in 1..n
          BY <2>1
      <4> QED  BY <2>1, <2>7, <4>1, <4>2 DEF No
    <3>2. Part("host")' = Part("host") /\ Part("port")' = Part("port") /\ Part("path")' = Part("path")
        BY <2>9
    <3> QED  BY <1>1, <2>9, <3>1, <3>2 DEF KeptApart
  <2>11. Makes(ToPath \o w, behind, WholeUrl)
    <3>1. ToPath \in Seq(PartText)
        BY <1>1, JoinsAreTexts
    <3> QED  BY <1>1, <2>6, <2>8, <3>1, Joined
  <2>12. ToQuery' = ToPath \o w
    <3>1. ToScheme' = ToScheme
        BY <2>9 DEF ToScheme
    <3>2. ToHost' = ToHost
        BY <2>9, <3>1 DEF ToHost
    <3>3. ToPort' = ToPort
        BY <2>9, <3>2 DEF ToPort, PortGiven, After
    <3>4. ToPath' = ToPath
        BY <2>9, <3>3 DEF ToPath, After
    <3>5. After("?", "query")' = w
        BY <2>7, <2>9 DEF After
    <3> QED  BY <3>4, <3>5 DEF ToQuery
  <2>13. Makes(ToQuery, rest, WholeUrl)'
      BY <2>9, <2>11, <2>12 DEF Makes
  <2>14. behind = << >> \/ behind[1] = "#"
    <3>1. CASE n < Len(rest)
      <4>1. 1 \in 1..(Len(rest) - n)
          BY <2>1, <2>3, <3>1
      <4> QED  BY <2>1, <2>5, <3>1, <4>1
    <3>2. CASE n = Len(rest)
        BY <2>1, <2>5, <3>2, EmptySeq
    <3> QED  BY <2>1, <2>3, <3>1, <3>2
  <2>15. NoPart({"fragment"})'
      BY <1>1, <2>9 DEF NoPart
  <2>16. LeftOf'
      BY <2>9, <2>13, <2>14, <2>15 DEF LeftOf
  <2> QED  BY <2>9, <2>10, <2>16 DEF UrlInv
<1>4. CASE Here1 # "?" /\ urlAt' = "fragment" /\ UNCHANGED <<url, rest, parts, addresses, sockets>>
  <2>1. urlAt' = "fragment" /\ url' = url /\ rest' = rest /\ parts' = parts
      BY <1>4
  <2>2. \A y : (Has(y)' <=> Has(y)) /\ Part(y)' = Part(y)
      BY <2>1 DEF Has, Part
  <2>3. UrlTypes' /\ Unique'
      BY <1>1, <2>1, <2>2 DEF UrlInv, UrlTypes, Unique, SchemeCut, PartPlaces
  <2>4. PartsAreTexts' /\ KeptApart'
      BY <2>2 DEF UrlInv, PartsAreTexts, KeptApart
  <2>5. WholeUrl' = WholeUrl
      BY <2>1 DEF WholeUrl
  <2>6. ToQuery' = ToPath
    <3>1. ToScheme' = ToScheme
        BY <2>2 DEF ToScheme
    <3>2. ToHost' = ToHost
        BY <2>2, <3>1 DEF ToHost
    <3>3. ToPort' = ToPort
        BY <2>2, <3>2 DEF ToPort, PortGiven, After
    <3>4. ToPath' = ToPath
        BY <2>2, <3>3 DEF ToPath, After
    <3>5. After("?", "query")' = << >>
        BY <1>1, <2>2 DEF After, NoPart
    <3>6. ToQuery' = ToPath \o << >>
        BY <3>4, <3>5 DEF ToQuery
    <3>7. ToPath \in Seq(PartText)
        BY <1>1, JoinsAreTexts
    <3> QED  BY <3>6, <3>7, WithNothing
  <2>7. Makes(ToQuery, rest, WholeUrl)'
      BY <1>1, <2>1, <2>5, <2>6 DEF Makes
  <2>8. rest = << >> \/ rest[1] = "#"
      BY <1>1, <1>4 DEF Here1
  <2>9. NoPart({"fragment"})'
      BY <1>1, <2>2 DEF NoPart
  <2>10. LeftOf'
      BY <2>1, <2>7, <2>8, <2>9 DEF LeftOf
  <2> QED  BY <2>3, <2>4, <2>10 DEF UrlInv
<1> QED  BY <1>2, <1>3, <1>4

\* The fragment, behind a number sign.
LEMMA FragmentStep ==
    ASSUME UrlInv, Fragment
    PROVE  UrlInv'
<1> DEFINE v == Drop(rest, 1)
<1>1. /\ urlAt = "fragment" /\ rest \in Seq(UrlText) /\ PartsAreTexts /\ KeptApart
      /\ NoPart({"fragment"}) /\ Makes(ToQuery, rest, WholeUrl)
      /\ rest = << >> \/ rest[1] = "#"
    BY DEF Fragment, UrlInv, UrlTypes, LeftOf
<1>2. \/ Here1 = "#" /\ Parsed("fragment", v, << >>, "parsed")
      \/ Here1 # "#" /\ urlAt' = "parsed" /\ UNCHANGED <<url, rest, parts, addresses, sockets>>
    BY DEF Fragment
<1>3. CASE Here1 = "#" /\ Parsed("fragment", v, << >>, "parsed")
  <2>1. rest # << >> /\ rest[1] = "#"
      BY <1>3 DEF Here1
  <2>2. <<"#">> \o v = rest /\ v \in Seq(UrlText)
      BY <1>1, <2>1, HeadMended
  <2> HIDE DEF v
  <2>3. v \in Seq(PartText) /\ << >> \in Seq(UrlText)
      BY <2>2, UrlTextIsPart
  <2>4. /\ UrlTypes' /\ Unique' /\ PartsAreTexts' /\ Has("fragment")' /\ Part("fragment")' = v
        /\ \A y : y # "fragment" => (Has(y)' <=> Has(y)) /\ Part(y)' = Part(y)
        /\ urlAt' = "parsed" /\ WholeUrl' = WholeUrl
    <3>1. ~Has("fragment") /\ "fragment" \in PartNames
        BY <1>1 DEF NoPart, PartNames
    <3>2. urlAt \in PartPlaces /\ "fragment" # "scheme"
        BY <1>1 DEF PartPlaces
    <3> QED  BY <1>3, <2>3, <3>1, <3>2, PartStep
  <2>5. KeptApart'
    <3>1. Part("host")' = Part("host") /\ Part("port")' = Part("port") /\ Part("path")' = Part("path") /\ Part("query")' = Part("query")
        BY <2>4
    <3> QED  BY <1>1, <3>1 DEF KeptApart
  <2>6. ToFragment' = ToQuery \o rest
    <3>1. ToScheme' = ToScheme
        BY <2>4 DEF ToScheme
    <3>2. ToHost' = ToHost
        BY <2>4, <3>1 DEF ToHost
    <3>3. ToPort' = ToPort
        BY <2>4, <3>2 DEF ToPort, PortGiven, After
    <3>4. ToPath' = ToPath
        BY <2>4, <3>3 DEF ToPath, After
    <3>5. ToQuery' = ToQuery
        BY <2>4, <3>4 DEF ToQuery, After
    <3>6. After("#", "fragment")' = rest
        BY <2>2, <2>4 DEF After
    <3> QED  BY <3>5, <3>6 DEF ToFragment
  <2>7. (ToFragment = WholeUrl)'
      BY <1>1, <2>4, <2>6 DEF Makes
  <2>8. LeftOf'
      BY <2>4, <2>7 DEF LeftOf
  <2> QED  BY <2>4, <2>5, <2>8 DEF UrlInv
<1>4. CASE Here1 # "#" /\ urlAt' = "parsed" /\ UNCHANGED <<url, rest, parts, addresses, sockets>>
  <2>1. urlAt' = "parsed" /\ url' = url /\ rest' = rest /\ parts' = parts
      BY <1>4
  <2>2. \A y : (Has(y)' <=> Has(y)) /\ Part(y)' = Part(y)
      BY <2>1 DEF Has, Part
  <2>3. UrlTypes' /\ Unique'
      BY <1>1, <2>1, <2>2 DEF UrlInv, UrlTypes, Unique, SchemeCut, PartPlaces
  <2>4. PartsAreTexts' /\ KeptApart'
      BY <2>2 DEF UrlInv, PartsAreTexts, KeptApart
  <2>5. WholeUrl' = WholeUrl
      BY <2>1 DEF WholeUrl
  <2>6. ToFragment' = ToQuery \o << >>
    <3>1. ToScheme' = ToScheme
        BY <2>2 DEF ToScheme
    <3>2. ToHost' = ToHost
        BY <2>2, <3>1 DEF ToHost
    <3>3. ToPort' = ToPort
        BY <2>2, <3>2 DEF ToPort, PortGiven, After
    <3>4. ToPath' = ToPath
        BY <2>2, <3>3 DEF ToPath, After
    <3>5. ToQuery' = ToQuery
        BY <2>2, <3>4 DEF ToQuery, After
    <3>6. After("#", "fragment")' = << >>
        BY <1>1, <2>2 DEF After, NoPart
    <3> QED  BY <3>5, <3>6 DEF ToFragment
  <2>7. rest = << >>
      BY <1>1, <1>4 DEF Here1
  <2>8. (ToFragment = WholeUrl)'
      BY <1>1, <2>5, <2>6, <2>7 DEF Makes
  <2>9. LeftOf'
      BY <2>1, <2>8 DEF LeftOf
  <2> QED  BY <2>3, <2>4, <2>9 DEF UrlInv
<1> QED  BY <1>2, <1>3, <1>4

\* The port, behind a colon, or the usual one; then the URL ends, or a slash begins the
\* path.
LEMMA PortFound ==
    ASSUME UrlInv, urlAt = "port", NEW v \in Seq(PartText), NEW w \in Seq(PartText), NEW behind \in Seq(UrlText),
           Makes(w, behind, rest), No({"/"}, v), w = IF v = <<"80">> THEN << >> ELSE <<":">> \o v,
           \/ behind = << >> /\ Parsed("port", v, behind, "parsed")
           \/ /\ behind # << >> /\ behind[1] = "/" /\ Parsed("port", v, Drop(behind, 1), "path")
    PROVE  UrlInv'
<1>1. /\ rest \in Seq(UrlText) /\ PartsAreTexts /\ KeptApart
      /\ NoPart({"port", "path", "query", "fragment"}) /\ Makes(ToHost, rest, WholeUrl)
    BY DEF UrlInv, UrlTypes, LeftOf
<1>2. PICK l \in Seq(UrlText), next \in {"parsed", "path"} :
        /\ Parsed("port", v, l, next)
        /\ next = "parsed" => behind = << >>
        /\ next = "path" => <<"/">> \o l = behind
  <2>1. CASE behind = << >> /\ Parsed("port", v, behind, "parsed")
      BY <2>1
  <2>2. CASE behind # << >> /\ behind[1] = "/" /\ Parsed("port", v, Drop(behind, 1), "path")
    <3>1. <<"/">> \o Drop(behind, 1) = behind /\ Drop(behind, 1) \in Seq(UrlText)
        BY <2>2, HeadMended
    <3> QED  BY <2>2, <3>1
  <2> QED  BY <2>1, <2>2
<1>3. /\ UrlTypes' /\ Unique' /\ PartsAreTexts' /\ Has("port")' /\ Part("port")' = v
      /\ \A y : y # "port" => (Has(y)' <=> Has(y)) /\ Part(y)' = Part(y)
      /\ rest' = l /\ urlAt' = next /\ WholeUrl' = WholeUrl
  <2>1. ~Has("port") /\ "port" \in PartNames
      BY <1>1 DEF NoPart, PartNames
  <2>2. urlAt \in PartPlaces /\ "port" # "scheme"
      BY DEF PartPlaces
  <2> QED  BY <1>2, <2>1, <2>2, PartStep
<1>4. KeptApart'
  <2>1. Part("host")' = Part("host") /\ Part("path")' = Part("path") /\ Part("query")' = Part("query")
      BY <1>3
  <2> QED  BY <1>1, <1>3, <2>1 DEF KeptApart
<1>5. NoPart({"path", "query", "fragment"})'
    BY <1>1, <1>3 DEF NoPart
<1>6. ToPort' = ToHost \o w
  <2>1. ToScheme' = ToScheme
      BY <1>3 DEF ToScheme
  <2>2. ToHost' = ToHost
      BY <1>3, <2>1 DEF ToHost
  <2>3. PortGiven' = w
      BY <1>3 DEF PortGiven, After
  <2> QED  BY <2>2, <2>3 DEF ToPort
<1>7. ToHost \in Seq(PartText) /\ behind \in Seq(PartText) /\ rest \in Seq(PartText)
    BY <1>1, JoinsAreTexts, UrlTextIsPart
<1>8. Makes(ToHost \o w, behind, WholeUrl)
    BY <1>1, <1>7, Joined
<1>9. CASE next = "path"
  <2>1. Makes(ToPort, <<"/">> \o rest, WholeUrl)'
      BY <1>2, <1>3, <1>6, <1>8, <1>9 DEF Makes
  <2>2. LeftOf'
      BY <1>3, <1>5, <1>9, <2>1 DEF LeftOf
  <2> QED  BY <1>3, <1>4, <2>2 DEF UrlInv
<1>10. CASE next = "parsed"
  <2> DEFINE s == ToHost \o w
  <2>1. s \in Seq(PartText)
      BY <1>7, TextsJoined
  <2>2. s \o << >> = WholeUrl
      BY <1>2, <1>8, <1>10 DEF Makes
  <2>3. After("/", "path")' = << >> /\ After("?", "query")' = << >> /\ After("#", "fragment")' = << >>
      BY <1>5 DEF NoPart, After
  <2>4. ToPort' = s
      BY <1>6
  <2> HIDE DEF s
  <2>5. s \o << >> = s
      BY <2>1, WithNothing
  <2>6. ToPath' = s
      BY <2>3, <2>4, <2>5 DEF ToPath
  <2>7. ToQuery' = s
      BY <2>3, <2>5, <2>6 DEF ToQuery
  <2>8. ToFragment' = s
      BY <2>3, <2>5, <2>7 DEF ToFragment
  <2>9. (ToFragment = WholeUrl)'
      BY <1>3, <2>2, <2>5, <2>8
  <2>10. LeftOf'
      BY <1>3, <1>10, <2>9 DEF LeftOf
  <2> QED  BY <1>3, <1>4, <2>10 DEF UrlInv
<1> QED  BY <1>9, <1>10

\* The port, whether one is given or not.
LEMMA PortStep ==
    ASSUME UrlInv, Port
    PROVE  UrlInv'
<1> DEFINE portThere == Here1 = ":"
           r == Drop(rest, 1)
           n == Until(r, {"/"})
           k == n + 1
           behind == IF portThere THEN Drop(rest, k) ELSE rest
           v == IF portThere THEN SubSeq(rest, 2, k) ELSE <<"80">>
<1>1. urlAt = "port" /\ rest \in Seq(UrlText)
    BY DEF Port, UrlInv, UrlTypes
<1>2. \/ behind = << >> /\ Parsed("port", v, behind, "parsed")
      \/ behind # << >> /\ behind[1] = "/" /\ Parsed("port", v, Drop(behind, 1), "path")
      \/ BadUrl
    BY DEF Port
<1>3. CASE portThere
  <2>1. rest # << >> /\ rest[1] = ":"
      BY <1>3 DEF Here1
  <2>2. Len(rest) \in Nat /\ Len(rest) >= 1
      BY <1>1, <2>1, LenProperties, EmptySeq
  <2>3. r \in Seq(UrlText) /\ Len(r) = Len(rest) - 1 /\ \A i \in 1..(Len(rest) - 1) : r[i] = rest[1 + i]
      BY <1>1, <2>2, TextCut
  <2> HIDE DEF r
  <2>4. n \in Nat /\ n <= Len(r) /\ \A i \in 1..n : r[i] \notin {"/"}
      BY <2>3, UntilIs
  <2> HIDE DEF n
  <2>5. k \in Nat /\ k <= Len(rest) /\ k >= 1 /\ k - 1 = n
      BY <2>2, <2>3, <2>4
  <2> DEFINE w == SubSeq(rest, 1, k)
             p == SubSeq(rest, 2, k)
             d == Drop(rest, k)
  <2> HIDE DEF k
  <2>6. w \in Seq(UrlText) /\ d \in Seq(UrlText)
      BY <1>1, <2>5, TextCut
  <2>7. Makes(w, d, rest)
      BY <1>1, <2>5, TextMended DEF Makes
  <2>8. /\ p \in Seq(UrlText) /\ Len(p) = k - 1 /\ (\A i \in 1..(k - 1) : p[i] = rest[i + 1])
        /\ <<":">> \o p = w
      BY <1>1, <2>1, <2>5, MendedBehind
  <2>9. behind = d /\ v = p
      BY <1>3
  <2> HIDE DEF w, p, d, behind, v
  <2>10. No({"/"}, p)
    <3>1. DOMAIN p = 1..n
        BY <2>5, <2>8, LenProperties
    <3>2. ASSUME NEW i \in 1..n PROVE p[i] # "/"
      <4>1. i \in 1..(Len(rest) - 1) /\ 1 + i = i + 1 /\ i \in 1..(k - 1)
          BY <2>2, <2>3, <2>4, <2>5
      <4>2. p[i] = r[i]
          BY <2>3, <2>8, <4>1
      <4> QED  BY <2>4, <4>2
    <3> QED  BY <3>1, <3>2 DEF No
  <2>11. p # <<"80">>
    <3>1. Len(p) \in Nat /\ \A i \in 1..Len(p) : p[i] \in UrlText
        BY <2>8, LenProperties, ElementOfSeq
    <3>2. p = <<"80">> => Len(p) = 1 /\ p[1] = "80"
        OBVIOUS
    <3> QED  BY <3>1, <3>2, UrlTextIsPart
  <2>12. p \in Seq(PartText) /\ w \in Seq(PartText)
      BY <2>6, <2>8, UrlTextIsPart
  <2>13. w = IF p = <<"80">> THEN << >> ELSE <<":">> \o p
      BY <2>8, <2>11
  <2>14. CASE BadUrl
      BY <2>14, BadUrlStep
  <2>15. CASE \/ d = << >> /\ Parsed("port", p, d, "parsed")
              \/ d # << >> /\ d[1] = "/" /\ Parsed("port", p, Drop(d, 1), "path")
      BY <1>1, <2>6, <2>7, <2>10, <2>12, <2>13, <2>15, PortFound
  <2> QED  BY <1>2, <2>9, <2>14, <2>15
<1>4. CASE ~portThere
  <2> DEFINE p == <<"80">>
  <2>1. behind = rest /\ v = p
      BY <1>4
  <2>2. p \in Seq(PartText) /\ << >> \in Seq(PartText)
      BY DEF PartText
  <2>3. No({"/"}, p)
      BY DEF No
  <2>4. Makes(<< >>, rest, rest)
      BY <1>1 DEF Makes
  <2>5. << >> = IF p = <<"80">> THEN << >> ELSE <<":">> \o p
      OBVIOUS
  <2> HIDE DEF p, behind, v
  <2>6. CASE BadUrl
      BY <2>6, BadUrlStep
  <2>7. CASE \/ rest = << >> /\ Parsed("port", p, rest, "parsed")
             \/ rest # << >> /\ rest[1] = "/" /\ Parsed("port", p, Drop(rest, 1), "path")
      BY <1>1, <2>2, <2>3, <2>4, <2>5, <2>7, PortFound
  <2> QED  BY <1>2, <2>1, <2>6, <2>7
<1> QED  BY <1>3, <1>4

\* A URL that is asked for: a beginning, and characters behind it.
LEMMA AskUrlStep ==
    ASSUME UrlInv, AskUrl
    PROVE  UrlInv'
<1>1. /\ urlAt = "start" /\ urlAt' = "scheme" /\ parts' = parts
      /\ \E h \in UrlHeads, n \in 0..MaxTail : \E tail \in [1..n -> UrlChars] :
           url' = h \o tail /\ rest' = h \o tail
    BY DEF AskUrl
<1>2. PICK h \in UrlHeads, n \in 0..MaxTail :
        \E tail \in [1..n -> UrlChars] : url' = h \o tail /\ rest' = h \o tail
    BY <1>1
<1>3. PICK tail \in [1..n -> UrlChars] : url' = h \o tail /\ rest' = h \o tail
    BY <1>2
<1>4. h \in Seq(UrlText)
  <2>1. h \in Seq(Range(h)) /\ Range(h) \subseteq UrlText
      BY ClientAssumption DEF UrlText
  <2>2. Len(h) \in Nat /\ h \in [1..Len(h) -> Range(h)]
      BY <2>1
  <2>3. h \in [1..Len(h) -> UrlText]
      BY <2>1, <2>2
  <2> QED  BY <2>2, <2>3
<1>5. tail \in Seq(UrlText)
  <2>1. UrlChars \subseteq UrlText /\ n \in Nat
      BY ClientAssumption DEF UrlText
  <2>2. tail \in [1..n -> UrlText]
      BY <2>1
  <2> QED  BY <2>1, <2>2
<1>6. h \o tail \in Seq(UrlText)
    BY <1>4, <1>5, ConcatProperties
<1>7. parts = {}
    BY <1>1 DEF UrlInv, LeftOf
<1>8. UrlTypes'
    BY <1>1, <1>3, <1>6 DEF UrlTypes, SchemeCut, PartPlaces
<1>9. \A y : (Has(y)' <=> Has(y)) /\ Part(y)' = Part(y)
    BY <1>1 DEF Has, Part
<1>10. Unique' /\ LeftOf'
    BY <1>1, <1>3, <1>7 DEF Unique, LeftOf
<1>11. PartsAreTexts' /\ KeptApart'
    BY <1>9 DEF UrlInv, PartsAreTexts, KeptApart
<1> QED  BY <1>8, <1>10, <1>11 DEF UrlInv

\* Asking for the URL, and an answer that has come.
LEMMA AskingStep ==
    ASSUME UrlInv, NoRequest \/ Lookup \/ ConnectNext
    PROVE  UrlInv'
<1>1. /\ url' = url /\ rest' = rest /\ parts' = parts
      /\ urlAt' \in {"over", "connect", "receive"}
  <2>1. CASE NoRequest
      BY <2>1 DEF NoRequest
  <2>2. CASE Lookup
      BY <2>2 DEF Lookup
  <2>3. CASE ConnectNext
      BY <2>3 DEF ConnectNext
  <2> QED  BY <2>1, <2>2, <2>3
<1>2. UrlTypes' /\ Unique' /\ LeftOf'
    BY <1>1 DEF UrlInv, UrlTypes, Unique, LeftOf, SchemeCut, PartPlaces
<1>3. \A y : (Has(y)' <=> Has(y)) /\ Part(y)' = Part(y)
    BY <1>1 DEF Has, Part
<1>4. PartsAreTexts' /\ KeptApart'
    BY <1>3 DEF UrlInv, PartsAreTexts, KeptApart
<1> QED  BY <1>2, <1>4 DEF UrlInv

\* Nothing is found yet, and no URL is given.
NoUrl == urlAt = "start" /\ url = << >> /\ rest = << >> /\ parts = {}

\* Of no URL nothing is found, and nothing is left.
LEMMA NoUrlIsRight == NoUrl => UrlInv
<1> SUFFICES ASSUME NoUrl PROVE UrlInv
    OBVIOUS
<1>1. urlAt = "start" /\ url = << >> /\ rest = << >> /\ parts = {}
    BY DEF NoUrl
<1>2. UrlTypes /\ Unique /\ LeftOf
  <2>1. << >> \in Seq(UrlText)
      OBVIOUS
  <2> QED  BY <1>1, <2>1 DEF UrlTypes, Unique, LeftOf, SchemeCut, PartPlaces
<1>3. \A y : ~Has(y) /\ Part(y) = << >>
    BY <1>1 DEF Has, Part
<1>4. PartsAreTexts
  <2>1. << >> \in Seq(PartText)
      OBVIOUS
  <2> QED  BY <1>3, <2>1 DEF PartsAreTexts
<1>5. KeptApart
    BY <1>3 DEF KeptApart, No
<1> QED  BY <1>2, <1>4, <1>5 DEF UrlInv

\* An answer was received, and the next URL is asked for.
LEMMA ReceiveStep ==
    ASSUME UrlInv, ReceiveAnswer
    PROVE  UrlInv'
<1>1. NoUrl'
    BY DEF ReceiveAnswer, NoUrl
<1>2. UrlInv'
    BY <1>1, NoUrlIsRight, PTL
<1> QED  BY <1>2

\* A step that changes nothing.
LEMMA UrlStutter ==
    ASSUME UrlInv, UNCHANGED urlVars
    PROVE  UrlInv'
<1>1. urlAt' = urlAt /\ url' = url /\ rest' = rest /\ parts' = parts
    BY DEF urlVars
<1>3. \A y : (Has(y)' <=> Has(y)) /\ Part(y)' = Part(y)
    BY <1>1 DEF Has, Part
<1>2. UrlTypes' /\ Unique'
    BY <1>1, <1>3 DEF UrlInv, UrlTypes, Unique, SchemeCut
<1>4. PartsAreTexts' /\ KeptApart'
    BY <1>3 DEF UrlInv, PartsAreTexts, KeptApart
<1>5. WholeUrl' = WholeUrl
    BY <1>1 DEF WholeUrl
<1>6. /\ ToScheme' = ToScheme /\ ToHost' = ToHost /\ ToPort' = ToPort /\ ToPath' = ToPath
      /\ ToQuery' = ToQuery /\ ToFragment' = ToFragment
  <2>1. ToScheme' = ToScheme
      BY <1>3 DEF ToScheme
  <2>2. ToHost' = ToHost
      BY <1>3, <2>1 DEF ToHost
  <2>3. ToPort' = ToPort
      BY <1>3, <2>2 DEF ToPort, PortGiven, After
  <2>4. ToPath' = ToPath
      BY <1>3, <2>3 DEF ToPath, After
  <2>5. ToQuery' = ToQuery
      BY <1>3, <2>4 DEF ToQuery, After
  <2>6. ToFragment' = ToFragment
      BY <1>3, <2>5 DEF ToFragment, After
  <2> QED  BY <2>1, <2>2, <2>3, <2>4, <2>5, <2>6
<1>7. \A names : NoPart(names) => NoPart(names)'
    BY <1>3 DEF NoPart
<1>8. LeftOf'
    BY <1>1, <1>5, <1>6, <1>7 DEF UrlInv, LeftOf, Makes
<1> QED  BY <1>2, <1>4, <1>8 DEF UrlInv

\* What is so far found of a URL makes, with what is left of it, the URL.
LEMMA UrlInvHolds == ClientSpec => []UrlInv
<1>1. ClientInit => UrlInv
    BY NoUrlIsRight DEF ClientInit, NoUrl
<1>2. UrlInv /\ [ClientNext]_urlVars => UrlInv'
    BY AskUrlStep, SchemeStep, HostStep, PortStep, PathStep, QueryStep, FragmentStep, AskingStep,
       ReceiveStep, UrlStutter DEF ClientNext
<1> QED  BY <1>1, <1>2, PTL DEF ClientSpec

\* One place of a text behind another.
LEMMA PlacesJoined ==
    ASSUME NEW s \in Seq(PartText), NEW t \in Seq(PartText), NEW u, u = s \o t
    PROVE  /\ Len(u) = Len(s) + Len(t) /\ Len(s) \in Nat /\ Len(t) \in Nat
           /\ \A i \in 1..Len(s) : u[i] = s[i]
           /\ \A i \in 1..Len(t) : u[Len(s) + i] = t[i]
<1> HIDE DEF PartText
<1> QED  BY TextsJoined, LenProperties

\* Where the host, and behind it the port with its colon, are in what is behind the slashes
\* of the scheme.
LEMMA AuthorityPlaces ==
    ASSUME UrlInv, urlAt = "parsed", NEW h, h = Part("host"), NEW p, p = PortGiven,
           NEW behind, behind = Drop(url, Until(url, {":"}) + 3)
    PROVE  /\ h \in Seq(PartText) /\ p \in Seq(PartText) /\ behind \in Seq(UrlText)
           /\ Len(h) + Len(p) <= Len(behind)
           /\ \A i \in 1..Len(h) : behind[i] = h[i]
           /\ \A i \in 1..Len(p) : behind[Len(h) + i] = p[i]
<1> DEFINE k == Until(url, {":"})
           path == After("/", "path")
           query == After("?", "query")
           frag == After("#", "fragment")
<1>1. /\ url \in Seq(UrlText) /\ PartsAreTexts /\ ToFragment = WholeUrl
      /\ Len(Part("scheme")) = k
    BY DEF UrlInv, UrlTypes, LeftOf, SchemeCut
<1>2. k \in Nat /\ Len(url) \in Nat
    BY <1>1, UntilIs, LenProperties
<1>3. {":", "/", "?", "#"} \subseteq PartText
    BY DEF PartText
<1>4. \A s, t \in Seq(PartText) : s \o t \in Seq(PartText)
  <2> HIDE DEF PartText
  <2> QED  BY ConcatProperties
<1>5. /\ path \in Seq(PartText) /\ query \in Seq(PartText) /\ frag \in Seq(PartText)
      /\ Part("scheme") \in Seq(PartText) /\ h \in Seq(PartText) /\ p \in Seq(PartText)
  <2>1. \A x \in PartNames : Part(x) \in Seq(PartText)
      BY <1>1 DEF PartsAreTexts
  <2>2. \A c \in {":", "/", "?", "#"} : <<c>> \in Seq(PartText)
      BY <1>3
  <2>3. << >> \in Seq(PartText)
      OBVIOUS
  <2>4. ASSUME NEW c \in {":", "/", "?", "#"}, NEW x \in PartNames
        PROVE  After(c, x) \in Seq(PartText)
      BY <1>4, <2>1, <2>2, <2>3 DEF After
  <2> QED  BY <2>1, <2>3, <2>4 DEF PartNames, PortGiven
<1>6. <<":", "/", "/">> \in Seq(PartText) /\ Len(<<":", "/", "/">>) = 3
    BY <1>3
<1>7. Len(ToScheme) = k + 3 /\ ToScheme \in Seq(PartText)
  <2> DEFINE s == Part("scheme")
             slashes == <<":", "/", "/">>
  <2>1. ToScheme = s \o slashes
      BY DEF ToScheme
  <2> HIDE DEF s, slashes, k
  <2>2. Len(ToScheme) = Len(s) + Len(slashes)
      BY <1>5, <1>6, <2>1, PlacesJoined DEF s, slashes
  <2> QED  BY <1>1, <1>6, <2>2, JoinsAreTexts DEF s, slashes
<1>8. ToHost = ToScheme \o h /\ ToPort = ToHost \o p /\ ToPath = ToPort \o path /\ ToQuery = ToPath \o query
      /\ ToFragment = ToQuery \o frag
    BY DEF ToHost, ToPort, ToPath, ToQuery, ToFragment
<1>9. /\ ToHost \in Seq(PartText) /\ ToPort \in Seq(PartText) /\ ToPath \in Seq(PartText) /\ ToQuery \in Seq(PartText)
    BY <1>1, JoinsAreTexts
<1> HIDE DEF k, path, query, frag
<1>10. /\ Len(ToHost) = k + 3 + Len(h) /\ Len(h) \in Nat
       /\ \A i \in 1..Len(h) : ToHost[k + 3 + i] = h[i]
  <2>1. /\ Len(ToHost) = Len(ToScheme) + Len(h) /\ Len(h) \in Nat
        /\ \A i \in 1..Len(h) : ToHost[Len(ToScheme) + i] = h[i]
    <3>1. ToScheme \in Seq(PartText) /\ h \in Seq(PartText) /\ ToHost = ToScheme \o h
        BY <1>5, <1>7, <1>8
    <3> QED  BY <3>1, PlacesJoined
  <2> QED  BY <1>7, <2>1
<1>11. /\ Len(ToPort) = k + 3 + Len(h) + Len(p) /\ Len(p) \in Nat
       /\ \A i \in 1..(k + 3 + Len(h)) : ToPort[i] = ToHost[i]
       /\ \A i \in 1..Len(p) : ToPort[k + 3 + Len(h) + i] = p[i]
  <2>1. /\ Len(ToPort) = Len(ToHost) + Len(p) /\ Len(p) \in Nat
        /\ \A i \in 1..Len(ToHost) : ToPort[i] = ToHost[i]
        /\ \A i \in 1..Len(p) : ToPort[Len(ToHost) + i] = p[i]
      BY <1>5, <1>8, <1>9, PlacesJoined
  <2> QED  BY <1>10, <2>1
<1> DEFINE m == k + 3 + Len(h) + Len(p)
<1>12. m \in Nat /\ Len(ToPort) = m
    BY <1>2, <1>10, <1>11
<1> HIDE DEF m
<1>13. Len(ToPath) >= m /\ Len(ToPath) \in Nat /\ \A i \in 1..m : ToPath[i] = ToPort[i]
  <2>1. /\ Len(ToPath) = Len(ToPort) + Len(path) /\ Len(path) \in Nat
        /\ \A i \in 1..Len(ToPort) : ToPath[i] = ToPort[i]
      BY <1>5, <1>8, <1>9, PlacesJoined
  <2> QED  BY <1>12, <2>1
<1>14. Len(ToQuery) >= m /\ Len(ToQuery) \in Nat /\ \A i \in 1..m : ToQuery[i] = ToPath[i]
  <2>1. /\ Len(ToQuery) = Len(ToPath) + Len(query) /\ Len(query) \in Nat
        /\ \A i \in 1..Len(ToPath) : ToQuery[i] = ToPath[i]
      BY <1>5, <1>8, <1>9, PlacesJoined
  <2>2. \A i \in 1..m : i \in 1..Len(ToPath)
      BY <1>12, <1>13
  <2> QED  BY <1>12, <1>13, <2>1, <2>2
<1>15. Len(ToFragment) >= m /\ \A i \in 1..m : ToFragment[i] = ToQuery[i]
  <2>1. /\ Len(ToFragment) = Len(ToQuery) + Len(frag) /\ Len(frag) \in Nat
        /\ \A i \in 1..Len(ToQuery) : ToFragment[i] = ToQuery[i]
      BY <1>5, <1>8, <1>9, PlacesJoined
  <2>2. \A i \in 1..m : i \in 1..Len(ToQuery)
      BY <1>12, <1>14
  <2> QED  BY <1>12, <1>14, <2>1, <2>2
<1>16. Len(url) >= m /\ \A i \in 1..m : i > k => url[i] = ToPort[i]
  <2>1. ToFragment = [i \in 1..Len(url) |-> IF i < k + 1 THEN LowerCase(url[i]) ELSE url[i]]
    <3>1. DOMAIN url = 1..Len(url)
        BY <1>1, LenProperties
    <3> QED  BY <1>1, <3>1 DEF WholeUrl, k
  <2>2. Len(ToFragment) = Len(url)
      BY <1>2, <2>1
  <2>3. ASSUME NEW i \in 1..m, i > k PROVE url[i] = ToPort[i]
    <3>1. i \in 1..Len(url) /\ ~(i < k + 1)
        BY <1>2, <1>12, <1>15, <2>2, <2>3
    <3>2. ToFragment[i] = url[i]
        BY <2>1, <3>1
    <3> QED  BY <1>13, <1>14, <1>15, <3>2
  <2> QED  BY <1>15, <2>2, <2>3
<1>17. /\ behind \in Seq(UrlText) /\ Len(behind) = Len(url) - (k + 3)
       /\ \A i \in 1..(Len(url) - (k + 3)) : behind[i] = url[k + 3 + i]
  <2>1. k + 3 \in Nat /\ k + 3 <= Len(url)
      BY <1>2, <1>10, <1>11, <1>12, <1>16 DEF m
  <2> DEFINE l == k + 3
  <2>2. behind = Drop(url, l) /\ l \in Nat /\ l <= Len(url)
      BY <2>1 DEF k
  <2> HIDE DEF l
  <2>3. /\ behind \in Seq(UrlText) /\ Len(behind) = Len(url) - l
        /\ \A i \in 1..(Len(url) - l) : behind[i] = url[l + i]
    <3>1. url \in Seq(UrlText)
        BY <1>1
    <3>2. /\ Drop(url, l) \in Seq(UrlText) /\ Len(Drop(url, l)) = Len(url) - l
          /\ \A i \in 1..(Len(url) - l) : Drop(url, l)[i] = url[l + i]
        BY <2>2, <3>1, TextCut
    <3> QED  BY <2>2, <3>2
  <2> QED  BY <2>3 DEF l
<1>18. Len(h) + Len(p) <= Len(behind)
    BY <1>2, <1>10, <1>11, <1>16, <1>17 DEF m
<1>19. ASSUME NEW i \in 1..Len(h) PROVE behind[i] = h[i]
  <2>1. /\ i \in 1..(Len(url) - (k + 3)) /\ k + 3 + i \in 1..m /\ k + 3 + i > k
        /\ k + 3 + i \in 1..(k + 3 + Len(h))
      BY <1>2, <1>10, <1>11, <1>16, <1>17, <1>18 DEF m
  <2> QED  BY <1>10, <1>11, <1>16, <1>17, <2>1
<1>20. ASSUME NEW i \in 1..Len(p) PROVE behind[Len(h) + i] = p[i]
  <2>1. /\ Len(h) + i \in 1..(Len(url) - (k + 3)) /\ k + 3 + Len(h) + i \in 1..m /\ k + 3 + Len(h) + i > k
        /\ k + 3 + (Len(h) + i) = k + 3 + Len(h) + i
      BY <1>2, <1>10, <1>11, <1>16, <1>17, <1>18 DEF m
  <2> QED  BY <1>11, <1>16, <1>17, <2>1
<1> QED  BY <1>5, <1>17, <1>18, <1>19, <1>20

\* Where a slash is between the authority and what is behind it, host and port hold
\* nothing of that.
LEMMA AuthorityKept ==
    ASSUME UrlInv, urlAt = "parsed", AuthorityClosed
    PROVE  No(Endings, Part("host")) /\ No(Endings, Part("port"))
<1> DEFINE h == Part("host")
           p == PortGiven
           behind == Drop(url, Until(url, {":"}) + 3)
           n == Until(behind, Endings)
<1>1. /\ n < Len(behind) => behind[n + 1] = "/"
      /\ behind[1] = "[" => \E i \in 1..n : behind[i] = "]"
    BY DEF AuthorityClosed
<1>2. /\ h[1] # "[" => No({":", "/"}, h)
      /\ h[1] = "[" => \A i \in 1..(Len(h) - 1) : h[i] # "]"
      /\ No({"/"}, Part("port"))
    BY DEF UrlInv, KeptApart
<1>3. /\ h \in Seq(PartText) /\ p \in Seq(PartText) /\ behind \in Seq(UrlText)
      /\ Len(h) + Len(p) <= Len(behind)
      /\ \A i \in 1..Len(h) : behind[i] = h[i]
      /\ \A i \in 1..Len(p) : behind[Len(h) + i] = p[i]
    BY AuthorityPlaces
<1> HIDE DEF behind, h
<1>4. /\ n \in Nat /\ n <= Len(behind) /\ \A i \in 1..n : behind[i] \notin Endings
    BY <1>3, UntilIs
<1>5. Len(h) \in Nat /\ Len(p) \in Nat /\ Len(behind) \in Nat
    BY <1>3, LenProperties
<1>6. /\ DOMAIN h = 1..Len(h)
      /\ DOMAIN Part("port") = 1..Len(Part("port")) /\ Len(Part("port")) \in Nat
  <2>1. Part("port") \in Seq(PartText)
      BY DEF UrlInv, PartsAreTexts, PartNames
  <2> QED  BY <1>3, <2>1, LenProperties
<1> DEFINE q == Part("port")
<1>7. /\ \A i \in 1..Len(p) : p[i] # "/"
      /\ (\A i \in 1..Len(p) : p[i] \notin Endings) => No(Endings, q)
  <2>1. CASE q = <<"80">>
    <3>1. p = << >>
        BY <2>1 DEF PortGiven
    <3>2. No(Endings, q)
        BY <2>1 DEF No, Endings
    <3> HIDE DEF p, q
    <3> QED  BY <3>1, <3>2
  <2>2. CASE ~Has("port")
    <3>1. q = << >>
        BY <2>2 DEF Part
    <3>2. p = << >>
        BY <2>2, <3>1 DEF PortGiven, After
    <3>3. No(Endings, q)
        BY <3>1 DEF No
    <3> HIDE DEF p, q
    <3> QED  BY <3>2, <3>3
  <2>3. CASE q # <<"80">> /\ Has("port")
    <3> DEFINE colon == <<":">>
    <3>1. p = colon \o q /\ colon \in Seq(PartText) /\ Len(colon) = 1 /\ colon[1] = ":"
        BY <2>3 DEF PortGiven, After, PartText
    <3>2. q \in Seq(PartText)
        BY DEF UrlInv, PartsAreTexts, PartNames
    <3>3. \A i \in 1..Len(q) : q[i] # "/"
        BY <1>2, <1>6 DEF No
    <3> HIDE DEF p, q, colon
    <3>4. /\ Len(p) = 1 + Len(q) /\ Len(q) \in Nat /\ (\A i \in 1..1 : p[i] = colon[i])
          /\ \A i \in 1..Len(q) : p[1 + i] = q[i]
      <4>1. /\ Len(p) = Len(colon) + Len(q) /\ Len(q) \in Nat
            /\ \A i \in 1..Len(colon) : p[i] = colon[i]
            /\ \A i \in 1..Len(q) : p[Len(colon) + i] = q[i]
        <5>1. colon \in Seq(PartText) /\ q \in Seq(PartText) /\ p = colon \o q
            BY <3>1, <3>2
        <5> QED  BY <5>1, PlacesJoined
      <4> QED  BY <3>1, <4>1
    <3>5. ASSUME NEW i \in 1..Len(p) PROVE p[i] # "/"
      <4>1. CASE i = 1
          BY <3>1, <3>4, <4>1
      <4>2. CASE i # 1
        <5>1. i - 1 \in 1..Len(q) /\ 1 + (i - 1) = i
            BY <3>4, <4>2
        <5>2. p[1 + (i - 1)] = q[i - 1]
            BY <3>4, <5>1
        <5> QED  BY <3>3, <5>1, <5>2
      <4> QED  BY <4>1, <4>2
    <3>6. ASSUME \A i \in 1..Len(p) : p[i] \notin Endings PROVE No(Endings, q)
      <4>1. ASSUME NEW i \in 1..Len(q) PROVE q[i] \notin Endings
        <5>1. 1 + i \in 1..Len(p)
            BY <3>4
        <5> QED  BY <3>4, <3>6, <5>1
      <4> QED  BY <1>6, <4>1 DEF No, q
    <3> QED  BY <3>5, <3>6
  <2> QED  BY <2>1, <2>2, <2>3
<1> HIDE DEF p, q, n
<1>8. n >= Len(h) + Len(p)
  <2> SUFFICES ASSUME n < Len(h) + Len(p) PROVE FALSE
      BY <1>4, <1>5
  <2>1. behind[n + 1] = "/"
      BY <1>1, <1>3, <1>4, <1>5
  <2>2. CASE n < Len(h)
    <3>1. n + 1 \in 1..Len(h) /\ 1 \in 1..Len(h)
        BY <1>4, <1>5, <2>2
    <3>2. h[n + 1] = "/" /\ h[1] = behind[1]
        BY <1>3, <2>1, <3>1
    <3>3. h[1] = "["
        BY <1>2, <1>6, <3>1, <3>2 DEF No
    <3>4. PICK i \in 1..n : behind[i] = "]"
        BY <1>1, <3>2, <3>3
    <3>5. i \in 1..Len(h) /\ i \in 1..(Len(h) - 1)
        BY <1>4, <1>5, <2>2
    <3> QED  BY <1>2, <1>3, <3>3, <3>4, <3>5
  <2>3. CASE n >= Len(h)
    <3> DEFINE i == n + 1 - Len(h)
    <3>1. i \in 1..Len(p) /\ Len(h) + i = n + 1
        BY <1>4, <1>5, <2>3
    <3> HIDE DEF i
    <3>2. p[i] = behind[Len(h) + i]
        BY <1>3, <3>1
    <3> QED  BY <1>7, <2>1, <3>1, <3>2
  <2> QED  BY <1>4, <1>5, <2>2, <2>3
<1>9. \A i \in 1..Len(h) : h[i] \notin Endings
  <2>1. \A i \in 1..Len(h) : i \in 1..n
      BY <1>4, <1>5, <1>8
  <2> QED  BY <1>3, <1>4, <2>1
<1>10. \A i \in 1..Len(p) : p[i] \notin Endings
  <2>1. \A i \in 1..Len(p) : Len(h) + i \in 1..n
      BY <1>4, <1>5, <1>8
  <2> QED  BY <1>3, <1>4, <2>1
<1>11. No(Endings, h)
    BY <1>6, <1>9 DEF No
<1>12. No(Endings, q)
    BY <1>7, <1>10
<1> QED  BY <1>11, <1>12 DEF h, q

\* The parts of a URL that was accepted, put together again, are the URL; none holds the
\* character that would have ended it, and where a slash ends the authority host and
\* port are those of RFC 3986: for URLs of every length.
THEOREM PartsMakeUrl == ClientSpec => []PartsAreUrl
<1>1. UrlInv => PartsAreUrl
  <2> SUFFICES ASSUME UrlInv, urlAt = "parsed" PROVE PartsAreUrl
      BY DEF PartsAreUrl
  <2>1. ToFragment = WholeUrl /\ KeptApart
      BY DEF UrlInv, LeftOf
  <2>2. Part("scheme") \o <<":", "/", "/">> \o Part("host")
         \o (IF Part("port") = <<"80">> THEN << >> ELSE After(":", "port"))
         \o After("/", "path") \o After("?", "query") \o After("#", "fragment") = WholeUrl
      BY <2>1 DEF ToFragment, ToQuery, ToPath, ToPort, PortGiven, ToHost, ToScheme
  <2>3. WholeUrl = [i \in DOMAIN url |-> IF i < Until(url, {":"}) + 1 THEN LowerCase(url[i]) ELSE url[i]]
      BY DEF WholeUrl
  <2>4. AuthorityClosed => No(Endings, Part("host")) /\ No(Endings, Part("port"))
      BY AuthorityKept
  <2> QED  BY <2>1, <2>2, <2>3, <2>4, Zenon DEF KeptApart, PartsAreUrl
<1> QED  BY <1>1, UrlInvHolds, PTL
=============================================================================
