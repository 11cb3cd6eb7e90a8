------------------------------ MODULE PollFiles -----------------------------
(***************************************************************************)
(* 22/main.c: text of several files, each read when poll says it has some. *)
(* A piece is what one read returns, at most BUFSIZ bytes.  Files are      *)
(* 1, 2, ...: the arguments.                                               *)
(***************************************************************************)
EXTENDS Integers

CONSTANTS
    NFiles,     \* arguments
    MaxPieces   \* pieces ever put in a file

ASSUME PollAssumption == NFiles \in Nat /\ MaxPieces \in Nat

VARIABLES
    pollAt,     \* "start", "poll", "read", "hangup" or "end"
    file,       \* the file being visited
    revents,    \* what poll said of it
    opened,     \* is_alive: whether it is open
    notAlive,   \* count_not_alive
    fileKind,   \* "regular", "fifo", "directory" or "absent"
    writing,    \* fifos that somebody still writes
    waiting,    \* pieces in a file not read yet
    put,        \* pieces ever put in it
    polled      \* the two when poll last answered, of the file being visited

pollVars == <<pollAt, file, revents, opened, notAlive, fileKind, writing, waiting, put, polled>>

Files == 1..NFiles

PollInit ==
    /\ pollAt = "start" /\ file = 1 /\ revents = {} /\ opened = {} /\ notAlive = 0
    /\ fileKind = [f \in Files |-> "absent"] /\ writing = {}
    /\ waiting = [f \in Files |-> 0] /\ put = [f \in Files |-> 0]
    /\ polled = [waiting |-> 0, put |-> 0]

\* Opening a fifo waits for one who writes.
OpenFiles ==
    /\ pollAt = "start" /\ pollAt' = "poll"
    /\ \E k \in [Files -> {"regular", "fifo", "directory", "absent"}],
          n \in [Files -> 0..MaxPieces] :
        /\ \A f \in Files : k[f] # "regular" => n[f] = 0
        /\ fileKind' = k /\ waiting' = n /\ put' = n
        /\ opened' = {f \in Files : k[f] # "absent"}
        /\ writing' = {f \in Files : k[f] = "fifo"}
    /\ UNCHANGED <<file, revents, notAlive, polled>>

\* Those who write the fifos: they come and go, at any moment.  Opening one that
\* nobody reads waits for ever, and a write to one ends the writer.
WritePiece(f) ==
    /\ f \in writing \cap opened /\ put[f] < MaxPieces
    /\ put' = [put EXCEPT ![f] = @ + 1]
    /\ waiting' = [waiting EXCEPT ![f] = @ + 1]
    /\ UNCHANGED <<pollAt, file, revents, opened, notAlive, fileKind, writing, polled>>

StartWriting(f) ==
    /\ f \in opened \ writing /\ fileKind[f] = "fifo" /\ writing' = writing \cup {f}
    /\ UNCHANGED <<pollAt, file, revents, opened, notAlive, fileKind, waiting, put, polled>>

StopWriting(f) ==
    /\ f \in writing /\ writing' = writing \ {f}
    /\ UNCHANGED <<pollAt, file, revents, opened, notAlive, fileKind, waiting, put, polled>>

-----------------------------------------------------------------------------
(* The loop *)

\* After file f of a round with n files not alive: the next one; or, at the end,
\* another round.
NextFile(n) ==
    IF file < NFiles
       THEN file' = file + 1 /\ notAlive' = n /\ pollAt' = "poll"
       ELSE /\ file' = 1 /\ notAlive' = 0
            /\ pollAt' = IF n >= NFiles THEN "end" ELSE "poll"

SkipFile ==
    /\ pollAt = "poll" /\ file \notin opened /\ NextFile(notAlive + 1)
    /\ UNCHANGED <<revents, opened, fileKind, writing, waiting, put, polled>>

Events(f) ==
    (IF fileKind[f] # "fifo" \/ waiting[f] > 0 THEN {"POLLIN"} ELSE {}) \cup
    (IF fileKind[f] = "fifo" /\ f \notin writing THEN {"POLLHUP"} ELSE {})

\* With nothing to tell, poll returns 0 after TIME_OUT, and with EINTR it fails:
\* either way on to the next file.
Poll ==
    /\ pollAt = "poll" /\ file \in opened
    /\ \/ /\ Events(file) # {} /\ revents' = Events(file)
          /\ pollAt' = (IF "POLLIN" \in Events(file) THEN "read" ELSE "hangup")
          /\ polled' = [waiting |-> waiting[file], put |-> put[file]]
          /\ UNCHANGED <<file, notAlive>>
       \/ Events(file) = {} /\ NextFile(notAlive) /\ UNCHANGED <<revents, polled>>
    /\ UNCHANGED <<opened, fileKind, writing, waiting, put>>

\* Seeded fault: a file is closed after its first piece.
ReadPiece_Once ==
    /\ pollAt = "read" /\ pollAt' = "hangup" /\ opened' = opened \ {file}
    /\ waiting' = [waiting EXCEPT ![file] = IF @ > 0 THEN @ - 1 ELSE 0]
    /\ UNCHANGED <<file, revents, notAlive, fileKind, writing, put, polled>>

\* read returns a piece; 0 at the end, and the file is closed; -1 for a
\* directory, which counts as text.
ReadPiece ==
    /\ pollAt = "read" /\ pollAt' = "hangup"
    /\ IF waiting[file] > 0
          THEN waiting' = [waiting EXCEPT ![file] = @ - 1] /\ UNCHANGED opened
          ELSE /\ UNCHANGED waiting
               /\ opened' = IF fileKind[file] = "directory" THEN opened ELSE opened \ {file}
    /\ UNCHANGED <<file, revents, notAlive, fileKind, writing, put, polled>>

\* A file that poll said is hung up is closed, whatever is left in it.
HangUp ==
    /\ pollAt = "hangup" /\ NextFile(notAlive) /\ revents' = {}
    /\ opened' = IF "POLLHUP" \in revents THEN opened \ {file} ELSE opened
    /\ UNCHANGED <<fileKind, writing, waiting, put, polled>>

PollStep == SkipFile \/ Poll \/ ReadPiece \/ HangUp

PollNext ==
    \/ OpenFiles \/ PollStep
    \/ \E f \in Files : WritePiece(f) \/ StartWriting(f) \/ StopWriting(f)

PollSpec == PollInit /\ [][PollNext]_pollVars /\ WF_pollVars(PollStep)

-----------------------------------------------------------------------------
(* Properties. *)

\* A file is closed with text left in it only when it is a fifo that nobody wrote
\* when poll answered; and lost is only what one read did not take of what it held
\* then, and what a writer that opened it since has put in it.  While somebody
\* writes at every poll nothing is lost.
LostOnlyAtHangup ==
    [][\A f \in opened \ opened' : waiting'[f] > 0 =>
            /\ fileKind[f] = "fifo" /\ "POLLHUP" \in revents
            /\ waiting'[f] <= (IF polled.waiting > 1 THEN polled.waiting - 1 ELSE 0)
                                 + (put[f] - polled.put)]_pollVars

\* The program ends once no fifo is written any more, unless a directory is among
\* its files: reading it fails for ever.
PollEnds ==
    <>[](pollAt # "start" /\ writing = {} /\ \A f \in Files : fileKind[f] # "directory")
        => <>(pollAt = "end")
=============================================================================
