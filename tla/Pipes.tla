------------------------------- MODULE Pipes --------------------------------
(***************************************************************************)
(* Text through a pipe, from a child that reads the terminal to one that   *)
(* prints capitals: 25/25.c ("25"), two older versions of it under From    *)
(* Solaris VM (Documents/25/25.c, "strings", whose reader takes blocks for *)
(* strings, and task_25/welcome.cc, "blocks", where both sides work on     *)
(* blocks), and 26/26_3.c, 26_4.c, where popen starts the printing program *)
(* ("26").  A process is an entry of pipeAt; ends says who holds the ends  *)
(* of the pipe.                                                            *)
(***************************************************************************)
EXTENDS Integers, Sequences, SequencesExt

CONSTANT MaxTyped   \* letters typed, fewer than BUFSIZ

ASSUME PipesAssumption == MaxTyped \in Nat

VARIABLES
    pipeProgram,  \* "25", "strings", "blocks", "26", or "none" before the start
    pipeAt,       \* "main", "writer" and "reader": where each is, or how it ended
    ends,         \* the ends of the pipe each holds, in {"r", "w"}
    reaped,       \* children main has waited for
    typed,        \* letters read from the terminal: 1, 2, ...
    stdio,        \* the writer's buffer of the stream of popen
    pipe,         \* what is in the pipe
    block,        \* the reader's buffer
    printed

pipesVars == <<pipeProgram, pipeAt, ends, reaped, typed, stdio, pipe, block, printed>>

PipeChildren == {"writer", "reader"}

PipesInit ==
    /\ pipeProgram = "none" /\ typed = 0
    /\ pipeAt = [p \in {"main"} \cup PipeChildren |-> "none"]
    /\ ends = [p \in {"main"} \cup PipeChildren |-> {}]
    /\ reaped = {} /\ stdio = << >> /\ pipe = << >> /\ block = << >> /\ printed = << >>

Held(e) == \E p \in DOMAIN ends : e \in ends[p]
Ended == {"good", "bad", "failed", "killed"}

\* p goes to a; a process that ends closes what it holds.
Goes(p, a) ==
    /\ pipeAt' = [pipeAt EXCEPT ![p] = a]
    /\ ends' = IF a \in Ended THEN [ends EXCEPT ![p] = {}] ELSE ends

NL == 0
UpperCase(c) == IF c > 0 THEN -c ELSE c
Capitals(s) == [i \in DOMAIN s |-> UpperCase(s[i])]

-----------------------------------------------------------------------------
(* main *)

\* pipe or popen, which may fail.  popen gives the new program the reading end, main the other.
StartPipes(k) ==
    /\ pipeProgram = "none" /\ pipeProgram' = k
    /\ \/ /\ k = "26"
          /\ pipeAt' = [pipeAt EXCEPT !["main"] = "forkWriter", !["reader"] = "read"]
          /\ ends' = [ends EXCEPT !["main"] = {"w"}, !["reader"] = {"r"}]
       \/ /\ k # "26" /\ pipeAt' = [pipeAt EXCEPT !["main"] = "forkWriter"]
          /\ ends' = [ends EXCEPT !["main"] = {"r", "w"}]
       \/ Goes("main", "bad")
    /\ UNCHANGED <<reaped, typed, stdio, pipe, block, printed>>

\* A child has what main holds.  main closes its own once it has forked all;
\* when a fork fails it exits, whatever children there are.
ForkOne(p, now, next) ==
    /\ pipeAt["main"] = now
    /\ \/ /\ pipeAt' = [pipeAt EXCEPT ![p] = IF pipeProgram = "26" THEN "read" ELSE "close", !["main"] = next]
          /\ ends' = [ends EXCEPT ![p] = ends["main"],
                                  !["main"] = IF next = "forkReader" THEN @ ELSE {}]
       \/ Goes("main", "bad")
    /\ UNCHANGED <<pipeProgram, reaped, typed, stdio, pipe, block, printed>>

ForkWriter == ForkOne("writer", "forkWriter", IF pipeProgram = "26" THEN "pclose" ELSE "forkReader")
ForkReader == ForkOne("reader", "forkReader", "wait")

\* pclose waits for the program, and main does not look at its status.
PClose ==
    /\ pipeAt["main"] = "pclose" /\ pipeAt["reader"] \in Ended
    /\ reaped' = {"reader"} /\ Goes("main", "wait")
    /\ UNCHANGED <<pipeProgram, typed, stdio, pipe, block, printed>>

WaitChild(p) ==
    /\ pipeAt["main"] = "wait" /\ pipeAt[p] \in Ended /\ p \notin reaped
    /\ reaped' = reaped \cup {p}
    /\ Goes("main", IF pipeAt[p] = "good" THEN "wait" ELSE "bad")
    /\ UNCHANGED <<pipeProgram, typed, stdio, pipe, block, printed>>

NoMoreChildren ==
    /\ pipeAt["main"] = "wait" /\ reaped = PipeChildren /\ Goes("main", "good")
    /\ printed' = IF pipeProgram = "26" THEN Append(printed, NL) ELSE printed
    /\ UNCHANGED <<pipeProgram, reaped, typed, stdio, pipe, block>>

-----------------------------------------------------------------------------
(* The children *)

\* Seeded fault: the reader keeps the writing end.
CloseOther_Keep(p) ==
    /\ pipeAt[p] = "close" /\ pipeAt' = [pipeAt EXCEPT ![p] = "read"]
    /\ ends' = [ends EXCEPT ![p] = @ \cap {"w", "r"}]
    /\ UNCHANGED <<pipeProgram, reaped, typed, stdio, pipe, block, printed>>

\* Each child of 25 closes the end it does not use.
CloseOther(p) ==
    /\ pipeAt[p] = "close" /\ pipeAt' = [pipeAt EXCEPT ![p] = "read"]
    /\ ends' = [ends EXCEPT ![p] = @ \cap {IF p = "writer" THEN "w" ELSE "r"}]
    /\ UNCHANGED <<pipeProgram, reaped, typed, stdio, pipe, block, printed>>

\* write: a pipe that nobody reads kills the writer.
Send(s, next) ==
    IF s # << >> /\ ~Held("r")
       THEN Goes("writer", "killed") /\ UNCHANGED pipe
       ELSE Goes("writer", next) /\ pipe' = pipe \o s

\* A letter: written, or put in the buffer of the stream, which may be full then.
TypeLetter ==
    /\ pipeAt["writer"] = "read" /\ pipeProgram # "blocks"
    /\ typed < MaxTyped /\ typed' = typed + 1
    /\ LET s == Append(stdio, typed + 1) IN
       \/ Send(s, "read") /\ stdio' = << >>
       \/ pipeProgram = "26" /\ stdio' = s /\ UNCHANGED <<pipeAt, ends, pipe>>
    /\ UNCHANGED <<pipeProgram, reaped, block, printed>>

\* As many letters as a read of the terminal gives.
TypeBlock ==
    /\ pipeAt["writer"] = "read" /\ pipeProgram = "blocks"
    /\ \E n \in 1..(MaxTyped - typed) :
        typed' = typed + n /\ Send([i \in 1..n |-> typed + i], "read")
    /\ UNCHANGED <<pipeProgram, reaped, stdio, block, printed>>

\* Seeded fault: what the stream holds is not written at the end.
EndOfLine_Unflushed ==
    /\ pipeAt["writer"] = "read"
    /\ Goes("writer", "good") \/ (pipeProgram # "blocks" /\ Goes("writer", "bad"))
    /\ stdio' = << >> /\ UNCHANGED pipe
    /\ UNCHANGED <<pipeProgram, reaped, typed, block, printed>>

\* End of the line, or a read that fails (which "blocks" takes for the end): exit and
\* pclose write what is buffered.
EndOfLine ==
    /\ pipeAt["writer"] = "read"
    /\ Send(stdio, "good") \/ (pipeProgram # "blocks" /\ Send(stdio, "bad"))
    /\ stdio' = << >>
    /\ UNCHANGED <<pipeProgram, reaped, typed, block, printed>>

\* The reader prints out, which may fail, and leaves the pipe with rest.
Prints(out, rest) ==
    /\ pipe' = rest
    /\ \/ printed' = printed \o out /\ Goes("reader", "read")
       \/ Goes("reader", "failed") /\ UNCHANGED printed
    /\ UNCHANGED <<pipeProgram, reaped, typed, stdio>>

ReadLetter ==
    /\ pipeAt["reader"] = "read" /\ pipe # << >> /\ pipeProgram \in {"25", "26"}
    /\ Prints(<<UpperCase(Head(pipe))>>, Tail(pipe)) /\ UNCHANGED block

\* A block is printed up to its NUL, which stands at the end of the longest block so far.
ReadString ==
    /\ pipeAt["reader"] = "read" /\ pipe # << >> /\ pipeProgram = "strings"
    /\ block' = Capitals(pipe \o SubSeq(block, Len(pipe) + 1, Len(block)))
    /\ Prints(block', << >>)

ReadBlock ==
    /\ pipeAt["reader"] = "read" /\ pipe # << >> /\ pipeProgram = "blocks"
    /\ Prints(Capitals(pipe), << >>) /\ UNCHANGED block

\* End of file once nobody holds the writing end.  The program of 26 always fails.
EndOfPipe ==
    /\ pipeAt["reader"] = "read" /\ pipe = << >> /\ ~Held("w")
    /\ IF pipeProgram = "26"
          THEN Goes("reader", "bad") /\ UNCHANGED printed
          ELSE \/ Goes("reader", "good") /\ printed' = Append(printed, NL)
               \/ Goes("reader", "failed") /\ UNCHANGED printed
    /\ UNCHANGED <<pipeProgram, reaped, typed, stdio, pipe, block>>

MainStep == ForkWriter \/ ForkReader \/ PClose \/ NoMoreChildren \/ \E p \in PipeChildren : WaitChild(p)
WriterStep == CloseOther("writer") \/ TypeLetter \/ TypeBlock \/ EndOfLine
ReaderStep == CloseOther("reader") \/ ReadLetter \/ ReadString \/ ReadBlock \/ EndOfPipe

PipesNext ==
    \/ \E k \in {"25", "strings", "blocks", "26"} : StartPipes(k)
    \/ MainStep \/ WriterStep \/ ReaderStep

\* The user ends the line at last (MaxTyped); the kernel runs whoever can run.
PipesFairness == WF_pipesVars(MainStep) /\ WF_pipesVars(WriterStep) /\ WF_pipesVars(ReaderStep)
PipesSpec == PipesInit /\ [][PipesNext]_pipesVars /\ PipesFairness

-----------------------------------------------------------------------------
(* Properties. *)

Typed == [i \in 1..typed |-> i]

\* When main succeeds, all that was typed is printed, in capitals and in order, and
\* the new line comes last.  Where blocks are taken for strings, letters of an
\* earlier block may be printed again after those of a shorter one, but each is
\* first printed in its order.  In 26 a program that failed to print is not noticed: only a beginning
\* of the text may be there.
SuccessMeansPrinted ==
    pipeAt["main"] = "good" =>
        LET out == SubSeq(printed, 1, Len(printed) - 1)
            first(c) == CHOOSE i \in DOMAIN out : out[i] = UpperCase(c) /\ \A j \in 1..(i - 1) : out[j] # out[i]
        IN /\ printed[Len(printed)] = NL
           /\ CASE pipeProgram \in {"25", "blocks"} -> out = Capitals(Typed)
                [] pipeProgram = "26" -> /\ IsPrefix(out, Capitals(Typed))
                                         /\ pipeAt["reader"] # "failed" => out = Capitals(Typed)
                [] OTHER -> /\ \A c \in 1..typed : \E i \in DOMAIN out : out[i] = UpperCase(c)
                            /\ \A c \in 2..typed : first(c - 1) < first(c)

\* Whatever fails, main and every child it started end: each process closes the
\* ends it does not use, so that the reader sees the end of the pipe and a
\* writer without a reader is killed.
PipesEnd ==
    pipeProgram # "none" ~> \A p \in DOMAIN pipeAt : pipeAt[p] \in Ended \cup {"none"}
=============================================================================
