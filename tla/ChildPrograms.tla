---------------------------- MODULE ChildPrograms ----------------------------
(***************************************************************************)
(* The programs that let another program do the work: 27/main.c (wc counts *)
(* the empty lines of a file), 28/main.c (sort sorts numbers),             *)
(* 9_2_process/main.c (cat, waited for; "9w" is From Solaris               *)
(* VM/SunStudioProjects/9_fork), 10_exec/main.c (any program, whose end is *)
(* told) and 11/main.c (a program looked up in PATH; "11c" is the copy in  *)
(* From Solaris VM/Documents that opens with O_CLOEXEC).                   *)
(***************************************************************************)
EXTENDS Integers, Sequences, SequencesExt, FiniteSets, FiniteSetsExt

CONSTANTS
    MaxFile,                \* length of the file of 27
    NUM_INT, INT_PER_LINE,  \* of 28; its numbers are below MAX
    MAX,
    MaxDirs                 \* directories in PATH

ASSUME ChildAssumption ==
    /\ {MaxFile, NUM_INT, MAX, MaxDirs} \subseteq Nat /\ INT_PER_LINE \in Nat \ {0}
    /\ \E rows \in 0..NUM_INT : NUM_INT = rows * INT_PER_LINE

VARIABLES
    parent,     \* the program, or "none"
    parentAt,   \* its place, "end" last
    given,      \* the file, the numbers, or what each directory of PATH holds
    used,      \* how much of it has been read
    prevChar,
    piped,      \* written to the pipe
    open,       \* whether the parent still has the descriptor it opened
    worker,      \* NoChild, ChildRuns, or how it ended: <<"exit", code>>, <<"signal", number>>
    answer,     \* what it wrote for the parent to read
    shown,      \* what was printed, by both
    result,     \* "none", "success", "failure", "killed"; "replaced": by the program executed
    ignored     \* whether SIGCHLD is ignored: a child that ends is not waited for

childVars == <<parent, parentAt, given, used, prevChar, piped, open, worker, answer, shown, result, ignored>>

Char == {"x", "NL"}
EXIT_SUCCESS == <<"exit", 0>>
EXIT_FAILURE == <<"exit", 1>>
NoChild == <<"none", 0>>
ChildRuns == <<"runs", 0>>
ChildOver == worker \notin {NoChild, ChildRuns}

ChildInit ==
    /\ parent = "none" /\ parentAt = "start" /\ given = << >> /\ used = 0 /\ prevChar = "NL"
    /\ piped = << >> /\ open = FALSE /\ worker = NoChild /\ answer = << >> /\ shown = << >>
    /\ result = "none" /\ ignored = FALSE

\* exit, or return from main, with this result; exiting closes the pipe.
Finish(r) == parentAt' = "end" /\ result' = r /\ open' = FALSE

\* A first failure: nothing was started.
StartFails(p) ==
    /\ parent = "none" /\ parent' = p /\ Finish("failure")
    /\ UNCHANGED <<given, used, prevChar, piped, worker, answer, shown, ignored>>

-----------------------------------------------------------------------------
(* 27: the empty lines go to wc -l. *)

OpenAndPopen ==
    /\ parent = "none" /\ parent' = "27" /\ parentAt' = "title"
    /\ given' \in BoundedSeq(Char, MaxFile) /\ worker' = ChildRuns /\ open' = TRUE
    /\ UNCHANGED <<used, prevChar, piped, answer, shown, result, ignored>>

WriteTitle ==
    /\ parentAt = "title"
    /\ \/ parentAt' = "read" /\ UNCHANGED result
       \/ parentAt' = "pclose" /\ result' = "failure"
    /\ UNCHANGED <<parent, given, used, prevChar, piped, open, worker, answer, shown, ignored>>

\* Seeded fault: an empty line is one that another new line follows.
ReadChar_NextChar ==
    /\ parentAt = "read" /\ used < Len(given)
    /\ used' = used + 1 /\ prevChar' = given[used + 1]
    /\ piped' = IF given[used + 1] = "NL" /\ prevChar = "NL" /\ used > 0
                   THEN Append(piped, "NL") ELSE piped
    /\ UNCHANGED <<parent, parentAt, given, open, worker, answer, shown, result, ignored>>

ReadChar ==
    /\ parentAt = "read" /\ used < Len(given)
    /\ used' = used + 1 /\ prevChar' = given[used + 1]
    /\ piped' = IF given[used + 1] = "NL" /\ prevChar = "NL" THEN Append(piped, "NL") ELSE piped
    /\ UNCHANGED <<parent, parentAt, given, open, worker, answer, shown, result, ignored>>

\* read fails, or tells that the file is over.
ReadEnds ==
    /\ parentAt = "read" /\ parentAt' = "pclose"
    /\ \/ result' = "failure"
       \/ used = Len(given) /\ result' = "success"
    /\ UNCHANGED <<parent, given, used, prevChar, piped, open, worker, answer, shown, ignored>>

\* What fprintf kept is written now: to a pipe nobody reads, if wc is gone.
Pclose ==
    /\ parentAt = "pclose" /\ open
    /\ IF ChildOver /\ piped # << >> THEN Finish("killed") ELSE open' = FALSE /\ UNCHANGED <<parentAt, result>>
    /\ UNCHANGED <<parent, given, used, prevChar, piped, worker, answer, shown, ignored>>

\* pclose waits for wc.
PcloseReturns ==
    /\ parentAt = "pclose" /\ ~open /\ ChildOver /\ parentAt' = "end"
    /\ UNCHANGED <<parent, given, used, prevChar, piped, open, worker, answer, shown, result, ignored>>

CountsEmptyLines == OpenAndPopen \/ WriteTitle \/ ReadChar \/ ReadEnds \/ Pclose \/ PcloseReturns

\* wc, once its input is over.
Wc ==
    /\ parent = "27" /\ worker = ChildRuns /\ ~open
    /\ shown' = Append(shown, Len(piped)) /\ worker' = EXIT_SUCCESS
    /\ UNCHANGED <<parent, parentAt, given, used, prevChar, piped, open, answer, result, ignored>>

\* The shell does not find the program.
NoSuchProgram ==
    /\ parent \in {"27", "28"} /\ worker = ChildRuns /\ worker' = <<"exit", 127>>
    /\ UNCHANGED <<parent, parentAt, given, used, prevChar, piped, open, answer, shown, result, ignored>>

-----------------------------------------------------------------------------
(* 28: numbers to sort -bn, and back. *)

\* p2open and time; a failing time is followed by p2close, which waits.
P2open ==
    /\ parent = "none" /\ parent' = "28" /\ parentAt' = "numbers" /\ worker' = ChildRuns /\ open' = TRUE
    /\ UNCHANGED <<given, used, prevChar, piped, answer, shown, result, ignored>>

Numbers ==
    /\ parentAt = "numbers"
    /\ \/ /\ parentAt' = "write" /\ given' \in [1..NUM_INT -> 0..(MAX - 1)] /\ UNCHANGED <<result, open>>
       \/ parentAt' = "p2close" /\ result' = "failure" /\ open' = FALSE /\ UNCHANGED given
    /\ UNCHANGED <<parent, used, prevChar, piped, worker, answer, shown, ignored>>

P2close ==
    /\ parentAt = "p2close" /\ ChildOver /\ parentAt' = "end"
    /\ UNCHANGED <<parent, given, used, prevChar, piped, open, worker, answer, shown, result, ignored>>

\* fprintf and fclose.
WriteNumbers ==
    /\ parentAt = "write" /\ piped' = given
    /\ IF ChildOver THEN Finish("killed") ELSE parentAt' = "sorted" /\ open' = FALSE /\ UNCHANGED result
    /\ UNCHANGED <<parent, given, used, prevChar, worker, answer, shown, ignored>>

\* fscanf waits for sort; without its answer val is whatever it was.
ReadRow ==
    /\ parentAt = "sorted" /\ used < NUM_INT /\ ChildOver /\ used' = used + INT_PER_LINE
    /\ \E val \in 0..(MAX - 1) :
         shown' = shown \o [i \in 1..INT_PER_LINE |-> IF answer = << >> THEN val ELSE answer[used + i]]
    /\ UNCHANGED <<parent, parentAt, given, prevChar, piped, open, worker, answer, result, ignored>>

RowsEnd ==
    /\ parentAt = "sorted" /\ used = NUM_INT /\ Finish("success")
    /\ UNCHANGED <<parent, given, used, prevChar, piped, worker, answer, shown, ignored>>

SortsNumbers == P2open \/ Numbers \/ P2close \/ WriteNumbers \/ ReadRow \/ RowsEnd

Sort ==
    /\ parent = "28" /\ worker = ChildRuns /\ ~open
    /\ \E order \in Bijection(DOMAIN piped, DOMAIN piped) :
         /\ answer' = [i \in DOMAIN piped |-> piped[order[i]]]
         /\ \A i \in 2..Len(piped) : piped[order[i - 1]] <= piped[order[i]]
    /\ worker' = EXIT_SUCCESS
    /\ UNCHANGED <<parent, parentAt, given, used, prevChar, piped, open, shown, result, ignored>>

-----------------------------------------------------------------------------
(* 9_2_process and 10_exec: fork, exec and wait. *)

Fork(p) ==
    /\ parent = "none" /\ parent' = p /\ parentAt' = "wait" /\ worker' = ChildRuns /\ ignored' \in BOOLEAN
    /\ UNCHANGED <<given, used, prevChar, piped, open, answer, shown, result>>

\* The child: exec fails, or cat prints the text.
Cat ==
    /\ parent \in {"9", "9w"} /\ worker = ChildRuns
    /\ \/ worker' = EXIT_FAILURE /\ UNCHANGED shown
       \/ worker' = EXIT_SUCCESS /\ shown' = Append(shown, "text")
    /\ UNCHANGED <<parent, parentAt, given, used, prevChar, piped, open, answer, result, ignored>>

\* exec fails, or the program ends; of an exit status eight bits are kept.
UserProgram ==
    /\ parent = "10" /\ worker = ChildRuns
    /\ worker' \in {EXIT_FAILURE} \cup {<<"exit", c % 256>> : c \in {0, 1, 255, 256, 257}}
                  \cup {<<"signal", s>> : s \in {1, 9}}
    /\ UNCHANGED <<parent, parentAt, given, used, prevChar, piped, open, answer, shown, result, ignored>>

\* wait returns when the child has ended: with an error if there is none to tell of.
Wait9 ==
    /\ parent = "9" /\ parentAt = "wait" /\ ChildOver
    /\ IF ignored THEN Finish("failure") /\ UNCHANGED shown
                  ELSE Finish("success") /\ shown' = Append(shown, "parent_line")
    /\ UNCHANGED <<parent, given, used, prevChar, piped, worker, answer, ignored>>

\* "9w" takes the error ECHILD for the end of the worker, and waits again at any other.
Wait9w ==
    /\ parent = "9w" /\ parentAt = "wait" /\ ChildOver
    /\ Finish("success") /\ shown' = Append(shown, "parent_line")
    /\ UNCHANGED <<parent, given, used, prevChar, piped, worker, answer, ignored>>

Wait10 ==
    /\ parent = "10" /\ parentAt = "wait" /\ ChildOver
    /\ IF ignored THEN Finish("failure") /\ UNCHANGED shown
                  ELSE Finish("success") /\ shown' = Append(shown, worker)
    /\ UNCHANGED <<parent, given, used, prevChar, piped, worker, answer, ignored>>

Waits == Wait9 \/ Wait9w \/ Wait10

-----------------------------------------------------------------------------
(* 11: execvpe *)

\* What a directory has under the name: nothing, a file that can be read, a
\* program, or a program that only can be executed.
Holdings == {"nothing", "file", "program", "unreadable"}

\* initEnv has room for COUNT_STRINGS bytes and writes that many pointers: what
\* comes of it is anything up to the end of the run.
initEnv(p) ==
    /\ parent = "none" /\ parent' = p
    /\ \/ parentAt' = "search" /\ UNCHANGED <<result, open>>
       \/ \E r \in {"failure", "killed"} : Finish(r)
    /\ \E n \in 1..MaxDirs : given' \in [1..n -> Holdings]
    /\ UNCHANGED <<used, prevChar, piped, worker, answer, shown, ignored>>

\* A directory is looked at when a colon follows it, so never the last one.
SearchPath ==
    /\ parentAt = "search"
    /\ IF used + 1 = Len(given) THEN Finish("failure") /\ UNCHANGED used
       ELSE /\ used' = used + 1
            /\ parentAt' = (IF given[used + 1] \in {"file", "program"} THEN "exec" ELSE "search")
            /\ UNCHANGED <<result, open>>
    /\ UNCHANGED <<parent, given, prevChar, piped, worker, answer, shown, ignored>>

\* The descriptor of the file that was tried goes to the program, but not with
\* O_CLOEXEC.
Execv ==
    /\ parentAt = "exec"
    /\ IF given[used] = "program"
          THEN parentAt' = "end" /\ result' = "replaced" /\ open' = (parent = "11")
          ELSE Finish("failure")
    /\ UNCHANGED <<parent, given, used, prevChar, piped, worker, answer, shown, ignored>>

execvpe == SearchPath \/ Execv

-----------------------------------------------------------------------------
ParentStep ==
    \/ parent = "27" /\ CountsEmptyLines
    \/ parent = "28" /\ SortsNumbers
    \/ Waits
    \/ execvpe

ChildStep == Wc \/ NoSuchProgram \/ Sort \/ Cat \/ UserProgram

ChildNext ==
    \/ \E p \in {"27", "28", "9", "9w", "10"} : StartFails(p)
    \/ OpenAndPopen \/ P2open
    \/ \E p \in {"9", "9w", "10"} : Fork(p)
    \/ \E p \in {"11", "11c"} : initEnv(p)
    \/ ParentStep \/ ChildStep

ChildFairness == WF_childVars(ParentStep) /\ WF_childVars(ChildStep)
ChildSpec == ChildInit /\ [][ChildNext]_childVars /\ ChildFairness

-----------------------------------------------------------------------------
(* Properties. *)

\* The number wc prints for a run that succeeds is that of the empty lines.
EmptyLines(t) == Cardinality({i \in DOMAIN t : t[i] = "NL" /\ (i = 1 \/ t[i - 1] = "NL")})

CountIsTold == parent = "27" /\ result = "success" /\ worker = EXIT_SUCCESS => shown = <<EmptyLines(given)>>

\* The rows are the numbers in order, each as often as it was drawn.
Times(s, v) == Cardinality({i \in DOMAIN s : s[i] = v})

RowsAreSorted ==
    parent = "28" /\ result = "success" /\ worker = EXIT_SUCCESS =>
        /\ Len(shown) = NUM_INT
        /\ \A i \in 2..Len(shown) : shown[i - 1] <= shown[i]
        /\ \A v \in 0..(MAX - 1) : Times(shown, v) = Times(given, v)

\* The parent prints after its worker, and only 9w without knowing how it ended.
ParentLast ==
    parent \in {"9", "9w"} =>
        /\ \A i \in DOMAIN shown : shown[i] = "parent_line" => i = Len(shown) /\ worker # ChildRuns
        /\ result = "success" /\ ignored => parent = "9w"

\* 10 tells the end its child had.
EndIsTold == parent = "10" /\ result = "success" => shown = <<worker>>

\* 11 becomes the first file it can read in a directory of PATH, if that is a program,
\* but never one in the last directory; only 11c keeps its descriptors to itself.
FirstInPath ==
    parent \in {"11", "11c"} /\ parentAt = "end" /\ result = "replaced" =>
        LET readable == {i \in 1..(Len(given) - 1) : given[i] \in {"file", "program"}} IN
        /\ readable # {} /\ given[Min(readable)] = "program"
        /\ open => parent = "11"

\* What a program shows or becomes is what the program it starts made of its input.
ChildIsTold == CountIsTold /\ RowsAreSorted /\ ParentLast /\ EndIsTold /\ FirstInPath

\* Parent and child both end: the parent closes what its child reads before it waits.
ChildrenEnd == parent # "none" ~> (parentAt = "end" /\ worker # ChildRuns)
=============================================================================
