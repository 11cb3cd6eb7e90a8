-------------------------- MODULE TerminalPrograms --------------------------
(***************************************************************************)
(* The programs that change the modes of the terminal and set them back:   *)
(* 16/main.c (a key without Enter), 17/main.c (around its line editor),    *)
(* unbuff_test/main.c, 6 and 7/main.c (around LinesByNumber), and          *)
(* 21/main.c, which rings for each SIGINT and tells at SIGQUIT how often   *)
(* it rang.  From Solaris VM has 21 with sigset ("21s"), and 6 and 7 that  *)
(* turn the signals of the keyboard off ("6n", "7n").  A program is a list *)
(* of calls and of what it does when one fails; its running handlers are a *)
(* stack.                                                                  *)
(***************************************************************************)
EXTENDS Integers, Sequences

CONSTANT MaxBells   \* signals of SIGINT

ASSUME BellsAssumption == MaxBells \in Nat

VARIABLES
    prog,       \* the program, or "none" before the start
    call,       \* the call it is at; 0 once it is over
    over,       \* how it ended: "no", "exited" or "killed"
    modes,      \* of the terminal: "old", "new" or, never meant, "zeros"
    trap,       \* the action of each signal: "default" or "handler"
    handlers,   \* the handlers running, as <<signal, step>>, the innermost last
    sysv,       \* whether signal() sets the action back and blocks nothing
    failed,     \* calls that failed
    count, bells,
    told        \* what was told: -1 before

termVars == <<prog, call, over, modes, trap, handlers, sysv, failed, count, bells, told>>

\* A call, and what its failure leads to: "exit", "undo" (set the modes back and exit)
\* or "ignore".
Call(op, fails) == [op |-> op, fails |-> fails]

\* The functions of 16: a failure in getInput is undone.
setNewAttr == << Call("tcgetattr", "exit"), Call("raw", "exit") >>
getInput == << Call("write", "undo"), Call("read", "undo"), Call("write", "undo"),
               Call("write", "undo"), Call("write", "undo") >>
setOldAttr == << Call("restore", "exit") >>

\* main of 16
Calls16 == << Call("open", "exit"), Call("isatty", "exit") >> \o setNewAttr \o getInput \o setOldAttr

\* main of 17; its loop ends at end of input or when read fails.
Calls17 == << Call("isatty", "exit"), Call("tcgetattr", "exit"), Call("raw", "exit"),
              Call("edit", "ignore"), Call("restore", "ignore") >>

\* unbuff_test looks at one result only.
CallsUnbuff == << Call("open", "ignore"), Call("tcgetattr", "ignore"), Call("isatty", "exit"),
                  Call("raw", "ignore"), Call("read", "ignore"), Call("restore", "ignore") >>

\* main of 21 with setNewAttr: for ever in its loop.
Calls21 == << Call("open", "exit"), Call("isatty", "exit") >> \o setNewAttr
           \o << Call("trapINT", "ignore"), Call("trapQUIT", "ignore"), Call("forever", "ignore") >>

\* The older main: the handlers first.
Calls21s == << Call("trapINT", "exit"), Call("trapQUIT", "exit"), Call("open", "exit"),
               Call("isatty", "exit") >> \o setNewAttr \o << Call("forever", "ignore") >>

\* main of 6: what fails before the modes are set is ignored, what fails after is undone.
Calls6 == << Call("open", "ignore"), Call("tcgetattr", "ignore"), Call("isatty", "exit"),
             Call("raw", "ignore"), Call("file", "undo"), Call("parse", "undo"),
             Call("trapALRM", "undo"), Call("lines", "undo"), Call("restore", "ignore") >>

\* main of 7, whose file is a mapping, and the older two.
Calls7 == Calls6
Calls6n == Calls6
Calls7n == Calls7

Calls(p) == CASE p = "16" -> Calls16 [] p = "17" -> Calls17 [] p = "unbuff" -> CallsUnbuff
              [] p = "6" -> Calls6 [] p = "6n" -> Calls6n [] p = "7" -> Calls7 [] p = "7n" -> Calls7n
              [] p = "21" -> Calls21 [] OTHER -> Calls21s

LinePrograms == {"6", "6n", "7", "7n"}
Programs == {"16", "17", "unbuff", "21", "21s"} \cup LinePrograms

\* ISIG is off while the modes are new.
NoKeyboardSignals == {"17", "unbuff", "6n", "7n"}

TermInit ==
    /\ prog = "none" /\ call = 0 /\ over = "no" /\ modes = "old" /\ sysv = FALSE
    /\ trap = [s \in {"INT", "QUIT", "ALRM"} |-> "default"]
    /\ handlers = << >> /\ failed = {} /\ count = 0 /\ bells = 0 /\ told = -1

StartProgram(p) ==
    /\ prog = "none" /\ prog' = p /\ call' = 1
    /\ \E b \in (IF p = "21" \/ p \in LinePrograms THEN BOOLEAN ELSE {FALSE}) : sysv' = b
    /\ UNCHANGED <<over, modes, trap, handlers, failed, count, bells, told>>

Exit == over' = "exited" /\ call' = 0 /\ handlers' = << >>

\* The terminal was not opened, or is none: neither will the next call be able to use it.
NoTerminal(op) ==
    \/ op = "tcgetattr" /\ "open" \in failed
    \/ op \in {"raw", "restore"} /\ failed \cap {"open", "tcgetattr"} # {}

\* One call that succeeds.  After the last one main returns.
Succeed ==
    /\ call # 0 /\ handlers = << >> /\ Calls(prog)[call].op # "forever"
    /\ LET op == Calls(prog)[call].op IN
       /\ ~NoTerminal(op)
       /\ modes' = (CASE op = "raw" -> "new" [] op = "restore" -> "old" [] OTHER -> modes)
       /\ trap' = (CASE op = "trapINT" -> [trap EXCEPT !["INT"] = "handler"]
                     [] op = "trapQUIT" -> [trap EXCEPT !["QUIT"] = "handler"]
                     [] op = "trapALRM" -> [trap EXCEPT !["ALRM"] = "handler"]
                     [] OTHER -> trap)
    /\ \/ call < Len(Calls(prog)) /\ call' = call + 1 /\ UNCHANGED <<over, handlers>>
       \/ call = Len(Calls(prog)) /\ Exit
    /\ UNCHANGED <<prog, sysv, failed, count, bells, told>>

\* A failure after which the program goes on, or ends.
GoesOn(c) == c.fails = "ignore" /\ call < Len(Calls(prog))
GivesUp(c) == c.fails = "exit" \/ (c.fails = "ignore" /\ call = Len(Calls(prog)))

\* The handlers cannot fail to be set.
CanFail(op) == op \notin {"forever", "trapINT", "trapQUIT", "trapALRM"}

\* Seeded fault: 16 exits when it cannot read or write, and leaves the terminal alone.
Fail_NoUndo ==
    /\ call # 0 /\ handlers = << >>
    /\ LET c == Calls(prog)[call] IN
       /\ CanFail(c.op)
       /\ \/ GoesOn(c) /\ call' = call + 1 /\ UNCHANGED <<over, handlers>>
          \/ ~GoesOn(c) /\ Exit
       /\ failed' = failed \cup {c.op}
    /\ UNCHANGED <<prog, modes, trap, sysv, count, bells, told>>

Fail ==
    /\ call # 0 /\ handlers = << >>
    /\ LET c == Calls(prog)[call] IN
       /\ CanFail(c.op)
       /\ \/ GoesOn(c) /\ call' = call + 1 /\ UNCHANGED <<over, handlers, modes>> /\ failed' = failed \cup {c.op}
          \/ GivesUp(c) /\ Exit /\ UNCHANGED modes /\ failed' = failed \cup {c.op}
          \/ /\ c.fails = "undo" /\ Exit
             /\ \/ modes' = "old" /\ failed' = failed \cup {c.op}
                \/ UNCHANGED modes /\ failed' = failed \cup {c.op, "restore"}
    /\ UNCHANGED <<prog, trap, sysv, count, bells, told>>

-----------------------------------------------------------------------------
(* Signals *)

\* When a signal may come: from the keys, unless ISIG is off; the alarm of 6 and 7 while
\* they read numbers, and once its handler is done.
Comes(s) ==
    IF s = "ALRM" THEN Calls(prog)[call].op = "lines" /\ handlers = << >>
                  ELSE ~(prog \in NoKeyboardSignals /\ modes = "new")

\* The default action kills.  A handler does not interrupt itself: its signal is blocked,
\* or it was set back to the default.
Signal(s) ==
    /\ call # 0 /\ Comes(s)
    /\ IF trap[s] = "default"
          THEN over' = "killed" /\ call' = 0 /\ handlers' = << >> /\ UNCHANGED trap
          ELSE /\ \A i \in DOMAIN handlers : handlers[i][1] # s
               /\ s = "INT" => bells < MaxBells
               /\ handlers' = Append(handlers, <<s, 1>>)
               /\ trap' = IF sysv THEN [trap EXCEPT ![s] = "default"] ELSE trap
               /\ UNCHANGED <<over, call>>
    /\ UNCHANGED <<prog, modes, sysv, failed, count, bells, told>>

Running(s, i) == handlers # << >> /\ handlers[Len(handlers)] = <<s, i>>
Step(i) == handlers' = [handlers EXCEPT ![Len(handlers)][2] = i]
Return == handlers' = SubSeq(handlers, 1, Len(handlers) - 1)

\* Seeded fault: it counts before it rings.
sigDel_CountFirst ==
    /\ \/ Running("INT", 1) /\ count' = count + 1 /\ Step(2) /\ UNCHANGED <<over, call, failed, bells, trap>>
       \/ Running("INT", 2) /\ bells' = bells + 1 /\ Step(3) /\ UNCHANGED <<over, call, failed, count, trap>>
       \/ /\ Running("INT", 3) /\ Return
          /\ trap' = IF prog = "21" THEN [trap EXCEPT !["INT"] = "handler"] ELSE trap
          /\ UNCHANGED <<over, call, failed, count, bells>>
    /\ UNCHANGED <<prog, modes, sysv, told>>

\* sigDel: ring, count, and in 21 set the handler again.  A SIGQUIT may come between.
sigDel ==
    /\ \/ /\ Running("INT", 1)
          /\ \/ bells' = bells + 1 /\ Step(2) /\ UNCHANGED <<over, call, failed>>
             \/ Exit /\ failed' = failed \cup {"ring"} /\ UNCHANGED bells
          /\ UNCHANGED <<count, trap>>
       \/ Running("INT", 2) /\ count' = count + 1 /\ Step(3) /\ UNCHANGED <<over, call, failed, bells, trap>>
       \/ /\ Running("INT", 3) /\ Return
          /\ trap' = IF prog = "21" THEN [trap EXCEPT !["INT"] = "handler"] ELSE trap
          /\ UNCHANGED <<over, call, failed, count, bells>>
    /\ UNCHANGED <<prog, modes, sysv, told>>

\* sigcatch: tell, set the modes to oldOption if that can be done, exit.  Before
\* tcgetattr oldOption holds zeros.
Saved == \E i \in 1..(call - 1) : Calls(prog)[i].op = "tcgetattr"

sigcatch ==
    /\ \/ Running("QUIT", 1) /\ told' = count /\ Step(2) /\ UNCHANGED <<over, call, modes, failed>>
       \/ /\ Running("QUIT", 2) /\ Exit
          /\ \/ modes' = (IF Saved THEN "old" ELSE "zeros") /\ UNCHANGED failed
             \/ UNCHANGED modes /\ failed' = failed \cup {"restore"}
          /\ UNCHANGED told
    /\ UNCHANGED <<prog, trap, sysv, count, bells>>

\* printAllString sets the modes back before it shows the file.
printAllString ==
    /\ Running("ALRM", 1) /\ Return
    /\ \/ ~NoTerminal("restore") /\ modes' = "old" /\ UNCHANGED failed
       \/ UNCHANGED modes /\ failed' = failed \cup {"restore"}
    /\ UNCHANGED <<prog, call, over, trap, sysv, count, bells, told>>

TermNext ==
    \/ \E p \in Programs : StartProgram(p)
    \/ Succeed \/ Fail \/ sigDel \/ sigcatch \/ printAllString
    \/ \E s \in {"INT", "QUIT", "ALRM"} : Signal(s)

TermSpec == TermInit /\ [][TermNext]_termVars

-----------------------------------------------------------------------------
(* Properties. *)

\* A program that ends of itself leaves the terminal as it was, unless setting it
\* back failed, 21 could not ring, or a SIGQUIT came so early that the program with
\* sigset had nothing to set it back to.  A signal that kills leaves the new modes
\* behind only in 16, 6 and 7, and in 21 before the handlers are set or, where
\* signal() sets the action back, while a handler runs: never with sigset.  The alarm
\* that kills, where the action was set back, is the second: the first restored the modes.
TerminalRestored ==
    /\ modes = "zeros" => prog = "21s" /\ over = "exited"
    /\ modes = "new" =>
        /\ over = "exited" => failed \cap {"restore", "ring"} # {}
        /\ over = "killed" => \/ prog \in {"16", "6", "7"} \/ "restore" \in failed
                              \/ prog = "21" /\ (sysv \/ trap["QUIT"] = "default")

\* The number that is told is the number of bells, or one less when SIGQUIT came
\* between the bell and the count.
CountTold ==
    [][told' # told => \/ told' = bells /\ ~ \E i \in DOMAIN handlers : handlers[i] = <<"INT", 2>>
                       \/ told' = bells - 1 /\ \E i \in DOMAIN handlers : handlers[i] = <<"INT", 2>>]_termVars
=============================================================================
