---------------------------- MODULE LinesByNumber ----------------------------
(***************************************************************************)
(* 5, 6 and 7/main.c: a table of the lines of a file, and lines printed by *)
(* number.  6 and 7 show the whole file and stop when no key comes in      *)
(* time: SIGALRM.  5 and the older 6 and 7 (From Solaris VM/Documents/1)   *)
(* read numbers with scanf; 7 maps the file.  A text is a sequence of NL   *)
(* and of positive numbers.                                                *)
(***************************************************************************)
EXTENDS Integers, Sequences, FiniteSets

CONSTANTS
    COUNT_LINES,
    MaxText     \* length of the file

ASSUME LinesAssumption == COUNT_LINES \in Nat \ {0} /\ MaxText \in Nat

VARIABLES
    reader,     \* the program: how it reads "input", numbers, and the "file"; and its alarm
    text,
    lines,      \* the table: <<offset, length>> of each line
    lineAt,     \* "start", "first", "test", "more", "got", "print", "printed", "end"
    needLine,
    offset,     \* of the descriptor
    out,        \* what it has printed of the line
    alarm,      \* "off", "on"
    restart,    \* whether the system restarts a read that a signal interrupts,
                \* and leaves the handler set
    signaled,
    linesAfter  \* lines begun since signaled; counted up to 2

linesVars == <<reader, text, lines, lineAt, needLine, offset, out, alarm, restart, signaled, linesAfter>>

EOL == 0
Reads5 == [input |-> "scanf", file |-> "descriptor", timed |-> FALSE]
Reads6 == [input |-> "keys", file |-> "descriptor", timed |-> TRUE]
Reads7 == [input |-> "keys", file |-> "mapping", timed |-> TRUE]
Reads6s == [input |-> "scanf", file |-> "descriptor", timed |-> TRUE]
Reads7s == [input |-> "scanf", file |-> "mapping", timed |-> TRUE]
Readers == {Reads5, Reads6, Reads7, Reads6s, Reads7s}

\* parseFile: the last entry is of the line that has not ended; it is not counted.
parseFile(t) ==
    LET table[n \in 0..Len(t)] ==
            IF n = 0 THEN << <<0, 0>> >>
            ELSE LET read == table[n - 1]  k == Len(read) IN
                 IF t[n] # EOL THEN [read EXCEPT ![k] = <<read[k][1], read[k][2] + 1>>]
                               ELSE Append(read, <<read[k][1] + read[k][2] + 1, 0>>)
    IN table[Len(t)]

CountLines == Len(lines) - 1

LinesInit ==
    /\ reader = Reads5
    /\ text = << >> /\ lines = << >> /\ lineAt = "start" /\ needLine = 0 /\ offset = 0
    /\ out = << >> /\ alarm = "off" /\ restart = TRUE /\ signaled = FALSE /\ linesAfter = 0

\* main: the file is read up to its end, unless it has COUNT_LINES lines.  A file
\* without a line, or one that cannot be opened, is not asked about.
OpenText ==
    /\ lineAt = "start" /\ reader' \in Readers /\ restart' \in BOOLEAN
    /\ \E n \in 0..MaxText : \E ends \in SUBSET (1..n) :
        text' = [i \in 1..n |-> IF i \in ends THEN EOL ELSE i]
    /\ lines' = parseFile(text') /\ offset' = Len(text')
    /\ IF Len(lines') - 1 \in 1..(COUNT_LINES - 1)
          THEN lineAt' = "first" /\ alarm' = (IF reader'.timed THEN "on" ELSE "off")
          ELSE lineAt' = "end" /\ UNCHANGED alarm
    /\ UNCHANGED <<needLine, out, signaled, linesAfter>>

-----------------------------------------------------------------------------
(* read_line_num, or scanf *)

\* Enter with no digits is number 0.
FirstKey ==
    /\ lineAt = "first" /\ reader.input = "keys"
    /\ \/ lineAt' = "test" /\ UNCHANGED needLine
       \/ lineAt' = "got" /\ needLine' = 0
    /\ UNCHANGED <<reader, text, lines, offset, out, alarm, restart, signaled, linesAfter>>

Test ==
    /\ lineAt = "test"
    /\ \/ signaled /\ lineAt' = "got" /\ needLine' = 0
       \/ ~signaled /\ lineAt' = "more" /\ UNCHANGED needLine
    /\ UNCHANGED <<reader, text, lines, offset, out, alarm, restart, signaled, linesAfter>>

\* Any further key sets the alarm anew.
MoreKeys ==
    /\ lineAt = "more" /\ alarm' = "on"
    /\ \/ lineAt' = "test" /\ UNCHANGED needLine
       \/ lineAt' = "got" /\ needLine' \in 0..(CountLines + 1)
    /\ UNCHANGED <<reader, text, lines, offset, out, restart, signaled, linesAfter>>

\* scanf ends with a number, or for good with anything else (as 0 does).
ScanNumber ==
    /\ lineAt = "first" /\ reader.input = "scanf"
    /\ lineAt' = "got" /\ needLine' \in 0..(CountLines + 1)
    /\ UNCHANGED <<reader, text, lines, offset, out, alarm, restart, signaled, linesAfter>>

\* printAllString: where the system sets the handler back, the second alarm kills.
\* A read that waits is restarted, or ends the program; the alarm may also come
\* just before the read, which then waits.  (The older 6 and 7 look at signaled instead of
\* at the error of the read.)
Alarm ==
    /\ alarm = "on" /\ alarm' = "off" /\ lineAt # "end"
    /\ IF signaled /\ ~restart
          THEN lineAt' = "end" /\ UNCHANGED <<needLine, offset, signaled>>
          ELSE /\ signaled' = TRUE
               /\ offset' = IF reader.file = "descriptor" THEN Len(text) ELSE offset
               /\ \/ UNCHANGED <<lineAt, needLine>>
                  \/ lineAt \in {"first", "more"} /\ ~restart /\ lineAt' = "got" /\ needLine' = 0
    /\ UNCHANGED <<reader, text, lines, out, restart, linesAfter>>

-----------------------------------------------------------------------------
(* printLines *)

\* Seeded fault: the alarm goes on while the line is printed.
UseNumber_AlarmOn ==
    /\ lineAt = "got" /\ out' = << >> /\ UNCHANGED alarm
    /\ IF needLine = 0
          THEN lineAt' = "end" /\ UNCHANGED <<offset, linesAfter>>
          ELSE IF needLine > CountLines
          THEN lineAt' = "first" /\ UNCHANGED <<offset, linesAfter>>
          ELSE /\ lineAt' = "print" /\ offset' = lines[needLine][1]
               /\ linesAfter' = IF signaled /\ linesAfter < 2 THEN linesAfter + 1 ELSE linesAfter
    /\ UNCHANGED <<reader, text, lines, needLine, restart, signaled>>

\* The alarm is off from here until the line is printed.
UseNumber ==
    /\ lineAt = "got" /\ out' = << >>
    /\ IF needLine = 0
          THEN lineAt' = "end" /\ alarm' = "off" /\ UNCHANGED <<offset, linesAfter>>
          ELSE IF needLine > CountLines
          THEN /\ lineAt' = "first" /\ alarm' = (IF reader.timed THEN "on" ELSE "off")
               /\ UNCHANGED <<offset, linesAfter>>
          ELSE /\ lineAt' = "print" /\ alarm' = "off" /\ offset' = lines[needLine][1]
               /\ linesAfter' = IF signaled /\ linesAfter < 2 THEN linesAfter + 1 ELSE linesAfter
    /\ UNCHANGED <<reader, text, lines, needLine, restart, signaled>>

\* A character; nothing is read at the end of the file.
PrintChar ==
    /\ lineAt = "print" /\ Len(out) < lines[needLine][2]
    /\ \/ offset < Len(text) /\ out' = Append(out, text[offset + 1]) /\ offset' = offset + 1 /\ UNCHANGED lineAt
       \/ offset = Len(text) /\ lineAt' = "end" /\ UNCHANGED <<out, offset>>
    /\ UNCHANGED <<reader, text, lines, needLine, alarm, restart, signaled, linesAfter>>

\* The new line, and the next number.
EndLine ==
    /\ lineAt = "print" /\ Len(out) = lines[needLine][2] /\ lineAt' = "printed"
    /\ UNCHANGED <<reader, text, lines, needLine, offset, out, alarm, restart, signaled, linesAfter>>

NextNumber ==
    /\ lineAt = "printed" /\ lineAt' = "first"
    /\ alarm' = (IF reader.timed THEN "on" ELSE "off")
    /\ UNCHANGED <<reader, text, lines, needLine, offset, out, restart, signaled, linesAfter>>

PrintLine == UseNumber \/ PrintChar \/ EndLine \/ NextNumber
ReadNumber == FirstKey \/ Test \/ MoreKeys

ScanLines == reader.input = "scanf" /\ (ScanNumber \/ Alarm \/ PrintLine)
KeyLines == reader.input = "keys" /\ (ReadNumber \/ Alarm \/ PrintLine)

LinesNext == OpenText \/ ScanLines \/ KeyLines

LinesSpec == LinesInit /\ [][LinesNext]_linesVars

-----------------------------------------------------------------------------
(* Properties. *)

Ends == {i \in DOMAIN text : text[i] = EOL}
EndOf(n) == CHOOSE i \in Ends : Cardinality({j \in Ends : j <= i}) = n
LineText(n) == SubSeq(text, IF n = 1 THEN 1 ELSE EndOf(n - 1) + 1, EndOf(n) - 1)

\* The line that is printed is the one with that number in the file, whole,
\* whenever the alarm comes: the handler, which reads the same descriptor to its
\* end, never runs between the seek and the last read of a line, so what is read
\* next is the rest of it.
LineIsItsNumber ==
    /\ lineAt = "printed" => out = LineText(needLine)
    /\ lineAt = "print" =>
          LET rest == SubSeq(LineText(needLine), Len(out) + 1, lines[needLine][2]) IN
          \A i \in DOMAIN rest : offset + i \in DOMAIN text /\ text[offset + i] = rest[i]

\* The programs that read keys print at most one line after they have shown the
\* whole file: the one whose number was complete when the time was up.
OneLineAfterAlarm == reader.input = "keys" => linesAfter <= 1

\* Right in the file and in time.
LineIsRight == LineIsItsNumber /\ OneLineAfterAlarm
=============================================================================
