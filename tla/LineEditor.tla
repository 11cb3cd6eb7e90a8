----------------------------- MODULE LineEditor -----------------------------
(***************************************************************************)
(* 17/main.c: the loop that edits a line of at most LINESIZE characters    *)
(* and moves the word that does not fit to a new row of the screen.  A     *)
(* character is a letter, or " " for a space.  rows and row are the        *)
(* screen; kept is what the user means to have typed since Enter.          *)
(***************************************************************************)
EXTENDS Integers, Sequences, SequencesExt

CONSTANTS
    LINESIZE,
    Letters,
    MaxRows     \* rows finished since Enter

ASSUME EditorAssumption == LINESIZE \in Nat \ {0} /\ " " \notin Letters

VARIABLES
    editing,    \* "no", "yes" or "over"
    line,       \* line[0 .. pos - 1] of the program
    row,        \* the row of the screen with the cursor, which is at its end
    rows,       \* the rows above it since Enter
    kept

editVars == <<editing, line, row, rows, kept>>

EditInit == editing = "no" /\ line = << >> /\ row = << >> /\ rows = << >> /\ kept = << >>

StartEditing == editing = "no" /\ editing' = "yes" /\ UNCHANGED <<line, row, rows, kept>>

\* BACKSPACE n times.
Erased(s, n) == SubSeq(s, 1, Len(s) - n)

\* The longest end of s whose characters all satisfy the test.
TailLength(s, spaces) ==
    CHOOSE n \in 0..Len(s) :
        /\ \A i \in (Len(s) - n + 1)..Len(s) : (s[i] = " ") = spaces
        /\ n = Len(s) \/ (s[Len(s) - n] = " ") # spaces

WordLength(s) == TailLength(s, FALSE)

\* VERASE, VKILL and CWERASE, which takes the spaces at the end and the word before.
EraseLast == IF line = << >> THEN 0 ELSE 1
EraseAll == Len(line)
EraseWord == LET n == TailLength(line, TRUE) IN n + WordLength(Erased(line, n))

Erase ==
    /\ editing = "yes"
    /\ \E n \in {EraseLast, EraseAll, EraseWord} :
        line' = Erased(line, n) /\ row' = Erased(row, n) /\ kept' = Erased(kept, n)
    /\ UNCHANGED <<editing, rows>>

Enter ==
    /\ editing = "yes" /\ line' = << >> /\ row' = << >> /\ rows' = << >> /\ kept' = << >>
    /\ UNCHANGED editing

\* Seeded fault: the word that moves is left on the row above.
Wrap_NotErased(l, r) ==
    LET n == WordLength(l)
        w == IF n < Len(l) THEN n ELSE 0
    IN /\ rows' = Append(rows, r)
       /\ line' = SubSeq(l, Len(l) - w + 1, Len(l)) /\ row' = SubSeq(l, Len(l) - w + 1, Len(l))

\* A character; a line that is full then goes on in a new row, with its last word
\* unless that is all there is.
Wrap(l, r) ==
    LET n == WordLength(l)
        w == IF n < Len(l) THEN n ELSE 0
    IN /\ rows' = Append(rows, Erased(r, w))
       /\ line' = SubSeq(l, Len(l) - w + 1, Len(l)) /\ row' = SubSeq(l, Len(l) - w + 1, Len(l))

Type(ch) ==
    /\ editing = "yes" /\ kept' = Append(kept, ch)
    /\ LET l == Append(line, ch)  r == Append(row, ch) IN
       \/ Len(l) < LINESIZE /\ line' = l /\ row' = r /\ UNCHANGED rows
       \/ Len(l) = LINESIZE /\ Len(rows) < MaxRows /\ Wrap(l, r)
    /\ UNCHANGED editing

\* CEOT at the beginning of a line, or the end of the input.
EndEditing ==
    /\ editing = "yes" /\ editing' = "over" /\ UNCHANGED <<line, row, rows, kept>>

EditNext ==
    \/ StartEditing \/ Erase \/ Enter \/ EndEditing
    \/ \E ch \in Letters \cup {" "} : Type(ch)

EditSpec == EditInit /\ [][EditNext]_editVars

-----------------------------------------------------------------------------
(* Properties. *)

\* A row is broken after a space, or it is full and has none: no word that fits
\* in a row is broken by the wrapping, and no row is longer than LINESIZE.
RowsBreakAtSpaces ==
    \A i \in DOMAIN rows :
        \/ rows[i] # << >> /\ rows[i][Len(rows[i])] = " " /\ Len(rows[i]) <= LINESIZE
        \/ Len(rows[i]) = LINESIZE /\ \A j \in DOMAIN rows[i] : rows[i][j] # " "

\* After any keys the rows of the screen hold what was typed and not erased, each
\* character once and in order, and the last of them is what the program edits:
\* moving words between rows loses, repeats and breaks nothing.
ScreenShowsText == row = line /\ FlattenSeq(rows) \o row = kept /\ RowsBreakAtSpaces
=============================================================================
