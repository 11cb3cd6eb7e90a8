------------------------------ MODULE ReadLine ------------------------------
(***************************************************************************)
(* read_line of 4_str_list/dslist.c and of 19_file_mask (main.c and        *)
(* task19.c): a line of any length, in a buffer that is doubled while it   *)
(* is full.  The input is a sequence of "c" (a character), "nl" and "nul". *)
(***************************************************************************)
EXTENDS Integers, Sequences

CONSTANTS
    InitialSize,    \* of the buffer: 16
    MaxInput

ASSUME LineAssumption == InitialSize \in Nat \ {0, 1} /\ MaxInput \in Nat

VARIABLES
    readAt,     \* "start", "read", "line" or "null", which is what it returned
    input,      \* all there is to read, and
    taken,      \* how much of it fgets has taken
    buf, bufSize

readVars == <<readAt, input, taken, buf, bufSize>>

ReadInit == readAt = "start" /\ input = << >> /\ taken = 0 /\ buf = << >> /\ bufSize = InitialSize

StartReading(text) ==
    /\ readAt = "start" /\ readAt' = "read" /\ input' = text /\ UNCHANGED <<taken, buf, bufSize>>

\* What fgets takes with room for n characters and a NUL: up to the end of the line.
Taken(n) ==
    LET rest == SubSeq(input, taken + 1, Len(input))
        all == SubSeq(rest, 1, IF n < Len(rest) THEN n ELSE Len(rest))
        ends == {i \in DOMAIN all : all[i] = "nl"}
    IN IF ends = {} THEN all ELSE SubSeq(all, 1, CHOOSE i \in ends : \A j \in ends : i <= j)

\* strlen
UpToNul(s) ==
    LET nuls == {i \in DOMAIN s : s[i] = "nul"}
    IN IF nuls = {} THEN s ELSE SubSeq(s, 1, (CHOOSE i \in nuls : \A j \in nuls : i <= j) - 1)

WithoutNewline(s) == IF s[Len(s)] = "nl" THEN SubSeq(s, 1, Len(s) - 1) ELSE s
Returns(s) == readAt' = "line" /\ buf' = WithoutNewline(s)

\* The buffer is doubled; there may be no memory for it.
Double == bufSize' = 2 * bufSize
\* Seeded fault: the line is over when the buffer is full.
Finished_Full(s) == Len(s) + 1 <= bufSize
\* Less than there was room for, or the end of the line.
Finished(s) == Len(s) + 1 < bufSize \/ s[Len(s)] = "nl"

ReadPart ==
    /\ readAt = "read" /\ UNCHANGED input
    /\ LET part == Taken(bufSize - Len(buf) - 1)
           s == buf \o UpToNul(part)
       IN /\ taken' = taken + Len(part)
          /\ \/ part = << >> /\ buf # << >> /\ Returns(buf) /\ UNCHANGED bufSize
             \/ part = << >> /\ buf = << >> /\ readAt' = "null" /\ UNCHANGED <<buf, bufSize>>
             \/ part # << >> /\ UpToNul(part) = << >> /\ readAt' = "null" /\ UNCHANGED <<buf, bufSize>>
             \/ UpToNul(part) # << >> /\ Finished(s) /\ Returns(s) /\ UNCHANGED bufSize
             \/ UpToNul(part) # << >> /\ ~Finished(s) /\ Double /\ buf' = s /\ UNCHANGED readAt
             \/ UpToNul(part) # << >> /\ ~Finished(s) /\ readAt' = "null" /\ UNCHANGED <<buf, bufSize>>

ReadNext ==
    \/ readAt = "start" /\ \E text \in UNION {[1..n -> {"c", "nl", "nul"}] : n \in 0..MaxInput} : StartReading(text)
    \/ ReadPart

ReadSpec == ReadInit /\ [][ReadNext]_readVars /\ WF_readVars(ReadPart)

-----------------------------------------------------------------------------
(* Properties. *)

\* A line without NULs comes back whole, however the parts that were read end at the
\* buffer's borders: nothing of it is lost, and nothing of the next is taken.
LineIsWhole ==
    readAt = "line" /\ (\A i \in 1..taken : input[i] # "nul") =>
        /\ \A i \in DOMAIN buf : buf[i] = "c" /\ input[i] = "c"
        /\ Len(buf) < Len(input) => input[Len(buf) + 1] = "nl" /\ taken = Len(buf) + 1
=============================================================================
