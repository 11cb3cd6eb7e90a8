----------------------------- MODULE FilePrograms ----------------------------
(***************************************************************************)
(* The programs that ask the system about a file: 18_ls/main.c and the     *)
(* older one of From Solaris VM/Documents/18_ls ("ls" and "old_ls"), a     *)
(* line for each file; and 3_file_access/main.c, which opens a file as the *)
(* effective and as the real user.  A line is a sequence of columns, a     *)
(* path one of characters.                                                 *)
(***************************************************************************)
EXTENDS Integers, Sequences, SequencesExt, FiniteSets, FiniteSetsExt

CONSTANTS
    LsFiles,    \* what there is to list: [path, type, rights, size]
    MaxListed,  \* arguments
    INT_MAX     \* of the int that printf takes the size for

ASSUME FilesAssumption ==
    /\ MaxListed \in Nat /\ INT_MAX \in Nat
    /\ \A f \in LsFiles :
        f.path \in Seq({f.path[i] : i \in DOMAIN f.path}) /\ f.path # << >> /\ f.size \in Nat

VARIABLES
    asks,       \* the program, or "none"
    asksAt,     \* its place, "end" last
    listed,     \* the arguments
    listing,    \* the lines: [columns, ended]
    exitCode,   \* EXIT_SUCCESS 0, EXIT_FAILURE 1; 139: killed; -1 before
    effective,  \* the effective user
    readers,    \* who may read the file
    openings    \* what the two fopen returned: whether there is a stream

askVars == <<asks, asksAt, listed, listing, exitCode, effective, readers, openings>>

Users == {"real", "owner"}

FilesInit ==
    /\ asks = "none" /\ asksAt = "start" /\ listed = << >> /\ listing = << >> /\ exitCode = -1
    /\ effective = "owner" /\ readers = {} /\ openings = << >>

-----------------------------------------------------------------------------
(* The columns of ls. *)

printType(f) == CASE f.type = "directory" -> "d" [] f.type = "regular" -> "-" [] OTHER -> "?"

\* Right 0 is reading by the owner, right 8 executing by others.
printRights(f) == [i \in 1..9 |-> IF i - 1 \in f.rights THEN <<"r", "w", "x">>[((i - 1) % 3) + 1] ELSE "-"]

\* The size is off_t, the format that of an int.
printSize(f) ==
    LET half == INT_MAX + 1 IN
    IF f.type = "regular" THEN ((f.size + half) % (2 * half)) - half ELSE 0

\* basename(3): what follows the last slash but those at the end.
basename(p) ==
    LET letters == {i \in DOMAIN p : p[i] # "/"} IN
    IF letters = {} THEN <<"/">>
    ELSE LET last == Max(letters)
             slashes == {i \in 1..last : p[i] = "/"} IN
         SubSeq(p, (IF slashes = {} THEN 0 ELSE Max(slashes)) + 1, last)

\* Seeded fault: index is moved on from the start of a name without a slash, too.
printFilename_Always(p) ==
    LET slashes == {i \in 2..Len(p) : p[i] = "/"} IN
    IF slashes = {} THEN Tail(p) ELSE SubSeq(p, Max(slashes) + 1, Len(p))

\* The older scan: a slash at index 0 is not taken for one.
printFilename(p) ==
    LET slashes == {i \in 2..Len(p) : p[i] = "/"} IN
    IF slashes = {} THEN p ELSE SubSeq(p, Max(slashes) + 1, Len(p))

Line(columns, ended) == [columns |-> columns, ended |-> ended]

\* What a call of printInfo prints and returns: the look-ups of the owner, of the
\* group and of the time can fail, and stat.  This printInfo does without the
\* time, and after the end of the line returns whatever comes.
printInfo(f) ==
    LET d == printType(f)  r == printRights(f)  s == printSize(f)  b == basename(f.path) IN
    ({Line(c, FALSE) : c \in {<< >>, <<d, r>>, <<d, r, "owner">>}} \X {-1}) \cup
    ({Line(c, TRUE) : c \in {<<d, r, "owner", "group", s, b>>, <<d, r, "owner", "group", s, "time", b>>}} \X {-1, 0})

\* The older printInfo.
printInfoOld(f) ==
    LET d == printType(f)  r == printRights(f)  s == printSize(f)  b == printFilename(f.path) IN
    ({Line(c, FALSE) : c \in {<< >>, <<d, r>>, <<d, r, "owner">>, <<d, r, "owner", "group", s>>}} \X {1}) \cup
    {<<Line(<<d, r, "owner", "group", s, "time", b>>, TRUE), 0>>}

\* Without arguments the directory itself is listed.
StartLs(p) ==
    /\ asks = "none" /\ asks' = p /\ asksAt' = "list"
    /\ \E n \in 1..MaxListed : listed' \in [1..n -> LsFiles]
    /\ UNCHANGED <<listing, exitCode, effective, readers, openings>>

\* One turn of the loop in main: the first failure ends the program.
ListFile ==
    /\ asks = "ls" /\ asksAt = "list"
    /\ \E call \in printInfo(listed[Len(listing) + 1]) :
        /\ listing' = Append(listing, call[1])
        /\ IF call[2] = -1 THEN exitCode' = 1 /\ asksAt' = "end"
           ELSE IF Len(listing) + 1 = Len(listed) THEN exitCode' = 0 /\ asksAt' = "end"
           ELSE UNCHANGED <<exitCode, asksAt>>
    /\ UNCHANGED <<asks, listed, effective, readers, openings>>

\* The same of the older program.
ListFileOld ==
    /\ asks = "old_ls" /\ asksAt = "list"
    /\ \E call \in printInfoOld(listed[Len(listing) + 1]) :
        /\ listing' = Append(listing, call[1])
        /\ IF call[2] # 0 THEN exitCode' = 1 /\ asksAt' = "end"
           ELSE IF Len(listing) + 1 = Len(listed) THEN exitCode' = 0 /\ asksAt' = "end"
           ELSE UNCHANGED <<exitCode, asksAt>>
    /\ UNCHANGED <<asks, listed, effective, readers, openings>>

-----------------------------------------------------------------------------
(* 3_file_access *)

\* The program is the owner's, with the set-user-id bit or without.
StartAccess ==
    /\ asks = "none" /\ asks' = "access" /\ asksAt' = "open"
    /\ readers' \in SUBSET Users /\ effective' \in Users
    /\ UNCHANGED <<listed, listing, exitCode, openings>>

\* fopen, and fclose of what it returned: with no stream that kills the program,
\* or does nothing.  After the second, the end.
OpenAndClose ==
    /\ asks = "access" /\ asksAt \in {"open", "again"}
    /\ openings' = Append(openings, effective \in readers)
    /\ \/ effective \notin readers /\ exitCode' = 139 /\ asksAt' = "end"
       \/ asksAt = "open" /\ asksAt' = "setuid" /\ UNCHANGED exitCode
       \/ asksAt = "again" /\ asksAt' = "end" /\ exitCode' = 0
    /\ UNCHANGED <<asks, listed, listing, effective, readers>>

\* The result is not looked at.
Setuid ==
    /\ asks = "access" /\ asksAt = "setuid" /\ asksAt' = "again" /\ effective' \in {effective, "real"}
    /\ UNCHANGED <<asks, listed, listing, exitCode, readers, openings>>

-----------------------------------------------------------------------------
FilesNext ==
    \/ \E p \in {"ls", "old_ls"} : StartLs(p)
    \/ ListFile \/ ListFileOld
    \/ StartAccess \/ OpenAndClose \/ Setuid

FilesSpec == FilesInit /\ [][FilesNext]_askVars

-----------------------------------------------------------------------------
(* Properties. *)

\* A path up to its last part: that part is what follows.
LastPart(p) == CHOOSE s \in {SubSeq(p, i, Len(p)) : i \in 1..Len(p)} :
                   /\ \A i \in DOMAIN s : s[i] # "/"
                   /\ Len(s) < Len(p) => p[Len(p) - Len(s)] = "/"

\* The type and the rights, as they are read: "rwxrwxrwx" of owner, group and others.
BeginsTrue(f, c) ==
    Len(c) >= 2 =>
        /\ c[1] = "d" <=> f.type = "directory"
        /\ c[1] = "-" <=> f.type = "regular"
        /\ \A j \in 1..9 :
              c[2][j] = IF j - 1 \in f.rights THEN <<"r", "w", "x", "r", "w", "x", "r", "w", "x">>[j]
                        ELSE "-"

\* A program that ends well has a whole line for every file, a failed one for every
\* file but perhaps the last; when the older one fails that line was cut.  Every line
\* begins with the type and the rights of its file; a whole one has the last part of
\* the path, the size if an int holds it, and the time unless it failed in "ls".
\* The older one shows a name right below the root with the slash.
ListingIsRight ==
    /\ asks \in {"ls", "old_ls"} /\ exitCode = 0 =>
          Len(listing) = Len(listed) /\ \A i \in DOMAIN listing : listing[i].ended
    /\ asks = "old_ls" /\ exitCode = 1 => ~listing[Len(listing)].ended
    /\ \A i \in DOMAIN listing :
        LET f == listed[i]  c == listing[i].columns IN
        /\ i < Len(listing) => listing[i].ended
        /\ BeginsTrue(f, c)
        /\ listing[i].ended =>
            /\ Last(f.path) # "/" =>
                  Last(c) = IF asks = "old_ls" /\ Tail(f.path) = LastPart(f.path) /\ f.path[1] = "/"
                               THEN f.path ELSE LastPart(f.path)
            /\ f.type = "regular" /\ f.size <= INT_MAX => c[5] = f.size
            /\ Len(c) < 7 => asks = "ls"

\* The second opening is by the real user, whoever could read the file before,
\* unless setuid failed; it is reached without a stream only where
\* fclose(NULL) does nothing.
AccessIsReal ==
    asks = "access" /\ Len(openings) = 2 /\ effective = "real" => openings[2] = ("real" \in readers)

\* What is printed about a file is true of it.
FilesAreTold == ListingIsRight /\ AccessIsReal
=============================================================================
