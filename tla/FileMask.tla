------------------------------ MODULE FileMask ------------------------------
(***************************************************************************)
(* 19_file_mask/task19.c: the files are listed whose path fits a mask.  In *)
(* a mask "?" stands for any character, "*" for any characters, and "/"    *)
(* takes what follows it literally: that is how pattern_match sees a mask  *)
(* of several directories.  Text is a sequence of characters; "end" is the *)
(* NUL after the last.                                                     *)
(***************************************************************************)
EXTENDS Integers, Sequences, FiniteSets, SequencesExt, FiniteSetsExt

CONSTANTS
    MaskChars, NameChars,   \* of the masks and names pattern_match is tried on
    MaxMask, MaxName,
    PathChars, MaxPath,     \* of the masks files are searched with
    NAME_MAX                \* what findFiles keeps of a mask in front of its wildcards

ASSUME MaskAssumption ==
    /\ {MaxMask, MaxName, MaxPath, NAME_MAX} \subseteq Nat
    /\ "end" \notin MaskChars \cup NameChars \cup PathChars

VARIABLES
    doing,          \* "start", "match", "matched" or "found"
    mask, name,
    mi, si,         \* places in mask and name
    star, prestar,  \* places to try again from; 0: none
    verdict,
    found           \* paths printed

maskVars == <<doing, mask, name, mi, si, star, prestar, verdict, found>>

MaskInit ==
    /\ doing = "start" /\ mask = << >> /\ name = << >> /\ mi = 1 /\ si = 1
    /\ star = 0 /\ prestar = 0 /\ verdict = FALSE /\ found = {}

At(s, i) == IF i <= Len(s) THEN s[i] ELSE "end"

-----------------------------------------------------------------------------
(* pattern_match: one turn of its loop *)

StartMatch(m, n) ==
    /\ doing' = "match" /\ mask' = m /\ name' = n
    /\ UNCHANGED <<mi, si, star, prestar, verdict, found>>

Answers(v) == doing' = "matched" /\ verdict' = v /\ UNCHANGED <<mi, si, star, prestar>>

\* Seeded fault: the next try starts where this one failed.
Compare_NoReturn(c, d, next) ==
    \/ c = d /\ d = "end" /\ Answers(TRUE)
    \/ c = d /\ d # "end" /\ mi' = next /\ si' = si + 1 /\ UNCHANGED <<doing, star, prestar, verdict>>
    \/ c # d /\ (c = "end" \/ star = 0) /\ Answers(FALSE)
    \/ c # d /\ c # "end" /\ star # 0 /\ mi' = star /\ si' = si + 1 /\ UNCHANGED <<doing, star, prestar, verdict>>

\* c = d, or another try from the last *, one character later.
Compare(c, d, next) ==
    \/ c = d /\ d = "end" /\ Answers(TRUE)
    \/ c = d /\ d # "end" /\ mi' = next /\ si' = si + 1 /\ UNCHANGED <<doing, star, prestar, verdict>>
    \/ c # d /\ (c = "end" \/ star = 0) /\ Answers(FALSE)
    \/ /\ c # d /\ c # "end" /\ star # 0
       /\ mi' = star /\ prestar' = prestar + 1 /\ si' = prestar + 1 /\ UNCHANGED <<doing, star, verdict>>

MatchStep ==
    /\ doing = "match" /\ UNCHANGED <<mask, name, found>>
    /\ LET c == At(name, si)  d == At(mask, mi) IN
       \/ d = "?" /\ c = "end" /\ Answers(FALSE)
       \/ d = "?" /\ c # "end" /\ mi' = mi + 1 /\ si' = si + 1 /\ UNCHANGED <<doing, star, prestar, verdict>>
       \/ d = "*" /\ At(mask, mi + 1) = "end" /\ Answers(TRUE)
       \/ /\ d = "*" /\ At(mask, mi + 1) # "end" /\ mi' = mi + 1 /\ star' = mi + 1 /\ prestar' = si
          /\ UNCHANGED <<doing, si, verdict>>
       \/ d = "/" /\ Compare(c, At(mask, mi + 1), mi + 2)
       \/ d \notin {"?", "*", "/"} /\ Compare(c, d, mi + 1)

\* What the mask m means: fit[i] are the places of the name from which on it fits the
\* mask from i on.
Fits(m, n) ==
    LET places == 1..(Len(n) + 1)
        fit[i \in 1..(Len(m) + 2)] ==
            LET d == At(m, i) IN
            CASE d = "*" -> {j \in places : \E k \in fit[i + 1] : j <= k}
              [] d = "?" -> {j \in 1..Len(n) : j + 1 \in fit[i + 1]}
              [] d = "/" -> {j \in places : At(n, j) = At(m, i + 1) /\ (At(n, j) = "end" \/ j + 1 \in fit[i + 2])}
              [] OTHER -> {j \in places : At(n, j) = d /\ (d = "end" \/ j + 1 \in fit[i + 1])}
    IN 1 \in fit[1]

-----------------------------------------------------------------------------
(* findFiles: the tree it is tried on has a directory Here, where the program *)
(* is, with a file ab and a directory a, in which are a file b and another    *)
(* directory a with a file a.                                                 *)

SubDir == <<"a">>
Here == << <<"h">> >>
TreeFiles == {Here \o << <<"a", "b">> >>, Here \o <<SubDir, <<"b">> >>, Here \o <<SubDir, SubDir, SubDir>>}
TreeDirs == {<< >>, Here, Here \o <<SubDir>>, Here \o <<SubDir, SubDir>>}
TreePaths == TreeFiles \cup TreeDirs

Dot == <<".">>
DotDot == <<".", ".">>
Entries(d) == {Dot, DotDot} \cup {p[Len(p)] : p \in {q \in TreePaths \ {<< >>} : Front(q) = d}}

\* Where a name leads to from d; the parent of the root is the root.
Goto(d, e) == CASE e \in {Dot, << >>} -> d
                [] e = DotDot -> (IF d = << >> THEN d ELSE Front(d))
                [] OTHER -> Append(d, e)

Slashes(m) == {i \in DOMAIN m : m[i] = "/"}
nextSlash(m) == IF Slashes(m) = {} THEN 0 ELSE Min(Slashes(m))
From(s, i) == SubSeq(s, i, Len(s))

\* The paths, relative to d, that are printed for the part of the mask from i on: entries
\* that fit all of it, and what is found in the directories, . and .. among
\* them, that fit it up to its first slash.
listDir(d0, m) ==
    LET list[d \in TreeDirs, i \in 1..(Len(m) + 1)] ==
            LET rest == From(m, i)  slash == nextSlash(rest) IN
            {<<e>> : e \in {x \in Entries(d) \ {Dot, DotDot} : Fits(rest, x)}} \cup
            (IF slash = 0 THEN {}
             ELSE UNION {{<<e>> \o p : p \in list[Goto(d, e), i + slash]} :
                         e \in {x \in Entries(d) : Goto(d, x) \in TreeDirs /\ Fits(SubSeq(rest, 1, slash - 1), x)}})
    IN list[d0, 1]

\* The last slash before the first wildcard; 0: none.
slashBeforeWildcards(m) ==
    LET ok == {i \in Slashes(m) : \A j \in 1..i : m[j] \notin {"?", "*"}}
    IN IF ok = {} THEN 0 ELSE Max(ok)

\* The names between the slashes.
Parts(m) ==
    LET cut(i) == Max({0} \cup {j \in Slashes(m) : Cardinality({k \in Slashes(m) : k <= j}) < i})
        end(i) == Min({Len(m) + 1} \cup {j \in Slashes(m) : j > cut(i)})
    IN [i \in 1..(Cardinality(Slashes(m)) + 1) |-> SubSeq(m, cut(i) + 1, end(i) - 1)]

\* Where the names of a path lead to from the start of the mask m.
Leads(m, p) == FoldLeft(Goto, IF At(m, 1) = "/" THEN << >> ELSE Here, p)

\* opendir of the part that has no wildcards, if it fits an array of NAME_MAX + 1;
\* names that are not there find nothing.
findFiles(m) ==
    LET slash == slashBeforeWildcards(m)
        prefix == IF slash = 0 THEN << >> ELSE Parts(SubSeq(m, 1, slash - 1))
        dir == Leads(m, prefix)
    IN IF slash < NAME_MAX + 1 /\ dir \in TreeDirs
          THEN {prefix \o p : p \in listDir(dir, From(m, slash + 1))}
          ELSE {}

Find(m) ==
    /\ doing' = "found" /\ mask' = m /\ found' = findFiles(m)
    /\ UNCHANGED <<name, mi, si, star, prestar, verdict>>

Texts(chars, n) == UNION {[1..k -> chars] : k \in 0..n}

MaskNext ==
    \/ doing = "start" /\ \E m \in Texts(MaskChars, MaxMask), n \in Texts(NameChars, MaxName) : StartMatch(m, n)
    \/ MatchStep
    \/ doing = "start" /\ \E m \in Texts(PathChars, MaxPath) : Find(m)

MaskSpec == MaskInit /\ [][MaskNext]_maskVars /\ WF_maskVars(MatchStep)

-----------------------------------------------------------------------------
(* Properties. *)

\* pattern_match, which goes back to its last star only, answers what the mask means.
MatchIsRight == doing = "matched" => (verdict <=> Fits(mask, name))

\* What is left of a mask from its i-th part on.
RestOf(m, i) == From(m, 1 + Max({0} \cup {j \in Slashes(m) : Cardinality({k \in Slashes(m) : k <= j}) < i}))

\* Every path of the tree each of whose names fits its part of the mask is
\* printed, for masks without empty parts whose part in front of the wildcards is
\* not longer than NAME_MAX: although directories are searched with rests of the
\* mask, and the names in front of the wildcards are not looked for.
FindsAll ==
    (doing = "found" /\ slashBeforeWildcards(mask) <= NAME_MAX
      /\ << >> \notin {Parts(mask)[i] : i \in DOMAIN Parts(mask)}) =>
        \A p \in TreePaths :
            LET names == SubSeq(p, Len(Here) + 1, Len(p)) IN
            /\ Len(p) = Len(Here) + Len(Parts(mask)) /\ IsPrefix(Here, p)
            /\ \A i \in DOMAIN names : Fits(Parts(mask)[i], names[i])
            => names \in found

\* Whatever is printed is in the tree, and its directories fit their parts of the
\* mask.  With a name for every part its last name fits the last part.  With
\* fewer it does not fit the mask: it is a name next to a directory that was to
\* be searched, and fits the rest of the mask without its slashes, as "ab" does
\* for the mask "*/b"; never is it one in front of the wildcards.
FindsOnly ==
    doing = "found" =>
        \A p \in found :
            LET n == Len(p) IN
            /\ Leads(mask, p) \in TreePaths
            /\ \A i \in 1..(n - 1) : Fits(Parts(mask)[i], p[i])
            /\ n <= Len(Parts(mask)) /\ Fits(RestOf(mask, n), p[n])
            /\ Cardinality({i \in Slashes(mask) : i <= slashBeforeWildcards(mask)}) < n
            /\ slashBeforeWildcards(mask) <= NAME_MAX

\* Names and paths alike are found by what the mask means, but for the strays.
MaskFinds == MatchIsRight /\ FindsAll /\ FindsOnly
=============================================================================
