----------------------------- MODULE MCPrograms -----------------------------
(***************************************************************************)
(* The programs that share nothing with another program, side by side: a   *)
(* behaviour is one of a single program, the others are not started.       *)
(***************************************************************************)
EXTENDS HttpServer, HttpClient, Pipes, PollFiles, TerminalPrograms, LineEditor,
        LinesByNumber, FileMask, ReadLine, ChildPrograms, FilePrograms

Heads == {<<"H", ":", "/", "/", "h">>, <<"H", ":", "/", "/", "[">>, <<"h", ":", "/">>, <<"?">>}

\* Files to list: every short path, and every type and size.
File(path, type, rights, size) == [path |-> path, type |-> type, rights |-> rights, size |-> size]
FilesToList ==
    {File(path, "regular", {0, 1, 3}, 1) : path \in BoundedSeq({"a", "/"}, 3) \ {<< >>}} \cup
    {File(<<"a">>, "regular", {4, 5, 6, 7}, 1)} \cup
    {File(<<"a">>, type, {2, 8}, size) : type \in {"directory", "regular", "other"}, size \in 0..5}

Started ==
    (IF server # "new" THEN {"server"} ELSE {})
      \cup (IF urlAt # "start" THEN {"client"} ELSE {})
      \cup (IF pipeProgram # "none" THEN {"pipes"} ELSE {})
      \cup (IF pollAt # "start" THEN {"poll"} ELSE {})
      \cup (IF prog # "none" THEN {"terminal"} ELSE {})
      \cup (IF editing # "no" THEN {"editor"} ELSE {})
      \cup (IF lineAt # "start" THEN {"lines"} ELSE {})
      \cup (IF doing # "start" THEN {"mask"} ELSE {})
      \cup (IF readAt # "start" THEN {"read"} ELSE {})
      \cup (IF parent # "none" THEN {"child"} ELSE {})
      \cup (IF asks # "none" THEN {"file"} ELSE {})

Runs(program) == Started \subseteq {program}

MCInit ==
    /\ ServerInit /\ ClientInit /\ PipesInit /\ PollInit /\ TermInit /\ EditInit
    /\ LinesInit /\ MaskInit /\ ReadInit /\ ChildInit /\ FilesInit

MCNext ==
    \/ Runs("server") /\ ServerNext
       /\ UNCHANGED <<urlVars, pipesVars, pollVars, termVars, editVars, linesVars,
                      maskVars, readVars, childVars, askVars>>
    \/ Runs("client") /\ ClientNext
       /\ UNCHANGED <<serverVars, pipesVars, pollVars, termVars, editVars, linesVars,
                      maskVars, readVars, childVars, askVars>>
    \/ Runs("pipes") /\ PipesNext
       /\ UNCHANGED <<serverVars, urlVars, pollVars, termVars, editVars, linesVars,
                      maskVars, readVars, childVars, askVars>>
    \/ Runs("poll") /\ PollNext
       /\ UNCHANGED <<serverVars, urlVars, pipesVars, termVars, editVars, linesVars,
                      maskVars, readVars, childVars, askVars>>
    \/ Runs("terminal") /\ TermNext
       /\ UNCHANGED <<serverVars, urlVars, pipesVars, pollVars, editVars, linesVars,
                      maskVars, readVars, childVars, askVars>>
    \/ Runs("editor") /\ EditNext
       /\ UNCHANGED <<serverVars, urlVars, pipesVars, pollVars, termVars, linesVars,
                      maskVars, readVars, childVars, askVars>>
    \/ Runs("lines") /\ LinesNext
       /\ UNCHANGED <<serverVars, urlVars, pipesVars, pollVars, termVars, editVars,
                      maskVars, readVars, childVars, askVars>>
    \/ Runs("mask") /\ MaskNext
       /\ UNCHANGED <<serverVars, urlVars, pipesVars, pollVars, termVars, editVars,
                      linesVars, readVars, childVars, askVars>>
    \/ Runs("read") /\ ReadNext
       /\ UNCHANGED <<serverVars, urlVars, pipesVars, pollVars, termVars, editVars,
                      linesVars, maskVars, childVars, askVars>>
    \/ Runs("child") /\ ChildNext
       /\ UNCHANGED <<serverVars, urlVars, pipesVars, pollVars, termVars, editVars,
                      linesVars, maskVars, readVars, askVars>>
    \/ Runs("file") /\ FilesNext
       /\ UNCHANGED <<serverVars, urlVars, pipesVars, pollVars, termVars, editVars,
                      linesVars, maskVars, readVars, childVars>>

MCSpec ==
    /\ MCInit
    /\ [][MCNext]_<<serverVars, urlVars, pipesVars, pollVars, termVars, editVars,
                    linesVars, maskVars, readVars, childVars, askVars>>
    /\ ServerFairness /\ PipesFairness /\ WF_pollVars(PollStep) /\ ChildFairness

-----------------------------------------------------------------------------
\* Every program of pipes, children or polled files ends, with the processes it
\* started, whatever fails: no process waits for the end of a pipe it keeps
\* open itself, and no read, poll or wait is repeated for ever.
ProgramsEnd == PipesEnd /\ PollEnds /\ ChildrenEnd
=============================================================================
