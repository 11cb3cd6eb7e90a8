-------------------------- MODULE AtomicMulticast ---------------------------
(***************************************************************************)
(* What task 31 promises, without queue, types or pids: a line goes to all *)
(* present members in one step, each takes the lines in the order they     *)
(* were published, and the publisher is content when all have seen the end.*)
(***************************************************************************)
EXTENDS Naturals, Sequences

CONSTANTS Receivers, END

VARIABLES
    published,  \* number of lines published
    closed,     \* the end has been published
    members,    \* who is addressed by what is published next
    inbox,      \* what each has yet to take: lines, and END behind them
    log,        \* what each has taken
    complete    \* the publisher is content

vars == <<published, closed, members, inbox, log, complete>>

Init ==
    /\ published = 0 /\ closed = FALSE
    /\ members = {}
    /\ inbox = [r \in Receivers |-> {}]
    /\ log = [r \in Receivers |-> << >>]
    /\ complete = FALSE

Join(r) ==
    /\ ~closed /\ r \notin members
    /\ members' = members \cup {r}
    /\ UNCHANGED <<published, closed, inbox, log, complete>>

Multicast(item) ==
    inbox' = [r \in Receivers |->
                IF r \in members THEN inbox[r] \cup {item} ELSE inbox[r]]

Publish ==
    /\ ~closed
    /\ published' = published + 1
    /\ Multicast(published + 1)
    /\ UNCHANGED <<closed, members, log, complete>>

Close ==
    /\ ~closed
    /\ closed' = TRUE
    /\ Multicast(END)
    /\ UNCHANGED <<published, members, log, complete>>

Precedes(item, other) == item # END /\ (other = END \/ item < other)

Take(r) ==
    /\ \E item \in inbox[r] :
        /\ \A other \in inbox[r] \ {item} : Precedes(item, other)
        /\ inbox' = [inbox EXCEPT ![r] = @ \ {item}]
        /\ log' = IF item = END THEN log ELSE [log EXCEPT ![r] = Append(@, item)]
    /\ UNCHANGED <<published, closed, members, complete>>

Complete ==
    /\ closed /\ ~complete
    /\ \A r \in members : inbox[r] = {}
    /\ complete' = TRUE
    /\ UNCHANGED <<published, closed, members, inbox, log>>

Next ==
    \/ Publish \/ Close \/ Complete
    \/ \E r \in Receivers : Join(r) \/ Take(r)

Spec == Init /\ [][Next]_vars
=============================================================================
