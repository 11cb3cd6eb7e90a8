------------------------- MODULE LockstepBroadcast --------------------------
(***************************************************************************)
(* What task 36 promises, without semaphores, queue or shared memory: a    *)
(* broadcast in rounds.  A round has a number of seats, which only grows;  *)
(* the text of a round is delivered to one consumer per seat, and the next *)
(* round starts when all have it.  A consumer that has a seat keeps it.    *)
(***************************************************************************)
EXTENDS Naturals, Sequences, FiniteSets

CONSTANT Consumers

VARIABLES
    round,      \* number of the text being delivered, 0 before the first
    seats,      \* how many consumers the round is for
    got,        \* the consumers that have the text
    log,        \* the texts delivered to each consumer
    closed,     \* the end has been announced
    finished,   \* the consumers that have seen the end
    complete    \* the producer is content

vars == <<round, seats, got, log, closed, finished, complete>>

Init ==
    /\ round = 0 /\ seats = 0
    /\ got = {}
    /\ log = [c \in Consumers |-> << >>]
    /\ closed = FALSE
    /\ finished = {}
    /\ complete = FALSE

RoundOver == Cardinality(got) = seats

Publish ==
    /\ ~closed /\ RoundOver
    /\ round' = round + 1
    /\ seats' \in (1..Cardinality(Consumers)) \cap {n \in Nat : n >= seats}
    /\ got' = {}
    /\ UNCHANGED <<log, closed, finished, complete>>

Deliver(c) ==
    /\ ~closed /\ ~RoundOver
    /\ c \notin got
    /\ log[c] = << >> \/ log[c][Len(log[c])] = round - 1
    /\ log' = [log EXCEPT ![c] = Append(@, round)]
    /\ got' = got \cup {c}
    /\ UNCHANGED <<round, seats, closed, finished, complete>>

Close ==
    /\ ~closed /\ RoundOver /\ round > 0
    /\ closed' = TRUE
    /\ UNCHANGED <<round, seats, got, log, finished, complete>>

Finish(c) ==
    /\ closed
    /\ c \in got \ finished
    /\ finished' = finished \cup {c}
    /\ UNCHANGED <<round, seats, got, log, closed, complete>>

Complete ==
    /\ closed /\ ~complete
    /\ finished = got
    /\ complete' = TRUE
    /\ UNCHANGED <<round, seats, got, log, closed, finished>>

Next ==
    \/ Publish \/ Close \/ Complete
    \/ \E c \in Consumers : Deliver(c) \/ Finish(c)

Spec == Init /\ [][Next]_vars
=============================================================================
