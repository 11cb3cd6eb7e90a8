----------------------------- MODULE HttpServer -----------------------------
(***************************************************************************)
(* networks/http_server/my_server.c: one process accepts connections into  *)
(* a table of slots and forks a child for each.  The table a child clears  *)
(* is its own copy; the parent neither clears a slot nor closes a socket.  *)
(* Headers are left out: an answer is its code and the pieces of the file. *)
(***************************************************************************)
EXTENDS Integers, Sequences, FiniteSets

CONSTANTS
    CONNMAX,    \* slots
    Conns,      \* connections, as positive numbers
    Pieces      \* a file has up to this many times BYTES bytes

ASSUME ServerAssumption == CONNMAX \in Nat \ {0} /\ Conns \subseteq Nat \ {0} /\ Pieces \in Nat

VARIABLES
    server,     \* the parent: "new", "accept", "search" for a slot, or "gone"
    clients,    \* its table: a connection, or -1
    slot,
    backlog,    \* connections not yet accepted, in order
    link,       \* of a connection: "none", "queued", "open" or "shut"
    child,      \* its child: "none", "recv", "file", "close", "crashed" or "exited"
    got         \* what was sent to it

serverVars == <<server, clients, slot, backlog, link, child, got>>

Slots == 0..(CONNMAX - 1)

ServerInit ==
    /\ server = "new" /\ slot = 0 /\ backlog = << >>
    /\ clients = [s \in Slots |-> -1]
    /\ link = [c \in Conns |-> "none"] /\ child = [c \in Conns |-> "none"]
    /\ got = [c \in Conns |-> << >>]

-----------------------------------------------------------------------------
(* The parent *)

\* It listens, or there is no address, no socket, or no room for it.
start_server == {"accept", "gone"}

\* init_server
Listen ==
    /\ server = "new" /\ server' \in start_server
    /\ UNCHANGED <<clients, slot, backlog, link, child, got>>

\* A failed fork looks like success to the parent.  A failed accept leaves -1 in the
\* slot, which is tried again: nothing changes.
Accept ==
    /\ server = "accept" /\ backlog # << >>
    /\ LET c == Head(backlog) IN
       /\ clients' = [clients EXCEPT ![slot] = c]
       /\ link' = [link EXCEPT ![c] = "open"]
       /\ \E forked \in BOOLEAN : child' = IF forked THEN [child EXCEPT ![c] = "recv"] ELSE child
    /\ backlog' = Tail(backlog) /\ server' = "search"
    /\ UNCHANGED <<slot, got>>

\* Seeded fault: the slot of a child that has exited is free.
Search_Reuse ==
    /\ server = "search"
    /\ IF clients[slot] = -1 \/ child[clients[slot]] = "exited"
          THEN server' = "accept" /\ UNCHANGED slot
          ELSE slot' = (slot + 1) % CONNMAX /\ UNCHANGED server
    /\ UNCHANGED <<clients, backlog, link, child, got>>

\* One turn of the loop for a free slot.
Search ==
    /\ server = "search"
    /\ IF clients[slot] = -1 THEN server' = "accept" /\ UNCHANGED slot
                             ELSE slot' = (slot + 1) % CONNMAX /\ UNCHANGED server
    /\ UNCHANGED <<clients, backlog, link, child, got>>

\* sig_handler, in all processes of the terminal: children end in the middle of an answer.
Interrupt ==
    /\ server \in {"accept", "search"} /\ server' = "gone"
    /\ child' = [c \in Conns |-> IF child[c] \in {"recv", "file", "close"} THEN "exited" ELSE child[c]]
    /\ UNCHANGED <<clients, slot, backlog, link, got>>

-----------------------------------------------------------------------------
(* A child: respond *)

Requests == {"none", "blank", "other", "short", "version", "missing", "found"}

\* What is sent before a file, or instead of it.
handle_http_code(r) ==
    CASE r = "other" -> <<501>>
      [] r = "version" -> <<400>>
      [] r = "missing" -> <<404>>
      [] r = "found" -> <<200>>
      [] OTHER -> << >>

\* Words that are not there are null pointers to strncmp: a child that gets a blank
\* request, or GET with fewer than three words, crashes before it can close.
Receive(c) ==
    /\ child[c] = "recv" /\ UNCHANGED <<server, clients, slot, backlog, link>>
    /\ \E r \in Requests :
        /\ child' = [child EXCEPT ![c] = CASE r \in {"blank", "short"} -> "crashed"
                                           [] r = "found" -> "file"
                                           [] OTHER -> "close"]
        /\ got' = [got EXCEPT ![c] = handle_http_code(r)]

\* handle_http_code has sent 200; fread and send until the end of the file.
SendFile(c) ==
    /\ child[c] = "file" /\ UNCHANGED <<server, clients, slot, backlog, link>>
    /\ \/ Len(got[c]) <= Pieces /\ got' = [got EXCEPT ![c] = Append(@, Len(@))] /\ UNCHANGED child
       \/ child' = [child EXCEPT ![c] = "close"] /\ UNCHANGED got

\* Seeded fault: the socket is closed, without shutdown.
Close_NoShutdown(c) ==
    /\ child[c] = "close" /\ child' = [child EXCEPT ![c] = "exited"]
    /\ UNCHANGED <<server, clients, slot, backlog, link, got>>

Close(c) ==
    /\ child[c] = "close" /\ child' = [child EXCEPT ![c] = "exited"]
    /\ link' = [link EXCEPT ![c] = "shut"]
    /\ UNCHANGED <<server, clients, slot, backlog, got>>

\* The other side.
Connect(c) ==
    /\ server \in {"accept", "search"} /\ link[c] = "none" /\ Len(backlog) < CONNMAX
    /\ link' = [link EXCEPT ![c] = "queued"] /\ backlog' = Append(backlog, c)
    /\ UNCHANGED <<server, clients, slot, child, got>>

Respond(c) == Receive(c) \/ SendFile(c) \/ Close(c)

ServerNext ==
    \/ Listen \/ Accept \/ Search \/ Interrupt
    \/ \E c \in Conns : Respond(c) \/ Connect(c)

\* The kernel runs whoever can run; a client sends its request, or closes.
ServerFairness ==
    /\ WF_serverVars(Accept) /\ WF_serverVars(Search)
    /\ \A c \in Conns : WF_serverVars(Respond(c))

ServerSpec == ServerInit /\ [][ServerNext]_serverVars /\ ServerFairness

-----------------------------------------------------------------------------
(* Properties. *)

Accepted == {c \in Conns : link[c] \in {"open", "shut"}}

\* However early their children end, no more than CONNMAX connections are ever accepted:
\* the search for a free slot never finds one that was used.
ServesConnMaxClients == Cardinality(Accepted) <= CONNMAX

\* The client sees the end of its connection: its child shut it down, or all
\* processes that hold the socket are gone.
ConnectionEnds(c) == link[c] = "shut" \/ server = "gone"

\* Each of the first CONNMAX clients is accepted and sees the end of its connection at last,
\* unless there was no process for it or its child crashed: then the parent's
\* copy of the socket keeps it open.
EarlyClientsEnd ==
    \A c \in Conns :
        link[c] = "queued" /\ Cardinality({k \in Conns : link[k] # "none"}) <= CONNMAX
            ~> \/ ConnectionEnds(c) \/ child[c] = "crashed"
               \/ link[c] = "open" /\ child[c] = "none"
=============================================================================
