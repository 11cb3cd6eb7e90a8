----------------------------- MODULE SysVQueue ------------------------------
(***************************************************************************)
(* System V message queues as the programs of tasks 30, 31 and 32 use      *)
(* them.  This is the kernel's side (msgsnd(2), msgrcv(2)); it is not      *)
(* under src/.  A queue is the sequence of its messages, records with a    *)
(* field mtype; msgrcv takes the first message of the type asked for, and  *)
(* type 0 (ANY_TYPE) the first of all.  The kernel limits a queue in bytes *)
(* (16384); the models limit the number of messages.                       *)
(***************************************************************************)
EXTENDS Naturals, Sequences, SequencesExt

CONSTANTS QueueLimit,   \* bound: messages a queue holds before msgsnd sleeps
          ANY_TYPE      \* the msgtyp 0

ASSUME QueueLimitAssumption == QueueLimit \in Nat \ {0}

\* msgsnd need not sleep.
HasRoom(queue) == Len(queue) < QueueLimit

\* Position of the message msgrcv would take, 0 if there is none.
Position(queue, msgtyp) ==
    SelectInSeq(queue, LAMBDA m : msgtyp \in {ANY_TYPE, m.mtype})

Arrived(queue, msgtyp) == Position(queue, msgtyp) > 0
Message(queue, msgtyp) == queue[Position(queue, msgtyp)]
Rest(queue, msgtyp) == RemoveAt(queue, Position(queue, msgtyp))
=============================================================================
