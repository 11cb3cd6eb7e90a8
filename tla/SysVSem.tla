------------------------------ MODULE SysVSem -------------------------------
(***************************************************************************)
(* System V semaphores with SEM_UNDO, as the programs of tasks 34 and 36   *)
(* use them: one operation per semop call, every operation undoable.  This *)
(* is the kernel's side; it is not under src/ and follows the Linux rules  *)
(* (semop(2)): the value is tested first and the caller sleeps if it would *)
(* become negative, then both the value and the caller's adjustment are    *)
(* checked against their limits (ERANGE), then both change.                *)
(***************************************************************************)
EXTENDS Integers

CONSTANT SEMVMX     \* largest semaphore value; SEMAEM has the same value (32767)

ASSUME SEMVMXAssumption == SEMVMX \in Nat \ {0}

SemAdjustments == (-SEMVMX - 1)..SEMVMX

\* The caller of semop {sem_op = op} on a semaphore of value v sleeps.
Blocks(v, op) == IF op = 0 THEN v # 0 ELSE v + op < 0

\* The call changes value v and the caller's adjustment adj.
Applies(v, adj, op) ==
    /\ ~Blocks(v, op)
    /\ v + op <= SEMVMX
    /\ adj - op \in SemAdjustments

\* The call returns ERANGE and changes nothing.
OutOfRange(v, adj, op) == ~Blocks(v, op) /\ ~Applies(v, adj, op)

\* What the exit of a process with adjustment adj makes of value v.
Undone(v, adj) ==
    IF v + adj < 0 THEN 0
    ELSE IF v + adj > SEMVMX THEN SEMVMX
    ELSE v + adj
=============================================================================
