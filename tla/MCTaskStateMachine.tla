------------------------- MODULE MCTaskStateMachine -------------------------
(* A small instance of TaskStateMachine: one or two tasks, two references. *)
EXTENDS TaskStateMachine, TLC

CONSTANTS r1, r2, e1, e2

MCBudgets == {0, 1}

(* Refs and event ids are only compared for equality. *)
Symmetric == Permutations({r1, r2}) \cup Permutations({e1, e2})
=============================================================================
