-------------------------- MODULE MCTaskRegistration --------------------------
(* TaskRegistration for TLC: callers, tasks and names are interchangeable. *)
EXTENDS TaskRegistration, TLC

Symmetry == Permutations(Callers) \cup Permutations(Tasks) \cup Permutations(Names)
=============================================================================
