----------------------------- MODULE MCTaskBroker -----------------------------
(* Small instances of TaskBroker for TLC. *)
EXTENDS TaskBroker, TLC

Symmetry == Permutations(Requests) \cup Permutations(Runners)
=============================================================================
