---------------------------- MODULE MCRegularMode ----------------------------
(* Small instances of RegularMode for TLC. *)
EXTENDS RegularMode, TLC

CONSTANTS e1, e2, e3, production, evaluation

OneQueue == {production}
LimitOne == [t \in QueueTypes |-> 1]
AllLimited == [e \in Execs |-> production]

(* One production execution and one manual execution. *)
OneManual == [e \in Execs |-> IF e = e2 THEN Unlimited ELSE production]

CallSymmetry == Permutations(Calls) \cup Permutations(Stops)
Symmetry == CallSymmetry \cup Permutations(Execs)
=============================================================================
