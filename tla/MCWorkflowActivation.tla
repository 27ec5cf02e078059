------------------------- MODULE MCWorkflowActivation -------------------------
(* Small instances of WorkflowActivation for TLC. *)
EXTENDS WorkflowActivation

CONSTANTS u, v

(* A trigger that fails, at boot and later, and two users at any time. *)
OneTrigger == [triggers |-> 1, polls |-> 0, active |-> TRUE, versions |-> 2,
               users |-> {u, v}, calls |-> 2, failures |-> 3]

(* Two polls, which a start that fails leaves half scheduled. *)
TwoPolls == [OneTrigger EXCEPT !.triggers = 0, !.polls = 2, !.failures = 2]

(* Nodes of both kinds that never fail, one user. *)
Both == [triggers |-> 2, polls |-> 1, active |-> FALSE, versions |-> 3,
         users |-> {u}, calls |-> 5, failures |-> 0]

(* A trigger and a poll; the trigger may fail while the poll is started. *)
TriggerAndPoll == [triggers |-> 1, polls |-> 1, active |-> TRUE, versions |-> 2,
                   users |-> {u}, calls |-> 1, failures |-> 2]

SmallWorkflows == {OneTrigger, TwoPolls, Both, TriggerAndPoll}
=============================================================================
