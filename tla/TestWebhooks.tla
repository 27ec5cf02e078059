----------------------------- MODULE TestWebhooks -----------------------------
(***************************************************************************)
(* Test webhooks: a user who tests a workflow in the editor waits for a    *)
(* call of its webhooks; a call, a timeout or a cancellation ends the      *)
(* wait.  One main.                                                        *)
(*                                                                         *)
(*   call      needsWebhook, at its awaits                                 *)
(*   timer     the timer that each call of needsWebhook sets; `cut` if it  *)
(*             was cleared with webhooks of its call still to register     *)
(*   timeouts  TestWebhooks.timeouts: for a key the timer that a test call *)
(*             of the webhook clears, also after that timer fired          *)
(*   regs      TestWebhookRegistrationsService: the registered keys        *)
(*   jobs      how many executions of executeWebhook and of                *)
(*             deactivateWebhooks are at which await, for which webhook or *)
(*             workflow                                                    *)
(*   stuck     a third party has refused to delete a webhook               *)
(*                                                                         *)
(* The hash of the registrations is read and written in one step, and the  *)
(* third party answers within the two minutes of the timer.  Left out:     *)
(* several mains and the time to live of the hash in Redis, messages to    *)
(* the editor, paths that two workflows share.                             *)
(*                                                                         *)
(* A definition named Slip... is a plausible mistake in the definition     *)
(* after it; no specification uses it.                                     *)
(***************************************************************************)
EXTENDS Naturals, FiniteSets

CONSTANTS
  Workflows, None,
  Calls,    \* bound: calls of needsWebhook
  Hooks,    \* how many webhooks each workflow has
  MaxJobs,  \* bound: with so many jobs in progress, users wait
  MaxFaults \* bound: calls of third-party services that fail

ASSUME HooksAssumption ==
  Hooks \in [Workflows -> Nat \ {0}] /\ MaxJobs \in Nat /\ MaxFaults \in Nat

ASSUME NoneAssumption == None \notin Calls

VARIABLES call, timer, timeouts, regs, jobs, stuck, faults

vars == <<call, timer, timeouts, regs, jobs, stuck, faults>>

Keys == UNION {{w} \X (1 .. Hooks[w]) : w \in Workflows}
KeysOf(w) == {k \in Keys : k[1] = w}

Running == {"running"} \X Keys
Deactivating == {"reading", "deleting", "wiping"} \X Workflows
Kinds == Running \cup Deactivating

Init ==
  /\ call = [c \in Calls |-> [at |-> "none", wf |-> None, next |-> 1]]
  /\ timer = [c \in Calls |-> "none"]
  /\ timeouts = [k \in Keys |-> None]
  /\ regs = {}
  /\ jobs = [k \in Kinds |-> 0]
  /\ stuck = FALSE /\ faults = 0

Begin(b) == jobs' = [jobs EXCEPT ![b] = @ + 1]
End(a) == jobs' = [jobs EXCEPT ![a] = @ - 1]
Goes(a, b) == jobs' = [jobs EXCEPT ![a] = @ - 1, ![b] = @ + 1]

Room == Cardinality({p \in Kinds \X (1 .. MaxJobs) : p[2] <= jobs[p[1]]}) < MaxJobs

Clear(c) == IF timer[c] # "set" THEN timer[c] ELSE IF call[c].at = "done" THEN "cleared" ELSE "cut"
Cleared(T) == timer' = [c \in Calls |-> IF c \in T THEN Clear(c) ELSE timer[c]]

-----------------------------------------------------------------------------
(* needsWebhook *)

Listen(c, w) ==
  /\ call[c].at = "none"
  /\ call' = [call EXCEPT ![c] = [at |-> "registering", wf |-> w, next |-> 1]]
  /\ timer' = [timer EXCEPT ![c] = "set"]
  /\ UNCHANGED <<timeouts, regs, jobs, stuck, faults>>

Key(c) == <<call[c].wf, call[c].next>>

(* The node of the webhook has data already: there is nothing to wait for, *)
(* but the timer stays.                                                    *)
Decline(c) ==
  /\ call[c].at = "registering"
  /\ call' = [call EXCEPT ![c].at = "done"]
  /\ UNCHANGED <<timer, timeouts, regs, jobs, stuck, faults>>

(* The registration precedes the creation at the third party. *)
Register(c) ==
  /\ call[c].at = "registering"
  /\ regs' = regs \cup {Key(c)}
  /\ call' = [call EXCEPT ![c].at = "creating"]
  /\ UNCHANGED <<timer, timeouts, jobs, stuck, faults>>

(* Created: it is registered again, and its timer entered. *)
Create(c) ==
  /\ call[c].at = "creating"
  /\ regs' = regs \cup {Key(c)}
  /\ timeouts' = [timeouts EXCEPT ![Key(c)] = c]
  /\ call' = IF call[c].next < Hooks[call[c].wf]
               THEN [call EXCEPT ![c].at = "registering", ![c].next = @ + 1]
               ELSE [call EXCEPT ![c].at = "done"]
  /\ UNCHANGED <<timer, jobs, stuck, faults>>

(* The third party refuses: the workflow is deactivated, after which the    *)
(* entry in timeouts goes, if the deactivation succeeds; the timer stays.   *)
CreateFails(c) ==
  /\ call[c].at = "creating" /\ faults < MaxFaults
  /\ faults' = faults + 1
  /\ call' = [call EXCEPT ![c].at = "done"]
  /\ UNCHANGED timeouts \/ timeouts' = [timeouts EXCEPT ![Key(c)] = None]
  /\ Begin(<<"reading", call[c].wf>>)
  /\ UNCHANGED <<timer, regs, stuck>>

-----------------------------------------------------------------------------
(* executeWebhook *)

Request(k) ==
  /\ k \in regs /\ Room
  /\ Begin(<<"running", k>>)
  /\ UNCHANGED <<call, timer, timeouts, regs, stuck, faults>>

(* A ping does not run the workflow and leaves the webhook waiting; any     *)
(* other request ends the wait.                                             *)
Ping(k) ==
  /\ jobs[<<"running", k>>] > 0
  /\ End(<<"running", k>>)
  /\ UNCHANGED <<call, timer, timeouts, regs, stuck, faults>>

SlipRan(k) ==
  /\ jobs[<<"running", k>>] > 0
  /\ Cleared({timeouts[k]})
  /\ End(<<"running", k>>)
  /\ UNCHANGED <<call, timeouts, regs, stuck, faults>>

Ran(k) ==
  /\ jobs[<<"running", k>>] > 0
  /\ Cleared({timeouts[k]})
  /\ Goes(<<"running", k>>, <<"reading", k[1]>>)
  /\ UNCHANGED <<call, timeouts, regs, stuck, faults>>

(* cancelWebhook, by the user or by a timer. *)
CancelWebhook(w, fired) ==
  /\ timer' = [c \in Calls |->
                 IF c \in fired THEN "fired"
                 ELSE IF c \in {timeouts[k] : k \in regs \cap KeysOf(w)} THEN Clear(c) ELSE timer[c]]
  /\ IF regs \cap KeysOf(w) = {} THEN UNCHANGED jobs ELSE Begin(<<"reading", w>>)
  /\ UNCHANGED <<call, timeouts, regs, stuck, faults>>

TimerFires(c) == timer[c] = "set" /\ call[c].at = "done" /\ CancelWebhook(call[c].wf, {c})

(* deactivateWebhooks: the webhooks of the workflow are deleted at the third *)
(* party, then `deregisterAll` drops the hash, whatever is in it by now.    *)
Collect(w) ==
  /\ jobs[<<"reading", w>>] > 0
  /\ IF regs \cap KeysOf(w) = {} THEN End(<<"reading", w>>)
                                ELSE Goes(<<"reading", w>>, <<"deleting", w>>)
  /\ UNCHANGED <<call, timer, timeouts, regs, stuck, faults>>

Delete(w) ==
  /\ jobs[<<"deleting", w>>] > 0
  /\ Goes(<<"deleting", w>>, <<"wiping", w>>)
  /\ UNCHANGED <<call, timer, timeouts, regs, stuck, faults>>

(* The third party fails: nothing is deregistered. *)
DeleteFails(w) ==
  /\ jobs[<<"deleting", w>>] > 0 /\ faults < MaxFaults
  /\ faults' = faults + 1 /\ stuck' = TRUE
  /\ End(<<"deleting", w>>)
  /\ UNCHANGED <<call, timer, timeouts, regs>>

Wipe(w) ==
  /\ jobs[<<"wiping", w>>] > 0
  /\ regs' = {}
  /\ End(<<"wiping", w>>)
  /\ UNCHANGED <<call, timer, timeouts, stuck, faults>>

-----------------------------------------------------------------------------
Listening(c) == Decline(c) \/ Register(c) \/ Create(c) \/ CreateFails(c)
Deactivate(w) == Delete(w) \/ DeleteFails(w)

Next ==
  \/ \E c \in Calls : Listening(c) \/ TimerFires(c) \/ \E w \in Workflows : Listen(c, w)
  \/ Room /\ \E w \in Workflows : CancelWebhook(w, {})
  \/ \E k \in Keys : Request(k) \/ Ping(k) \/ Ran(k)
  \/ \E w \in Workflows : Collect(w) \/ Deactivate(w) \/ Wipe(w)

Spec == Init /\ [][Next]_vars

(* Timers fire, and third parties and the nodes of a webhook answer. *)
FairSpec ==
  /\ Spec
  /\ \A c \in Calls : WF_vars(Listening(c)) /\ WF_vars(TimerFires(c))
  /\ \A k \in Keys : WF_vars(Ping(k) \/ Ran(k))
  /\ \A w \in Workflows : WF_vars(Collect(w)) /\ WF_vars(Deactivate(w)) /\ WF_vars(Wipe(w))

-----------------------------------------------------------------------------
(* Every variable has its type. *)
TypeOK ==
  /\ call \in [Calls -> [at : {"none", "registering", "creating", "done"},
                         wf : Workflows \cup {None}, next : Nat \ {0}]]
  /\ \A c \in Calls : call[c].wf # None => call[c].next <= Hooks[call[c].wf]
  /\ timer \in [Calls -> {"none", "set", "cleared", "cut", "fired"}]
  /\ timeouts \in [Keys -> Calls \cup {None}]
  /\ regs \subseteq Keys
  /\ jobs \in [Kinds -> Nat]
  /\ stuck \in BOOLEAN /\ faults \in 0 .. MaxFaults

Watched(w) ==
  \/ \E c \in Calls : call[c].wf = w /\ timer[c] \in {"set", "cut"}
  \/ \E at \in {"reading", "deleting", "wiping"} : jobs[<<at, w>>] > 0
  \/ stuck

(* For every registered webhook somebody is left to end the wait: a timer   *)
(* of a call for its workflow is set, or a deactivation of its workflow is  *)
(* under way (executeWebhook and cancelWebhook clear the timer and then     *)
(* deactivate), with the two exceptions of WaitEnds.                        *)
WaitIsWatched == \A k \in regs : Watched(k[1])

(* Every wait for a call of a test webhook ends, whichever calls, requests, *)
(* timers, cancellations and other tests overlap (`remove the test webhook`,*)
(* executeWebhook), with two exceptions: a third party refused to delete a  *)
(* webhook, or a call of needsWebhook lost its timer before it had          *)
(* registered all webhooks of the workflow.                                 *)
WaitEnds ==
  \A k \in Keys :
    k \in regs ~> \/ k \notin regs \/ stuck
                  \/ \E c \in Calls : call[c].wf = k[1] /\ timer[c] = "cut"
=============================================================================
