-------------------------- MODULE WorkflowActivation --------------------------
(***************************************************************************)
(* One workflow that is saved, activated and deactivated by users while    *)
(* its triggers fail and its activation is retried, on a single main.      *)
(*                                                                         *)
(*   row      the workflow in the database: active, and its content        *)
(*   job      what is in progress: WorkflowService.update of a user; the   *)
(*            activation at boot, retries, and removals by a trigger's     *)
(*            error, each at its awaits                                    *)
(*   entry    ActiveWorkflows.activeWorkflows: whether the workflow is     *)
(*            there, and with which triggers                               *)
(*   live     the triggers that run, whether or not an entry knows them    *)
(*   crons    the scheduled polls                                          *)
(*   queue    ActiveWorkflowManager.queuedActivations: the retry           *)
(*   lost     timers of retries that were set and then overwritten         *)
(*   error    the activation error shown for the workflow                  *)
(*   refused  the activation at boot was given up                          *)
(*   clean    history: nothing has begun while something else was in       *)
(*            progress, and no activation has failed halfway               *)
(*   crossed  history: a trigger has failed while an activation was under  *)
(*            way, which at its end drops the retry of that trigger        *)
(*                                                                         *)
(* Nodes 1 .. triggers are triggers, the others pollers.  Left out: the    *)
(* webhooks of the workflow, closing functions that throw, the growing     *)
(* delay of retries, several mains (MultiMain).                            *)
(*                                                                         *)
(* A definition named Slip... is a plausible mistake in the definition     *)
(* after it; no specification uses it.                                     *)
(***************************************************************************)
EXTENDS Naturals, FiniteSets

CONSTANTS
  Users, None,
  Workflows, \* workflows, and how much may happen to each: the numbers of its
             \* triggers and polls, whether it is active when the process starts,
             \* bounds on the contents that are saved, on the starts that throw and
             \* triggers that fail, and on the calls of its users
  MaxFailures \* bound: the largest number of failures of a workflow

ASSUME ActivationAssumption ==
  /\ IsFiniteSet(Users) /\ Users \cap Nat = {} /\ MaxFailures \in Nat
  /\ \A i \in Workflows :
       /\ i.triggers \in Nat /\ i.polls \in Nat /\ i.triggers + i.polls > 0
       /\ i.active \in BOOLEAN /\ i.versions \in Nat \ {0} /\ i.failures \in 0 .. MaxFailures
       /\ i.calls \in Nat /\ i.users \subseteq Users

ASSUME NoneAssumption == None \notin [armed : BOOLEAN, version : Nat]

VARIABLES wf, row, job, entry, live, crons, queue, lost, error, refused, clean, crossed, failures, calls

vars == <<wf, row, job, entry, live, crons, queue, lost, error, refused, clean, crossed, failures, calls>>

Nodes == 1 .. wf.triggers + wf.polls
Versions == 1 .. wf.versions

(* A failure leaves at most a removal and a timer behind. *)
Tasks == 1 .. 2 * MaxFailures + 1
Jobs == Users \cup Tasks

Idle == [at |-> "idle", kind |-> "none", version |-> 1, next |-> 1, open |-> {}]

NoEntry == [there |-> FALSE, triggers |-> {}]
EntryOf(S) == [there |-> TRUE, triggers |-> S]

(* `activeWorkflows.add` begins with the first node; a workflow without     *)
(* triggers has its entry at once.                                          *)
Starting(kind, v) == [Idle EXCEPT !.at = "starting", !.kind = kind, !.version = v]
Entered == IF wf.triggers = 0 THEN EntryOf({}) ELSE entry

Init ==
  /\ wf \in Workflows
  /\ row = [active |-> wf.active, version |-> 1]
  /\ job = [j \in Jobs |-> IF j = 1 /\ wf.active THEN Starting("boot", 1) ELSE Idle]
  /\ entry = IF wf.active /\ wf.triggers = 0 THEN EntryOf({}) ELSE NoEntry
  /\ live = {} /\ crons = {} /\ queue = None /\ lost = [v \in Versions |-> 0]
  /\ error = FALSE /\ refused = FALSE /\ clean = TRUE /\ crossed = FALSE /\ failures = 0 /\ calls = 0

Busy == \E j \in Jobs : job[j].at # "idle"

(* An activation has started a node and is not over. *)
UnderWay == \E j \in Jobs : job[j].at = "starting" /\ job[j].next > 1

Begins == clean' = (clean /\ ~Busy)

FreeTasks == {t \in Tasks : job[t].at = "idle"}
FreeTask == CHOOSE t \in FreeTasks : \A s \in FreeTasks : t <= s

Known == live \cup crons \cup entry.triggers \cup UNION {job[j].open : j \in Jobs}
FreshId == CHOOSE i \in 1 .. Cardinality(Known) + 1 : \A x \in Known : x.id # i

Step(j, at) == job' = [job EXCEPT ![j].at = at]
Retry(v) == [armed |-> TRUE, version |-> v]

-----------------------------------------------------------------------------
(* WorkflowService.update *)

(* The workflow is read, once, for what follows. *)
Read(u, want) ==
  /\ job[u].at = "idle" /\ u \in wf.users /\ calls < wf.calls
  /\ job' = [job EXCEPT ![u] = [Idle EXCEPT !.kind = want,
                                  !.at = IF row.active THEN "removing" ELSE "writing"]]
  /\ calls' = calls + 1
  /\ Begins
  /\ UNCHANGED <<wf, crossed, row, entry, live, crons, queue, lost, error, refused, failures>>

(* `remove`, up to the first trigger it has to close. *)
SlipRemove(u) ==
  /\ job[u].at = "removing"
  /\ error' = FALSE /\ queue' = None
  /\ IF ~entry.there THEN Step(u, "writing") /\ UNCHANGED crons
     ELSE /\ job' = [job EXCEPT ![u].at = "closing", ![u].open = entry.triggers]
          /\ UNCHANGED crons
  /\ UNCHANGED <<wf, crossed, row, entry, live, lost, refused, clean, failures, calls>>

Remove(u) ==
  /\ job[u].at = "removing"
  /\ error' = FALSE /\ queue' = None
  /\ IF ~entry.there THEN Step(u, "writing") /\ UNCHANGED crons
     ELSE /\ job' = [job EXCEPT ![u].at = "closing", ![u].open = entry.triggers]
          /\ crons' = {}
  /\ UNCHANGED <<wf, crossed, row, entry, live, lost, refused, clean, failures, calls>>

(* ActiveWorkflows.remove: its triggers are closed, and the entry goes,     *)
(* also if it is another one by now.                                        *)
CloseEnds(j) ==
  /\ job[j].at = "closing"
  /\ live' = live \ job[j].open
  /\ entry' = NoEntry
  /\ job' = [job EXCEPT ![j].at = IF j \in Users THEN "writing" ELSE "idle", ![j].open = {}]
  /\ UNCHANGED <<wf, crossed, row, crons, queue, lost, error, refused, clean, failures, calls>>

Write(u) ==
  /\ job[u].at = "writing"
  /\ row' = CASE job[u].kind = "activate"   -> [row EXCEPT !.active = TRUE]
              [] job[u].kind = "deactivate" -> [row EXCEPT !.active = FALSE]
              [] job[u].kind = "save" ->
                   [row EXCEPT !.version = IF @ < wf.versions THEN @ + 1 ELSE @]
  /\ Step(u, "deciding")
  /\ UNCHANGED <<wf, crossed, entry, live, crons, queue, lost, error, refused, clean, failures, calls>>

(* The workflow is read again; if it is active, it is added. *)
Decide(u) ==
  /\ job[u].at = "deciding"
  /\ Step(u, IF row.active THEN "loading" ELSE "idle")
  /\ UNCHANGED <<wf, crossed, row, entry, live, crons, queue, lost, error, refused, clean, failures, calls>>

(* `add` without a workflow at hand reads it once more. *)
Load(u) ==
  /\ job[u].at = "loading"
  /\ job' = [job EXCEPT ![u] = Starting(job[u].kind, row.version)]
  /\ entry' = Entered /\ refused' = FALSE
  /\ UNCHANGED <<wf, crossed, row, live, crons, queue, lost, error, clean, failures, calls>>

(* An activation that failed makes the workflow inactive again. *)
Revert(u) ==
  /\ job[u].at = "reverting"
  /\ row' = [row EXCEPT !.active = FALSE]
  /\ Step(u, "idle")
  /\ UNCHANGED <<wf, crossed, entry, live, crons, queue, lost, error, refused, clean, failures, calls>>

-----------------------------------------------------------------------------
(* `add`: the nodes are started one by one.  The entry replaces the one     *)
(* there may be once all triggers run, the polls follow, and at the end     *)
(* nothing is left to retry.                                                *)
SlipStartNode(j) ==
  LET n == job[j].next
      x == [node |-> n, version |-> job[j].version, id |-> FreshId]
      mine == IF n <= wf.triggers THEN job[j].open \cup {x} ELSE job[j].open
  IN
  /\ job[j].at = "starting"
  /\ IF n <= wf.triggers THEN live' = live \cup {x} /\ UNCHANGED crons
                      ELSE crons' = crons \cup {x} /\ UNCHANGED live
  /\ entry' = IF n = wf.triggers THEN EntryOf(mine) ELSE entry
  /\ IF n \in Nodes
       THEN /\ job' = [job EXCEPT ![j].next = n + 1, ![j].open = mine]
            /\ UNCHANGED <<queue, error>>
       ELSE job' = [job EXCEPT ![j] = Idle] /\ queue' = None /\ error' = FALSE
  /\ UNCHANGED <<wf, crossed, row, lost, refused, clean, failures, calls>>

StartNode(j) ==
  LET n == job[j].next
      x == [node |-> n, version |-> job[j].version, id |-> FreshId]
      mine == IF n <= wf.triggers THEN job[j].open \cup {x} ELSE job[j].open
  IN
  /\ job[j].at = "starting"
  /\ IF n <= wf.triggers THEN live' = live \cup {x} /\ UNCHANGED crons
                      ELSE crons' = crons \cup {x} /\ UNCHANGED live
  /\ entry' = IF n = wf.triggers THEN EntryOf(mine) ELSE entry
  /\ IF n + 1 \in Nodes
       THEN /\ job' = [job EXCEPT ![j].next = n + 1, ![j].open = mine]
            /\ UNCHANGED <<queue, error>>
       ELSE job' = [job EXCEPT ![j] = Idle] /\ queue' = None /\ error' = FALSE
  /\ UNCHANGED <<wf, crossed, row, lost, refused, clean, failures, calls>>

(* The catch of `retryFunction` sets the next timer of the retry that is    *)
(* queued, forgetting one that is set; it throws if there is none.          *)
RetryAgain(v) ==
  IF queue = None THEN UNCHANGED <<queue, lost>>
  ELSE /\ lost' = IF queue.armed THEN [lost EXCEPT ![queue.version] = @ + 1] ELSE lost
       /\ queue' = Retry(v)

(* Starting a node throws, and with it `add`.  At boot, an authorization    *)
(* error is not retried.                                                    *)
SlipPollFails(j) ==
  /\ job[j].at = "starting" /\ failures < wf.failures
  /\ failures' = failures + 1
  /\ entry' = IF wf.triggers = 0 THEN NoEntry ELSE entry
  /\ error' = TRUE
  /\ \/ /\ j \in Users
        /\ Step(j, "reverting")
        /\ UNCHANGED <<queue, lost, refused>>
     \/ /\ job[j].kind = "boot"
        /\ job' = [job EXCEPT ![j] = Idle]
        /\ UNCHANGED <<queue, refused>>
        /\ UNCHANGED lost
     \/ /\ job[j].kind = "retry"
        /\ job' = [job EXCEPT ![j] = Idle]
        /\ RetryAgain(job[j].version)
        /\ UNCHANGED refused
  /\ clean' = (clean /\ job[j].next = 1)
  /\ UNCHANGED <<wf, crossed, row, live, crons, calls>>

SlipStartFails(j) ==
  /\ job[j].at = "starting" /\ failures < wf.failures
  /\ failures' = failures + 1
  /\ entry' = IF wf.triggers = 0 THEN NoEntry ELSE entry
  /\ UNCHANGED error
  /\ \/ /\ j \in Users
        /\ Step(j, "reverting")
        /\ UNCHANGED <<queue, lost, refused>>
     \/ /\ job[j].kind = "boot"
        /\ job' = [job EXCEPT ![j] = Idle]
        /\ \/ queue' = Retry(job[j].version) /\ UNCHANGED refused
           \/ refused' = TRUE /\ UNCHANGED queue
        /\ UNCHANGED lost
     \/ /\ job[j].kind = "retry"
        /\ job' = [job EXCEPT ![j] = Idle]
        /\ RetryAgain(job[j].version)
        /\ UNCHANGED refused
  /\ clean' = (clean /\ job[j].next = 1)
  /\ UNCHANGED <<wf, crossed, row, live, crons, calls>>

StartFails(j) ==
  /\ job[j].at = "starting" /\ failures < wf.failures
  /\ failures' = failures + 1
  /\ entry' = IF wf.triggers = 0 THEN NoEntry ELSE entry
  /\ error' = TRUE
  /\ \/ /\ j \in Users
        /\ Step(j, "reverting")
        /\ UNCHANGED <<queue, lost, refused>>
     \/ /\ job[j].kind = "boot"
        /\ job' = [job EXCEPT ![j] = Idle]
        /\ \/ queue' = Retry(job[j].version) /\ UNCHANGED refused
           \/ refused' = TRUE /\ UNCHANGED queue
        /\ UNCHANGED lost
     \/ /\ job[j].kind = "retry"
        /\ job' = [job EXCEPT ![j] = Idle]
        /\ RetryAgain(job[j].version)
        /\ UNCHANGED refused
  /\ clean' = (clean /\ job[j].next = 1)
  /\ UNCHANGED <<wf, crossed, row, live, crons, calls>>

(* The timer of a retry fires; it activates the content it was made with. *)
Fire ==
  /\ FreeTasks # {}
  /\ \/ /\ queue # None /\ queue.armed
        /\ queue' = [queue EXCEPT !.armed = FALSE]
        /\ job' = [job EXCEPT ![FreeTask] = Starting("retry", queue.version)]
        /\ UNCHANGED lost
     \/ \E v \in Versions :
          /\ lost[v] > 0
          /\ lost' = [lost EXCEPT ![v] = @ - 1]
          /\ job' = [job EXCEPT ![FreeTask] = Starting("retry", v)]
          /\ UNCHANGED queue
  /\ entry' = Entered
  /\ Begins
  /\ UNCHANGED <<wf, crossed, row, live, crons, error, refused, failures, calls>>

(* `emitError`: a running trigger reports that it failed.  The workflow     *)
(* leaves the memory, and a retry replaces the one that may be queued.      *)
SlipTriggerFails ==
  /\ failures < wf.failures /\ FreeTasks # {}
  /\ \E x \in live : live' = live \ {x}
  /\ error' = TRUE /\ UNCHANGED queue
  /\ IF ~entry.there THEN UNCHANGED <<job, crons>>
     ELSE /\ job' = [job EXCEPT ![FreeTask] = [Idle EXCEPT !.at = "closing", !.open = entry.triggers]]
          /\ crons' = {}
  /\ failures' = failures + 1
  /\ Begins
  /\ crossed' = (crossed \/ UnderWay)
  /\ UNCHANGED <<wf, row, entry, lost, refused, calls>>

TriggerFails ==
  /\ failures < wf.failures /\ FreeTasks # {}
  /\ \E x \in live :
       /\ live' = live \ {x}
       /\ queue' = Retry(x.version)
  /\ error' = TRUE
  /\ IF ~entry.there THEN UNCHANGED <<job, crons>>
     ELSE /\ job' = [job EXCEPT ![FreeTask] = [Idle EXCEPT !.at = "closing", !.open = entry.triggers]]
          /\ crons' = {}
  /\ failures' = failures + 1
  /\ Begins
  /\ crossed' = (crossed \/ UnderWay)
  /\ UNCHANGED <<wf, row, entry, lost, refused, calls>>

-----------------------------------------------------------------------------
Update(u) == Remove(u) \/ Write(u) \/ Decide(u) \/ Load(u) \/ Revert(u)

Next ==
  \/ \E u \in Users : Update(u) \/ \E want \in {"save", "activate", "deactivate"} : Read(u, want)
  \/ \E j \in Jobs : CloseEnds(j) \/ StartNode(j) \/ StartFails(j)
  \/ Fire \/ TriggerFails

Spec == Init /\ [][Next]_vars

(* Queries are answered and timers fire; a node that starts or closes does  *)
(* so in the end, one way or the other.                                     *)
FairSpec ==
  /\ Spec
  /\ \A u \in Users : WF_vars(Update(u))
  /\ \A j \in Jobs : WF_vars(CloseEnds(j)) /\ WF_vars(StartNode(j) \/ StartFails(j))
  /\ WF_vars(Fire)

-----------------------------------------------------------------------------
Instances == [node : Nodes, version : Versions, id : Nat \ {0}]

(* Every variable has its type. *)
TypeOK ==
  /\ row \in [active : BOOLEAN, version : Versions]
  /\ job \in [Jobs -> [at : {"idle", "removing", "closing", "writing", "deciding", "loading",
                             "starting", "reverting"},
                       kind : {"none", "save", "activate", "deactivate", "boot", "retry"},
                       version : Versions, next : Nodes, open : SUBSET Instances]]
  /\ entry \in [there : BOOLEAN, triggers : SUBSET Instances]
  /\ live \subseteq Instances /\ crons \subseteq Instances
  /\ queue = None \/ queue \in [armed : BOOLEAN, version : Versions]
  /\ lost \in [Versions -> Nat]
  /\ error \in BOOLEAN /\ refused \in BOOLEAN
  /\ wf \in Workflows /\ clean \in BOOLEAN /\ crossed \in BOOLEAN
  /\ failures \in 0 .. wf.failures /\ calls \in 0 .. wf.calls

RetryDue == (queue # None /\ queue.armed) \/ \E v \in Versions : lost[v] > 0

(* Every node of the workflow runs. *)
Running == \A n \in Nodes : \E x \in live \cup crons : x.node = n

(* An active workflow that does not run is tried again, whatever failed in  *)
(* whichever order and whoever saved it meanwhile, unless the start-up gave *)
(* it up or a trigger failed during an activation (the promise of emitError *)
(* and of addQueuedWorkflowActivation).                                     *)
DownIsRetried == row.active => Running \/ Busy \/ RetryDue \/ refused \/ crossed

(* An active workflow that does not run shows an error: none of the calls   *)
(* that register and deregister errors hides the failure of another, but    *)
(* that of a trigger which failed during an activation.                     *)
DownIsShown == row.active /\ ~Running /\ ~Busy => error \/ crossed

(* An active workflow runs in the end, once its nodes no longer fail.       *)
ComesUp == row.active ~> Running \/ refused \/ crossed \/ ~row.active

RunsOnce(S, N) ==
  /\ \A x \in S : x.version = row.version /\ x.node \in N
  /\ \A n \in N : Cardinality({x \in S : x.node = n}) = 1

(* Whatever was saved, activated, deactivated, failed and retried, one      *)
(* thing after the other: either nothing of the workflow runs, or it is     *)
(* active and its triggers and polls run as stored, each once, and the      *)
(* memory knows all of them.                                                *)
RunsAsStored ==
  clean /\ ~Busy =>
    \/ live = {} /\ crons = {} /\ ~entry.there
    \/ /\ row.active /\ entry = EntryOf(live)
       /\ RunsOnce(live, 1 .. wf.triggers) /\ RunsOnce(crons, Nodes \ (1 .. wf.triggers))
=============================================================================
