----------------------------- MODULE RegularMode -----------------------------
(***************************************************************************)
(* Executions of an n8n main process in regular mode, from the call of     *)
(* WorkflowRunner.run to the release of the concurrency slot:              *)
(*                                                                         *)
(*   ConcurrencyControlService  queues, enabled                            *)
(*   ActiveExecutions           active, workflow                           *)
(*   WaitTracker                timers, polled                             *)
(*   ExecutionRepository        db (survives a crash of the process)       *)
(*   ExecutionService.stop      stop                                       *)
(*   Start (boot, requeue)      phase, boot                                *)
(*                                                                         *)
(* A member of Calls is one invocation of run(); several calls may run the *)
(* same execution (a resume after a wait, a rerun at boot).  JavaScript    *)
(* runs a handler without interruption between two awaits, so an action is *)
(* the code between two awaits, and the write that an await waits for is   *)
(* part of the action that issues it unless another handler can tell.      *)
(*                                                                         *)
(* A definition named Slip... is a plausible mistake in the definition     *)
(* after it; no specification uses it.                                     *)
(***************************************************************************)
EXTENDS Integers, Sequences, FiniteSets, ConcurrencyQueue

CONSTANTS
  Execs,        \* execution ids
  Calls,        \* invocations of WorkflowRunner.run
  Stops,        \* user requests to stop an execution
  QueueTypes,   \* kinds with a concurrency limit: "production", "evaluation"
  Unlimited,    \* the lane of a mode without a limit
  None,         \* no call
  Limit,        \* [QueueTypes -> Nat]: the configured limits
  ModeLane,     \* [Execs -> Lanes]: lane of the mode the execution is saved with
  WebhookLane,  \* lane of mode `webhook`, in which a waiting webhook resumes
  Outcomes,     \* how a workflow run may end
  HasTimeout,   \* whether the workflows have an execution timeout
  MaxFaults,    \* bound: failed database writes
  MaxCrashes    \* bound: crashes and restarts of the process

Lanes == QueueTypes \cup {Unlimited}

ASSUME ConstantsAssumption ==
  /\ IsFiniteSet(Calls)
  /\ IsFiniteSet(Stops)
  /\ Unlimited \notin QueueTypes
  /\ None \notin Calls \cup Execs
  /\ Limit \in [QueueTypes -> Nat \ {0}]
  /\ ModeLane \in [Execs -> Lanes]
  /\ WebhookLane \in Lanes
  /\ Outcomes \subseteq {"success", "error", "waiting", "canceled"}
  /\ HasTimeout \in BOOLEAN
  /\ MaxFaults \in Nat
  /\ MaxCrashes \in Nat

VARIABLES
  phase,     \* "boot", "recover", "requeue", "up", "stopping", "draining", "down"
  boot,      \* executions the boot step has read and not handled yet
  enabled,   \* ConcurrencyControlService.isEnabled
  queues,    \* [QueueTypes -> queue of blocked calls]
  removals,  \* [QueueTypes -> Nat]: queue removals so far (history)
  active,    \* [Execs -> Calls or None]: the call behind the active entry
  workflow,  \* [Execs -> Calls or None]: the call whose run the entry cancels
  timers,    \* WaitTracker.waitingExecutions
  polled,    \* [on, found]: a poll of the wait tracker between query and timers
  db,        \* [Execs -> [status, waitTill]]
  pc,        \* [Calls -> where the call is]
  exec,      \* [Calls -> execution, None before the call]
  lane,      \* [Calls -> lane of the mode it runs in]
  slot,      \* [Calls -> lane it holds a unit of, or Unlimited]
  outcome,   \* [Calls -> what the final hook will save]
  aborted,   \* [Calls -> BOOLEAN]: its run was cancelled
  canceling, \* [Calls -> BOOLEAN]: the hook of the cancel is still to be saved
  stop,      \* [Stops -> [pc, exec]]
  faults, crashes

processVars == <<phase, boot, crashes>>
gateVars    == <<enabled, queues, removals, slot>>
activeVars  == <<active, workflow>>
waitVars    == <<timers, polled>>
callVars    == <<exec, lane, outcome, aborted, canceling>>
vars == <<processVars, gateVars, activeVars, waitVars, db, pc, callVars, stop, faults>>

Statuses == {"none", "new", "running", "waiting", "success", "error", "canceled", "crashed"}
WaitTills == {"none", "later", "due"}
CallPCs == { "idle", "fetch", "admit", "queued", "admitted", "marked", "registered",
             "launch", "running", "saving", "settle", "orphan", "denied", "done", "failed", "removed", "lost" }
Phases == {"boot", "recover", "requeue", "up", "stopping", "draining", "down"}

Alive == phase # "down"

(* Calls that have not ended: nothing has yet settled or forgotten them. *)
Live == {c \in Calls : pc[c] \notin {"idle", "done", "failed", "removed", "lost"}}

(* The workflow of the call is executing (its PCancelable is pending). *)
Executing(c) == pc[c] \in {"running", "saving", "settle"}

Holders(t) == {c \in Calls : slot[c] = t}

SetStatus(e, s) == [db EXCEPT ![e].status = s]

-----------------------------------------------------------------------------
Init ==
  /\ phase = "up" /\ boot = {} /\ crashes = 0
  /\ enabled = TRUE
  /\ queues = [t \in QueueTypes |-> NewQueue(Limit[t])]
  /\ removals = [t \in QueueTypes |-> 0]
  /\ active = [e \in Execs |-> None]
  /\ workflow = [e \in Execs |-> None]
  /\ timers = {} /\ polled = [on |-> FALSE, found |-> {}]
  /\ db = [e \in Execs |-> [status |-> "none", waitTill |-> "none"]]
  /\ pc = [c \in Calls |-> "idle"]
  /\ exec = [c \in Calls |-> None]
  /\ lane = [c \in Calls |-> Unlimited]
  /\ slot = [c \in Calls |-> Unlimited]
  /\ outcome = [c \in Calls |-> "success"]
  /\ aborted = [c \in Calls |-> FALSE]
  /\ canceling = [c \in Calls |-> FALSE]
  /\ stop = [s \in Stops |-> [pc |-> "idle", exec |-> None]]
  /\ faults = 0

-----------------------------------------------------------------------------
(* ConcurrencyControlService *)

(* `throttle`: blocks the call or lets it through with one unit. *)
Throttle(c) ==
  /\ pc[c] = "admit"
  /\ IF enabled /\ lane[c] \in QueueTypes
       THEN LET q == queues[lane[c]] IN
            /\ queues' = [queues EXCEPT ![lane[c]] = Enqueue(q, c)]
            /\ pc' = [pc EXCEPT ![c] = IF Blocks(q) THEN "queued" ELSE "admitted"]
            /\ slot' = [slot EXCEPT ![c] = IF Blocks(q) THEN @ ELSE lane[c]]
       ELSE /\ pc' = [pc EXCEPT ![c] = "admitted"]
            /\ UNCHANGED <<queues, slot>>
  /\ UNCHANGED <<processVars, enabled, removals, activeVars, waitVars, db,
                 callVars, stop, faults>>

(* `release` by the call d: the kinds that get a unit back, the queues that *)
(* remain, and the calls that the queues let go.                            *)
SlipFreedOnFinish(d) ==
  IF enabled /\ lane[d] \in QueueTypes /\ pc[d] = "settle" THEN {lane[d]} ELSE {}

Freed(d) == IF enabled /\ lane[d] \in QueueTypes THEN {lane[d]} ELSE {}

QueuesAfter(freed) ==
  [t \in QueueTypes |-> IF t \in freed THEN Dequeue(queues[t]) ELSE queues[t]]

Woken(freed) == UNION {Released(queues[t].items) : t \in freed}

Admit(woken, d) ==
  slot' = [c \in Calls |-> IF c \in woken THEN lane[c]
                           ELSE IF c = d /\ enabled THEN Unlimited ELSE slot[c]]

Advance(woken, moved, to) ==
  pc' = [c \in Calls |-> IF c \in woken THEN "admitted"
                         ELSE IF c \in moved THEN to ELSE pc[c]]

-----------------------------------------------------------------------------
(* ActiveExecutions *)

(* Settling the promise behind the entry of e: release, then forget the     *)
(* entry.  The calls in `moved` continue at `to` in the same step.          *)
SettlePromise(e, moved, to) ==
  LET d == active[e] IN
  /\ active' = [active EXCEPT ![e] = None]
  /\ workflow' = [workflow EXCEPT ![e] = None]
  /\ queues' = QueuesAfter(Freed(d))
  /\ Admit(Woken(Freed(d)), d)
  /\ Advance(Woken(Freed(d)), moved, to)

(* `add` of a new execution: its row is committed as `new`. *)
NewExecution(c, e) ==
  /\ Alive /\ pc[c] = "idle" /\ db[e].status = "none"
  /\ db' = SetStatus(e, "new")
  /\ pc' = [pc EXCEPT ![c] = "admit"]
  /\ exec' = [exec EXCEPT ![c] = e]
  /\ lane' = [lane EXCEPT ![c] = ModeLane[e]]
  /\ UNCHANGED <<processVars, gateVars, activeVars, waitVars, outcome, aborted,
                 canceling, stop, faults>>

(* run() of an execution that has a row: a resume, or a rerun at boot. *)
RunExisting(c, e, ln, start) ==
  /\ pc[c] = "idle"
  /\ pc' = [pc EXCEPT ![c] = start]
  /\ exec' = [exec EXCEPT ![c] = e]
  /\ lane' = [lane EXCEPT ![c] = ln]
  /\ UNCHANGED <<outcome, aborted, canceling>>

(* `add` after the throttle: setRunning of a new execution, or the update   *)
(* of an existing one, which also clears waitTill.                          *)
MarkRunning(c) ==
  /\ pc[c] = "admitted"
  /\ db' = [db EXCEPT ![exec[c]] = [status |-> "running", waitTill |-> "none"]]
  /\ pc' = [pc EXCEPT ![c] = "marked"]
  /\ UNCHANGED <<processVars, gateVars, activeVars, waitVars, callVars, stop, faults>>

(* A failed write rejects run(): in `add` the slot was taken and no entry   *)
(* exists to give it back, in `runMainProcess` the entry is left behind.    *)
WriteFails(c) ==
  /\ pc[c] \in {"admitted", "registered"}
  /\ faults < MaxFaults
  /\ faults' = faults + 1
  /\ pc' = [pc EXCEPT ![c] = "failed"]
  /\ UNCHANGED <<processVars, gateVars, activeVars, waitVars, db, callVars, stop>>

Register(c) ==
  /\ pc[c] = "marked"
  /\ active' = [active EXCEPT ![exec[c]] = c]
  /\ workflow' = [workflow EXCEPT ![exec[c]] = None]
  /\ pc' = [pc EXCEPT ![c] = "registered"]
  /\ UNCHANGED <<processVars, gateVars, waitVars, db, callVars, stop, faults>>

(* `stopExecution`: cancel the run attached to the entry, reject the promise. *)
StopEntry(e, moved, to) ==
  LET w == workflow[e]
      cancels == w # None /\ Executing(w) /\ ~aborted[w] IN
  /\ SettlePromise(e, moved, to)
  /\ aborted' = IF cancels THEN [aborted EXCEPT ![w] = TRUE] ELSE aborted
  /\ canceling' = IF cancels THEN [canceling EXCEPT ![w] = TRUE] ELSE canceling

-----------------------------------------------------------------------------
(* WorkflowRunner *)

(* The permission check fails: the hooks save an error, then finalize. *)
SlipDeny(c) ==
  /\ pc[c] = "registered"
  /\ db' = SetStatus(exec[c], "error")
  /\ pc' = [pc EXCEPT ![c] = "done"]
  /\ UNCHANGED <<processVars, gateVars, activeVars, waitVars, callVars, stop, faults>>

Deny(c) ==
  /\ pc[c] = "registered"
  /\ db' = SetStatus(exec[c], "error")
  /\ pc' = [pc EXCEPT ![c] = "denied"]
  /\ UNCHANGED <<processVars, gateVars, activeVars, waitVars, callVars, stop, faults>>

(* `runMainProcess` writes `running` once more before it starts the workflow. *)
BeginRun(c) ==
  /\ pc[c] = "registered"
  /\ db' = SetStatus(exec[c], "running")
  /\ pc' = [pc EXCEPT ![c] = "launch"]
  /\ UNCHANGED <<processVars, gateVars, activeVars, waitVars, callVars, stop, faults>>

(* The workflow starts, then attaches to whatever entry its execution has.  *)
(* Without an entry the attach throws and nobody listens to the run.        *)
Launch(c) ==
  /\ pc[c] = "launch"
  /\ IF active[exec[c]] = None
       THEN /\ pc' = [pc EXCEPT ![c] = "orphan"]
            /\ UNCHANGED workflow
       ELSE /\ pc' = [pc EXCEPT ![c] = "running"]
            /\ workflow' = [workflow EXCEPT ![exec[c]] = c]
  /\ UNCHANGED <<processVars, gateVars, active, waitVars, db, callVars, stop, faults>>

(* The last node returns.  A cancelled run leaves saving to the cancel hook. *)
Finish(c) ==
  /\ pc[c] = "running"
  /\ \E o \in Outcomes :
       IF aborted[c]
         THEN /\ pc' = [pc EXCEPT ![c] = "settle"]
              /\ UNCHANGED outcome
         ELSE /\ pc' = [pc EXCEPT ![c] = "saving"]
              /\ outcome' = [outcome EXCEPT ![c] = o]
  /\ UNCHANGED <<processVars, gateVars, activeVars, waitVars, db, exec, lane,
                 aborted, canceling, stop, faults>>

(* The row after `workflowExecuteAfter`: waitTill is written only by a wait. *)
SavedRow(e, o) ==
  [db EXCEPT ![e] = [status |-> o,
                     waitTill |-> IF o = "waiting" THEN "later" ELSE @.waitTill]]

Save(c) ==
  /\ pc[c] = "saving"
  /\ db' = SavedRow(exec[c], outcome[c])
  /\ pc' = [pc EXCEPT ![c] = "settle"]
  /\ UNCHANGED <<processVars, gateVars, activeVars, waitVars, callVars, stop, faults>>

SaveCancel(c) ==
  /\ Alive /\ canceling[c]
  /\ db' = SavedRow(exec[c], "canceled")
  /\ canceling' = [canceling EXCEPT ![c] = FALSE]
  /\ UNCHANGED <<processVars, gateVars, activeVars, waitVars, pc, exec, lane,
                 outcome, aborted, stop, faults>>

OrphanEnds(c) ==
  /\ pc[c] = "orphan"
  /\ \E o \in Outcomes : db' = SavedRow(exec[c], o)
  /\ pc' = [pc EXCEPT ![c] = "done"]
  /\ UNCHANGED <<processVars, gateVars, activeVars, waitVars, callVars, stop, faults>>

(* `finalizeExecution` settles the entry its execution has by now, if any. *)
Settle(c) ==
  /\ pc[c] \in {"settle", "denied"}
  /\ IF active[exec[c]] = None
       THEN /\ pc' = [pc EXCEPT ![c] = "done"]
            /\ UNCHANGED <<queues, slot, activeVars>>
       ELSE SettlePromise(exec[c], {c}, "done")
  /\ UNCHANGED <<processVars, enabled, removals, waitVars, db, callVars, stop, faults>>

(* The execution timeout fires while the run is pending. *)
TimeOut(c) ==
  /\ HasTimeout
  /\ pc[c] \in {"running", "saving", "settle"}
  /\ active[exec[c]] # None
  /\ StopEntry(exec[c], {}, "done")
  /\ UNCHANGED <<processVars, enabled, removals, waitVars, db, exec, lane,
                 outcome, stop, faults>>

-----------------------------------------------------------------------------
(* ExecutionService.stop *)

Stoppable == {"new", "waiting", "running"}

StopRequest(s, e) ==
  /\ Alive /\ stop[s].pc = "idle" /\ db[e].status \in Stoppable
  /\ stop' = [stop EXCEPT ![s] = [pc |-> "read", exec |-> e]]
  /\ UNCHANGED <<processVars, gateVars, activeVars, waitVars, db, pc, callVars, faults>>

PositionsOf(e, t) == {i \in 1 .. Len(queues[t].items) : exec[queues[t].items[i]] = e}

(* `has`: the execution is queued under any kind. *)
Enqueued(e) == enabled /\ \E t \in QueueTypes : PositionsOf(e, t) # {}

(* A queued execution: `remove` looks in the queue of the mode of the row,  *)
(* and lets the next item go for the unit it gives back.                    *)
StopQueued(s) ==
  LET e == stop[s].exec
      t == ModeLane[e] IN
  /\ stop[s].pc = "read" /\ Enqueued(e)
  /\ stop' = [stop EXCEPT ![s].pc = "before"]
  /\ IF t \in QueueTypes /\ PositionsOf(e, t) # {}
       THEN \E i \in PositionsOf(e, t) :
              LET woken == Released(Without(queues[t].items, i)) IN
              /\ \A j \in PositionsOf(e, t) : i <= j
              /\ queues' = [queues EXCEPT ![t] = Remove(@, i)]
              /\ removals' = [removals EXCEPT ![t] = @ + 1]
              /\ Admit(woken, None)
              /\ Advance(woken, {queues[t].items[i]}, "removed")
       ELSE UNCHANGED <<queues, removals, slot, pc>>
  /\ UNCHANGED <<processVars, enabled, activeVars, waitVars, db, callVars, faults>>

(* Any other execution: cancel its entry and its timer, if it has them. *)
StopActive(s) ==
  LET e == stop[s].exec IN
  /\ stop[s].pc = "read" /\ ~Enqueued(e)
  /\ stop' = [stop EXCEPT ![s].pc = "during"]
  /\ timers' = timers \ {e}
  /\ IF active[e] = None
       THEN UNCHANGED <<queues, slot, pc, activeVars, aborted, canceling>>
       ELSE StopEntry(e, {}, "done")
  /\ UNCHANGED <<processVars, enabled, removals, polled, db, exec, lane, outcome, faults>>

(* `stopBeforeRun` writes the status alone, `stopDuringRun` waitTill as well. *)
StopWrite(s) ==
  LET e == stop[s].exec IN
  /\ stop[s].pc \in {"before", "during"}
  /\ db' = IF stop[s].pc = "before" THEN SetStatus(e, "canceled")
           ELSE [db EXCEPT ![e] = [status |-> "canceled", waitTill |-> "none"]]
  /\ stop' = [stop EXCEPT ![s].pc = "done"]
  /\ UNCHANGED <<processVars, gateVars, activeVars, waitVars, pc, callVars, faults>>

-----------------------------------------------------------------------------
(* WaitTracker and WaitingWebhooks *)

(* The wait of an execution comes within the horizon of the next polls. *)
TimePasses(e) ==
  /\ db[e].waitTill = "later"
  /\ db' = [db EXCEPT ![e].waitTill = "due"]
  /\ UNCHANGED <<processVars, gateVars, activeVars, waitVars, pc, callVars, stop, faults>>

Due == {e \in Execs : db[e].waitTill = "due" /\ db[e].status # "crashed"}

(* `getWaitingExecutions`: the query, and later a timer for each row of it. *)
PollQuery ==
  /\ phase \in {"boot", "recover", "requeue", "up"}
  /\ ~polled.on /\ Due \ timers # {}
  /\ polled' = [on |-> TRUE, found |-> Due]
  /\ UNCHANGED <<processVars, gateVars, activeVars, timers, db, pc, callVars, stop, faults>>

PollApply ==
  /\ polled.on
  /\ timers' = timers \cup polled.found
  /\ polled' = [on |-> FALSE, found |-> {}]
  /\ UNCHANGED <<processVars, gateVars, activeVars, db, pc, callVars, stop, faults>>

(* `startExecution`: the timer fires and the row is fetched. *)
TimerFires(c, e) ==
  /\ e \in timers
  /\ timers' = timers \ {e}
  /\ RunExisting(c, e, ModeLane[e], "fetch")
  /\ UNCHANGED <<processVars, gateVars, activeVars, polled, db, stop, faults>>

(* Only a finished execution is refused; any other status runs again. *)
Fetch(c) ==
  /\ pc[c] = "fetch"
  /\ pc' = [pc EXCEPT ![c] = IF db[exec[c]].status = "success" THEN "done" ELSE "admit"]
  /\ UNCHANGED <<processVars, gateVars, activeVars, waitVars, db, callVars, stop, faults>>

(* A waiting webhook: rows that run, that failed or that finished are       *)
(* refused, and so are rows whose data is not at a wait.                    *)
WebhookResume(c, e) ==
  /\ Alive
  /\ db[e].waitTill # "none" /\ db[e].status \in {"waiting", "canceled", "crashed"}
  /\ RunExisting(c, e, WebhookLane, "admit")
  /\ UNCHANGED <<processVars, gateVars, activeVars, waitVars, db, stop, faults>>

-----------------------------------------------------------------------------
(* Start: crash, shutdown and boot *)

(* The process ends: everything but the database is lost. *)
Die ==
  /\ phase' = "down" /\ boot' = {} /\ enabled' = TRUE
  /\ queues' = [t \in QueueTypes |-> NewQueue(Limit[t])]
  /\ removals' = [t \in QueueTypes |-> 0]
  /\ active' = [e \in Execs |-> None]
  /\ workflow' = [e \in Execs |-> None]
  /\ timers' = {} /\ polled' = [on |-> FALSE, found |-> {}]
  /\ pc' = [c \in Calls |-> IF c \in Live \/ pc[c] = "removed" THEN "lost" ELSE pc[c]]
  /\ slot' = [c \in Calls |-> Unlimited]
  /\ canceling' = [c \in Calls |-> FALSE]
  /\ stop' = [s \in Stops |-> IF stop[s].pc = "idle" THEN stop[s]
                               ELSE [pc |-> "done", exec |-> stop[s].exec]]
  /\ UNCHANGED <<crashes, db, exec, lane, outcome, aborted, faults>>

Crash ==
  /\ Alive /\ crashes < MaxCrashes
  /\ Die

Restart ==
  /\ phase = "down"
  /\ crashes < MaxCrashes
  /\ crashes' = crashes + 1
  /\ phase' = "boot"
  /\ UNCHANGED <<boot, gateVars, activeVars, waitVars, db, pc, callVars, stop, faults>>

(* The event bus reads the rows that the last process left running. *)
RecoverRead ==
  /\ phase = "boot"
  /\ phase' = "recover"
  /\ boot' = {e \in Execs : db[e].status = "running"}
  /\ UNCHANGED <<crashes, gateVars, activeVars, waitVars, db, pc, callVars, stop, faults>>

(* `recoverFromLogs`: crashed, unless the logs hold no node of it. *)
RecoverExecution(e) ==
  /\ phase = "recover" /\ e \in boot
  /\ boot' = boot \ {e}
  /\ \/ db' = SetStatus(e, "crashed")
     \/ UNCHANGED db
  /\ UNCHANGED <<phase, crashes, gateVars, activeVars, waitVars, pc, callVars, stop, faults>>

(* `runEnqueuedExecutions` reads the rows that are still new. *)
SlipRequeueRead ==
  /\ phase = "recover" /\ boot = {}
  /\ phase' = "requeue"
  /\ UNCHANGED <<boot, crashes, gateVars, activeVars, waitVars, db, pc, callVars, stop, faults>>

RequeueRead ==
  /\ phase = "recover" /\ boot = {}
  /\ phase' = "requeue"
  /\ boot' = {e \in Execs : db[e].status = "new"}
  /\ UNCHANGED <<crashes, gateVars, activeVars, waitVars, db, pc, callVars, stop, faults>>

RequeueExecution(c, e) ==
  /\ phase = "requeue" /\ e \in boot
  /\ boot' = boot \ {e}
  /\ RunExisting(c, e, ModeLane[e], "admit")
  /\ UNCHANGED <<phase, crashes, gateVars, activeVars, waitVars, db, stop, faults>>

BootDone ==
  /\ phase = "requeue" /\ boot = {}
  /\ phase' = "up"
  /\ UNCHANGED <<boot, crashes, gateVars, activeVars, waitVars, db, pc, callVars, stop, faults>>

(* `stopProcess`: the wait tracker first, the concurrency control later. *)
BeginShutdown ==
  /\ phase = "up" /\ crashes < MaxCrashes
  /\ phase' = "stopping"
  /\ timers' = {}
  /\ UNCHANGED <<boot, crashes, gateVars, activeVars, polled, db, pc, callVars, stop, faults>>

(* `shutdown` of ActiveExecutions: no slot is released from here on. *)
SlipDrain ==
  /\ phase = "stopping"
  /\ phase' = "draining"
  /\ UNCHANGED <<boot, crashes, gateVars, activeVars, waitVars, db,
                 pc, callVars, stop, faults>>

Drain ==
  /\ phase = "stopping"
  /\ phase' = "draining"
  /\ enabled' = FALSE
  /\ UNCHANGED <<boot, crashes, queues, removals, slot, activeVars, waitVars, db,
                 pc, callVars, stop, faults>>

Exit ==
  /\ phase = "draining" /\ \A e \in Execs : active[e] = None
  /\ Die

-----------------------------------------------------------------------------
CallStep(c) ==
  \/ Throttle(c) \/ MarkRunning(c) \/ Register(c) \/ Deny(c) \/ BeginRun(c)
  \/ Launch(c) \/ Finish(c) \/ Save(c) \/ SaveCancel(c) \/ OrphanEnds(c)
  \/ Settle(c) \/ Fetch(c)

Start(c) ==
  \E e \in Execs : \/ NewExecution(c, e) \/ TimerFires(c, e)
                   \/ WebhookResume(c, e) \/ RequeueExecution(c, e)

StopStep(s) == StopQueued(s) \/ StopActive(s) \/ StopWrite(s)

BootStep ==
  \/ RecoverRead \/ RequeueRead \/ BootDone
  \/ \E e \in Execs : RecoverExecution(e)

Next ==
  \/ \E c \in Calls : CallStep(c) \/ Start(c) \/ WriteFails(c) \/ TimeOut(c)
  \/ \E s \in Stops : StopStep(s) \/ \E e \in Execs : StopRequest(s, e)
  \/ \E e \in Execs : TimePasses(e)
  \/ PollQuery \/ PollApply
  \/ BootStep \/ Crash \/ Restart \/ BeginShutdown \/ Drain \/ Exit

(* The event loop runs what is ready, the database answers, and a workflow  *)
(* run ends; users, timeouts, failures and shutdowns need not happen.       *)
Fairness ==
  /\ \A c \in Calls : WF_vars(CallStep(c))
  /\ \A s \in Stops : WF_vars(StopStep(s))
  /\ WF_vars(BootStep) /\ WF_vars(Drain) /\ WF_vars(Exit)

Spec == Init /\ [][Next]_vars /\ Fairness

-----------------------------------------------------------------------------
(* Invariants *)

TypeOK ==
  /\ phase \in Phases /\ boot \subseteq Execs
  /\ enabled \in BOOLEAN
  /\ queues \in [QueueTypes -> [capacity : Int, items : Seq(Calls)]]
  /\ removals \in [QueueTypes -> Nat]
  /\ active \in [Execs -> Calls \cup {None}]
  /\ workflow \in [Execs -> Calls \cup {None}]
  /\ timers \subseteq Execs
  /\ polled \in [on : BOOLEAN, found : SUBSET Execs]
  /\ db \in [Execs -> [status : Statuses, waitTill : WaitTills]]
  /\ pc \in [Calls -> CallPCs]
  /\ exec \in [Calls -> Execs \cup {None}]
  /\ lane \in [Calls -> Lanes]
  /\ slot \in [Calls -> Lanes]
  /\ outcome \in [Calls -> Outcomes \cup {"success"}]
  /\ aborted \in [Calls -> BOOLEAN]
  /\ canceling \in [Calls -> BOOLEAN]
  /\ stop \in [Stops -> [pc : {"idle", "read", "before", "during", "done"},
                        exec : Execs \cup {None}]]
  /\ faults \in 0 .. MaxFaults /\ crashes \in 0 .. MaxCrashes

(* The capacity a queue shows is the limit less the units out and the calls *)
(* it blocks: no path through add, stop, timeout, finalize, removal or      *)
(* double resume gives a unit back twice or takes one without a holder.     *)
SlotConservation ==
  \A t \in QueueTypes :
    queues[t].capacity + Len(queues[t].items) + Cardinality(Holders(t)) = Limit[t]

(* A call waits only while the limit is used up: the queue is not left      *)
(* waiting next to a free unit, although a unit that comes back is never    *)
(* compared with the limit.                                                 *)
NoIdleCapacity ==
  \A t \in QueueTypes :
    queues[t].items # <<>> => Cardinality(Holders(t)) >= Limit[t]

(* The limit can be exceeded, but by no more than one per queued execution  *)
(* that was stopped: only `remove` lets a call pass that no slot waits for. *)
HoldersBounded ==
  \A t \in QueueTypes : Cardinality(Holders(t)) <= Limit[t] + removals[t]

(* The documented limit (config/schema.ts): at most Limit run at once. *)
WithinLimit == \A t \in QueueTypes : Cardinality(Holders(t)) <= Limit[t]

(* Calls that ended and still hold a unit, which nothing will give back. *)
Leaked(t) == {c \in Holders(t) : c \notin Live}

AloneOn(c) == \A d \in Calls \ {c} : exec[d] # exec[c]

(* A call that ends gives its unit back, unless a database write failed or  *)
(* another call ran the same execution: then they share one entry, and one  *)
(* of the two promises is never settled.                                    *)
NoLeak ==
  enabled => \A t \in QueueTypes : \A c \in Leaked(t) :
               pc[c] = "failed" \/ ~AloneOn(c)

(* No row stays `new` with nobody to run it once the boot is over: a crash  *)
(* at any point leaves every admitted execution to be run again.            *)
NewIsOwned ==
  phase = "up" =>
    \A e \in Execs : db[e].status = "new" =>
      \/ \E c \in Calls : exec[c] = e /\ (c \in Live \/ pc[c] = "failed")
      \/ \E s \in Stops : stop[s].exec = e /\ stop[s].pc = "before"

-----------------------------------------------------------------------------
(* Action properties *)

(* Blocked calls leave in the order they came: whoever is let go had nobody *)
(* before it but calls that leave the queue in the same step.               *)
FirstInFirstOut ==
  [][Alive' => \A t \in QueueTypes : \A i, j \in 1 .. Len(queues[t].items) :
       (i < j /\ pc'[queues[t].items[j]] = "admitted")
         => pc'[queues[t].items[i]] \in {"admitted", "removed"}]_vars

(* Once the shutdown drains, no blocked call starts any more. *)
NoAdmissionInDrain ==
  [][phase = "draining" => \A c \in Calls :
       pc[c] = "queued" => pc'[c] # "admitted"]_vars

-----------------------------------------------------------------------------
(* Liveness *)

(* A blocked call gets its turn, unless leaks have eaten the whole limit. *)
QueueMoves ==
  \A c \in Calls :
    pc[c] = "queued" ~> (pc[c] # "queued" \/ Cardinality(Leaked(lane[c])) >= Limit[lane[c]])

(* A shutdown that has begun ends the process, unless an entry was left     *)
(* behind by a failed write: then it waits for that entry for ever.         *)
ShutdownEnds ==
  (phase = "stopping") ~>
    (phase = "down" \/ \E e \in Execs : active[e] # None /\ pc[active[e]] = "failed")
=============================================================================
