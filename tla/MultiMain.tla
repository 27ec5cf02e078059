------------------------------ MODULE MultiMain ------------------------------
(***************************************************************************)
(* The services that only the leader runs, started and stopped by the      *)
(* events `leader-takeover` and `leader-stepdown` of the election.         *)
(*                                                                         *)
(*   stage             how far a main has come with its services           *)
(*   tracking, found   WaitTracker: mainTimer, a poll under way            *)
(*   timers, stale     WaitTracker.waitingExecutions, by the state of the  *)
(*                     timer of the entry: set, or cleared by a stepdown   *)
(*   row               the rows of the waiting executions                  *)
(*                                                                         *)
(* of every main and, of the main Me,                                      *)
(*                                                                         *)
(*   sweep             ScalingService.queueRecoveryContext                 *)
(*   pruning           PruningService: its schedules run                   *)
(*   removals, adds    handlers of the two events in start.ts under way    *)
(*   starting, entry,  ActiveWorkflows: triggers that start, the workflow's *)
(*   live, closing     trigger in memory, those that run, those that close *)
(*                                                                         *)
(* The latter do nothing to other mains, and workflows nothing to each     *)
(* other: one main and one workflow stand for any.  The role changes       *)
(* first, then the listeners are called one by one; what they do before    *)
(* they wait is part of the step of the election.                          *)
(***************************************************************************)
EXTENDS LeaderElection, Sequences, FiniteSets, SequencesExt

CONSTANTS
  Waits, \* executions that wait
  Me     \* a main

ASSUME MeAssumption == Me \in Mains

VARIABLES stage, tracking, found, timers, stale, row, sweep, pruning,
          removals, adds, starting, entry, live, closing

trackerVars == <<tracking, found, timers, stale, row>>
triggerVars == <<starting, entry, live, closing>>
ownVars     == <<sweep, pruning, removals, adds, triggerVars>>
serviceVars == <<stage, trackerVars, ownVars>>
vars == <<electionVars, serviceVars>>

(* The timer that the context holds, and the recoveries besides: those under *)
(* way, and those whose timer the context no longer holds.                  *)
NoSweep == [armed |-> FALSE, others |-> 0]
NoTrigger == 0

ServicesInit ==
  /\ stage = [m \in Mains |-> "boot"]
  /\ tracking = [m \in Mains |-> FALSE]
  /\ found = [m \in Mains |-> {}]
  /\ timers = [m \in Mains |-> {}]
  /\ stale = [m \in Mains |-> {}]
  /\ row = [x \in Waits |-> "waiting"]
  /\ sweep = NoSweep /\ pruning = FALSE
  /\ removals = 0 /\ adds = 0
  /\ starting = 0 /\ entry = NoTrigger /\ live = {} /\ closing = <<>>

-----------------------------------------------------------------------------
(* The listeners: the one of start.ts listens as soon as the election is    *)
(* initialised, the one of the wait tracker next, the others last.          *)

(* `scheduleQueueRecovery` forgets the timer that may still be set. *)
Scheduled(s) == [armed |-> TRUE, others |-> IF s.armed THEN s.others + 1 ELSE s.others]

StopTracking(m) ==
  /\ tracking' = [tracking EXCEPT ![m] = FALSE]
  /\ stale' = [stale EXCEPT ![m] = @ \cup timers[m]]
  /\ timers' = [timers EXCEPT ![m] = {}]
  /\ UNCHANGED <<found, row>>

(* `leader-stepdown`: stopPruning returns, for the main is no leader by now. *)
SlipOnStepdown(m) ==
  /\ UNCHANGED <<stage, trackerVars, pruning, adds, triggerVars>>
  /\ sweep' = [sweep EXCEPT !.armed = @ /\ m # Me]
  /\ removals' = IF m = Me THEN removals + 1 ELSE removals

OnStepdown(m) ==
  /\ IF stage[m] = "boot" THEN UNCHANGED trackerVars ELSE StopTracking(m)
  /\ sweep' = [sweep EXCEPT !.armed = @ /\ m # Me]
  /\ removals' = IF m = Me THEN removals + 1 ELSE removals
  /\ UNCHANGED <<stage, pruning, adds, triggerVars>>

(* `leader-takeover`; during `init` nobody listens yet. *)
SlipOnTakeover(m) ==
  LET mine == m = Me /\ stage[m] = "ready" IN
  /\ tracking' = [tracking EXCEPT ![m] = stage[m] # "boot"]
  /\ pruning' = (pruning \/ (mine /\ up[m] = "up"))
  /\ adds' = IF m = Me /\ up[m] # "init" THEN adds + 1 ELSE adds
  /\ UNCHANGED <<stage, found, timers, stale, row, sweep, removals, triggerVars>>

OnTakeover(m) ==
  LET mine == m = Me /\ stage[m] = "ready" IN
  /\ tracking' = [tracking EXCEPT ![m] = stage[m] # "boot"]
  /\ sweep' = IF mine THEN Scheduled(sweep) ELSE sweep
  /\ pruning' = (pruning \/ (mine /\ up[m] = "up"))
  /\ adds' = IF m = Me /\ up[m] # "init" THEN adds + 1 ELSE adds
  /\ UNCHANGED <<stage, found, timers, stale, row, removals, triggerVars>>

StepsDown(m) == key.holder = None \/ (key.holder # m /\ IsLeader(m))

(* A check of the election with the events that it emits. *)
CheckLeader(m) ==
  \/ (KeyIsMine(m) \/ Renew(m) \/ Claim(m) \/ ClaimFails(m)) /\ UNCHANGED serviceVars
  \/ /\ KeyIsTaken(m) \/ KeyIsVacant(m)
     /\ IF StepsDown(m) THEN OnStepdown(m) ELSE UNCHANGED serviceVars
  \/ TakeOver(m) /\ OnTakeover(m)

(* `WaitTracker.init` *)
SlipInitWaitTracker(m) ==
  /\ up[m] = "up" /\ stage[m] = "boot"
  /\ stage' = [stage EXCEPT ![m] = "tracker"]
  /\ UNCHANGED <<electionVars, tracking, found, timers, stale, row, ownVars>>

InitWaitTracker(m) ==
  /\ up[m] = "up" /\ stage[m] = "boot"
  /\ stage' = [stage EXCEPT ![m] = "tracker"]
  /\ tracking' = [tracking EXCEPT ![m] = IsLeader(m)]
  /\ UNCHANGED <<electionVars, found, timers, stale, row, ownVars>>

(* `setupQueue`, `PruningService.init` and `ActiveWorkflowManager.init`,    *)
(* which adds the active workflows once more.                               *)
InitServices ==
  /\ up[Me] = "up" /\ stage[Me] = "tracker"
  /\ stage' = [stage EXCEPT ![Me] = "ready"]
  /\ sweep' = IF IsLeader(Me) THEN Scheduled(sweep) ELSE sweep
  /\ pruning' = IsLeader(Me)
  /\ adds' = adds + 1
  /\ UNCHANGED <<electionVars, trackerVars, removals, triggerVars>>

-----------------------------------------------------------------------------
(* The process ends: what it kept in memory is gone. *)
Reset(m) ==
  /\ stage' = [stage EXCEPT ![m] = "boot"]
  /\ tracking' = [tracking EXCEPT ![m] = FALSE]
  /\ found' = [found EXCEPT ![m] = {}]
  /\ timers' = [timers EXCEPT ![m] = {}]
  /\ stale' = [stale EXCEPT ![m] = {}]
  /\ IF m = Me
       THEN /\ sweep' = NoSweep /\ pruning' = FALSE
            /\ removals' = 0 /\ adds' = 0
            /\ starting' = 0 /\ entry' = NoTrigger /\ live' = {} /\ closing' = <<>>
       ELSE UNCHANGED ownVars
  /\ UNCHANGED row

(* A shutdown stops the services before it deletes the key. *)
ShutdownServices(m) ==
  /\ StopTracking(m)
  /\ IF m = Me
       THEN /\ sweep' = [sweep EXCEPT !.armed = FALSE]
            /\ pruning' = (pruning /\ ~IsLeader(m))
            /\ entry' = NoTrigger
            /\ live' = live \ {entry}
            /\ UNCHANGED <<removals, adds, starting, closing>>
       ELSE UNCHANGED ownVars
  /\ UNCHANGED stage

-----------------------------------------------------------------------------
(* WaitTracker *)

(* `getWaitingExecutions`: the query, and a timer for each row without an   *)
(* entry.                                                                   *)
PollQuery(m) ==
  /\ tracking[m] /\ found[m] = {}
  /\ \E x \in Waits : row[x] = "waiting"
  /\ found' = [found EXCEPT ![m] = {x \in Waits : row[x] = "waiting"}]
  /\ UNCHANGED <<electionVars, stage, tracking, timers, stale, row, ownVars>>

PollApply(m) ==
  /\ found[m] # {}
  /\ timers' = [timers EXCEPT ![m] = @ \cup (found[m] \ stale[m])]
  /\ found' = [found EXCEPT ![m] = {}]
  /\ UNCHANGED <<electionVars, stage, tracking, stale, row, ownVars>>

(* `startExecution` *)
StartExecution(m, x) ==
  /\ x \in timers[m]
  /\ timers' = [timers EXCEPT ![m] = @ \ {x}]
  /\ row' = [row EXCEPT ![x] = "resumed"]
  /\ UNCHANGED <<electionVars, stage, tracking, found, stale, ownVars>>

(* ScalingService: the timer of the recovery fires, and `recoverFromQueue`  *)
(* ends, after which the next one is scheduled, whoever leads by now.       *)
SweepBegins ==
  /\ sweep.armed
  /\ sweep' = [armed |-> FALSE, others |-> sweep.others + 1]
  /\ UNCHANGED <<electionVars, stage, trackerVars, pruning, removals, adds, triggerVars>>

SweepEnds ==
  /\ sweep.others > 0 /\ ~sweep.armed
  /\ sweep' = [armed |-> TRUE, others |-> sweep.others - 1]
  /\ UNCHANGED <<electionVars, stage, trackerVars, pruning, removals, adds, triggerVars>>

-----------------------------------------------------------------------------
(* ActiveWorkflowManager and ActiveWorkflows.  The handlers wait for the    *)
(* licence to be read again, so those of two events may overtake each other. *)

(* `removeAllTriggerAndPollerBasedWorkflows`, up to the close of the trigger *)
RemoveBegins ==
  /\ removals > 0
  /\ removals' = removals - 1
  /\ closing' = IF entry = NoTrigger THEN closing ELSE Append(closing, entry)
  /\ UNCHANGED <<electionVars, stage, trackerVars, sweep, pruning, adds, starting, entry, live>>

(* The trigger is closed, and the workflow leaves the memory, with whatever *)
(* trigger it has by now.                                                   *)
SlipRemoveEnds ==
  \E i \in 1 .. Len(closing) :
    /\ live' = live \ {closing[i]}
    /\ closing' = RemoveAt(closing, i)
    /\ UNCHANGED <<electionVars, stage, trackerVars, sweep, pruning, removals, adds, starting, entry>>

RemoveEnds ==
  \E i \in 1 .. Len(closing) :
    /\ live' = live \ {closing[i]}
    /\ entry' = NoTrigger
    /\ closing' = RemoveAt(closing, i)
    /\ UNCHANGED <<electionVars, stage, trackerVars, sweep, pruning, removals, adds, starting>>

(* `addActiveWorkflows`: only a leader adds triggers. *)
AddBegins ==
  /\ adds > 0
  /\ adds' = adds - 1
  /\ starting' = IF IsLeader(Me) THEN starting + 1 ELSE starting
  /\ UNCHANGED <<electionVars, stage, trackerVars, sweep, pruning, removals, entry, live, closing>>

(* The trigger runs, and replaces the one that the workflow may have. *)
Used == live \cup ToSet(closing)
Fresh == CHOOSE i \in 1 .. Cardinality(Used) + 1 : i \notin Used

AddEnds ==
  /\ starting > 0
  /\ starting' = starting - 1
  /\ live' = live \cup {Fresh}
  /\ entry' = Fresh
  /\ UNCHANGED <<electionVars, stage, trackerVars, sweep, pruning, removals, adds, closing>>

-----------------------------------------------------------------------------
Tracker(m) == PollQuery(m) \/ PollApply(m) \/ \E x \in Waits : StartExecution(m, x)
Own == InitServices \/ SweepBegins \/ SweepEnds
         \/ RemoveBegins \/ RemoveEnds \/ AddBegins \/ AddEnds

MultiMainNext ==
  \/ Expire /\ UNCHANGED serviceVars
  \/ \E m \in Mains :
       \/ Boot(m) /\ UNCHANGED serviceVars
       \/ (Crash(m) \/ Leave(m)) /\ Reset(m)
       \/ Shutdown(m) /\ ShutdownServices(m)
       \/ CheckLeader(m) \/ InitWaitTracker(m) \/ Tracker(m)
  \/ Own

MultiMainInit == Init /\ ServicesInit

MultiMainSpec == MultiMainInit /\ [][MultiMainNext]_vars

(* As for the election; a main comes up with its services, polls recur,     *)
(* queries are answered and timers fire.  User code behind a trigger may    *)
(* take forever to start or to stop.                                        *)
MultiMainFairness ==
  /\ WF_vars(ExpireUnrenewed /\ UNCHANGED serviceVars)
  /\ \A m \in Mains :
       /\ WF_vars(Boot(m) /\ UNCHANGED serviceVars) /\ WF_vars(CheckLeader(m))
       /\ WF_vars(Leave(m) /\ Reset(m)) /\ WF_vars(InitWaitTracker(m))
       /\ WF_vars(PollQuery(m)) /\ WF_vars(PollApply(m))
       /\ \A x \in Waits : WF_vars(StartExecution(m, x))

FairMultiMainSpec == MultiMainSpec /\ MultiMainFairness

-----------------------------------------------------------------------------
(* Every variable has its type. *)
MultiMainTypeOK ==
  /\ ElectionTypeOK
  /\ stage \in [Mains -> {"boot", "tracker", "ready"}]
  /\ tracking \in [Mains -> BOOLEAN]
  /\ found \in [Mains -> SUBSET Waits]
  /\ timers \in [Mains -> SUBSET Waits]
  /\ stale \in [Mains -> SUBSET Waits]
  /\ row \in [Waits -> {"waiting", "resumed"}]
  /\ sweep \in [armed : BOOLEAN, others : Nat]
  /\ pruning \in BOOLEAN
  /\ removals \in Nat /\ adds \in Nat /\ starting \in Nat
  /\ entry \in Nat
  /\ live \subseteq Nat \ {NoTrigger}
  /\ closing \in Seq(Nat \ {NoTrigger})

(* A main polls for waits while it leads, and only then, however takeover   *)
(* and stepdown fall between the steps of its start.                        *)
TrackingFollowsRole ==
  \A m \in Mains : up[m] = "up" /\ stage[m] # "boot" /\ check[m] # "won" =>
    (tracking[m] <=> IsLeader(m))

(* The leader recovers executions and prunes them, also after it lost and   *)
(* regained the role while a recovery was under way.                        *)
LeaderServes ==
  up[Me] = "up" /\ stage[Me] = "ready" /\ IsLeader(Me) /\ check[Me] # "won" =>
    pruning /\ (sweep.armed \/ sweep.others > 0)

(* A workflow that is active in memory has its trigger running: no removal  *)
(* that was overtaken leaves an entry behind that stands for nothing.       *)
ActiveHasTrigger == entry # NoTrigger => entry \in live

Frozen == key.holder = Gone /\ ~key.ttl

(* An execution that waits is resumed in the end, whichever mains crash or  *)
(* lose the lead, unless the main that leads keeps an entry for it whose    *)
(* timer an earlier stepdown cleared, or the leader key is frozen.          *)
WaitsResume ==
  \A x \in Waits : row[x] = "waiting" ~>
    \/ row[x] = "resumed" \/ Frozen
    \/ \E m \in Mains : up[m] = "up" /\ IsLeader(m) /\ x \in stale[m]
=============================================================================
