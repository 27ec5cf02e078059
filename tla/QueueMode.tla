------------------------------ MODULE QueueMode ------------------------------
(***************************************************************************)
(* Executions in queue mode: a main enqueues a job per execution, workers  *)
(* pick the jobs up from Bull and run them, the main awaits the end of     *)
(* each job, stops executions, and looks now and then for executions that  *)
(* are in progress in the database and absent from the queue.              *)
(*                                                                         *)
(*   row     the status of the execution in the database                   *)
(*   call    WorkflowRunner.enqueueExecution on the main, at its awaits    *)
(*   active  the entries of ActiveExecutions on the main                   *)
(*   stop    ExecutionService.stop, at its awaits                          *)
(*   cancel  ScalingService.stopJob, at its awaits                         *)
(*   job     the job in Bull, its worker and how often it stalled          *)
(*   run     JobProcessor.processJob on a worker, at its awaits            *)
(*   abort   abort-job messages on their way to a worker                   *)
(*   sweep   recoverFromQueue on the main, at its awaits                   *)
(*   up      the worker processes                                          *)
(*   log     executions with node events in the event logs of a worker     *)
(*   mend    executions a booting worker is about to mark                  *)
(*                                                                         *)
(* A job stalls only if its worker no longer runs it: a worker too busy to *)
(* renew its lock is left out.  One main runs the recovery and all calls;  *)
(* a main that crashed is back at once and knows of no call.               *)
(*                                                                         *)
(* A definition named Slip... is a plausible mistake in the definition     *)
(* after it; no specification uses it.                                     *)
(***************************************************************************)
EXTENDS Naturals, FiniteSets

CONSTANTS
  Execs, Workers,
  None,       \* no worker
  MaxStalled, \* settings.maxStalledCount of Bull
  Batch,      \* executions.queueRecovery.batchSize
  MaxDeaths,  \* bound: processes that end, main or worker
  MaxStops,   \* bound: requests to stop an execution
  MaxErrors   \* bound: calls that throw on the main or on a worker

ASSUME QueueAssumption ==
  /\ None \notin Workers /\ MaxStalled \in Nat /\ Batch \in Nat \ {0}
  /\ MaxDeaths \in Nat /\ MaxStops \in Nat /\ MaxErrors \in Nat

VARIABLES row, call, active, stop, cancel, job, run, abort, sweep, up, log,
          mend, deaths, stops, errors

mainVars   == <<call, active, stop, cancel, sweep>>
workerVars == <<run, up, log, mend>>
bounds     == <<deaths, stops, errors>>
vars == <<row, job, abort, mainVars, workerVars, bounds>>

InProgress(e) == row[e] \in {"new", "running"}
Queued(e) == job[e].at \in {"waiting", "active"}
Alive(w) == up[w] \in {"up", "draining"}

NoSweep == [at |-> "idle", ids |-> {}]

Init ==
  /\ row = [e \in Execs |-> "none"]
  /\ call = [e \in Execs |-> "idle"] /\ active = {}
  /\ stop = [e \in Execs |-> "idle"] /\ cancel = [e \in Execs |-> "idle"]
  /\ job = [e \in Execs |-> [at |-> "none", by |-> None, stalled |-> 0]]
  /\ run = [w \in Workers |-> [e \in Execs |-> "none"]]
  /\ abort = {} /\ sweep = NoSweep
  /\ up = [w \in Workers |-> "up"]
  /\ log = [w \in Workers |-> [now |-> {}, before |-> {}]]
  /\ mend = [w \in Workers |-> {}]
  /\ deaths = 0 /\ stops = 0 /\ errors = 0

SetRow(S, s) == row' = [e \in Execs |-> IF e \in S THEN s ELSE row[e]]
JobTo(e, at) == job' = [job EXCEPT ![e].at = at, ![e].by = None]
CallTo(e, at) == call' = [call EXCEPT ![e] = at]

-----------------------------------------------------------------------------
(* The main: a call of `run` and the job it waits for. *)

(* The row is created, then the entry; the permission check may follow. *)
Add(e) ==
  /\ call[e] = "idle"
  /\ SetRow({e}, "new") /\ active' = active \cup {e}
  /\ CallTo(e, "entry")
  /\ UNCHANGED <<job, abort, stop, cancel, sweep, workerVars, bounds>>

AddJob(e) ==
  /\ call[e] = "entry"
  /\ JobTo(e, "waiting") /\ CallTo(e, "enqueued")
  /\ UNCHANGED <<row, abort, active, stop, cancel, sweep, workerVars, bounds>>

(* The hooks are over: the promise is attached to the entry if that is    *)
(* still there, and awaits the end of the job in either case.             *)
Attach(e) ==
  /\ call[e] = "enqueued" /\ CallTo(e, "awaits")
  /\ UNCHANGED <<row, job, abort, active, stop, cancel, sweep, workerVars, bounds>>

(* addJob throws, or a hook after it: the job it added stays. *)
Refuse(e) ==
  /\ call[e] \in {"entry", "enqueued"} /\ errors < MaxErrors
  /\ errors' = errors + 1 /\ CallTo(e, "refused")
  /\ UNCHANGED <<row, job, abort, active, stop, cancel, sweep, workerVars, deaths, stops>>

(* job.finished() answers; a job that a stop removed never does. *)
Finished(e) ==
  /\ call[e] = "awaits"
  /\ \/ job[e].at = "completed" /\ CallTo(e, "reported") /\ active' = active \ {e}
     \/ job[e].at = "cancelled" /\ CallTo(e, "over") /\ active' = active \ {e}
     \/ job[e].at = "failed" /\ CallTo(e, "failed") /\ UNCHANGED active
  /\ UNCHANGED <<row, job, abort, stop, cancel, sweep, workerVars, bounds>>

SlipReadRow(e) ==
  /\ call[e] \in {"refused", "failed"}
  /\ IF row[e] = "success" THEN CallTo(e, "over") /\ UNCHANGED active
                           ELSE CallTo(e, "erring") /\ active' = active \ {e}
  /\ UNCHANGED <<row, job, abort, stop, cancel, sweep, workerVars, bounds>>

(* processError reads the row: a success is left alone, and so is the    *)
(* entry when the call was refused.                                      *)
ReadRow(e) ==
  /\ call[e] \in {"refused", "failed"}
  /\ IF row[e] = "success"
       THEN IF call[e] = "refused" THEN CallTo(e, "left") /\ UNCHANGED active
                                   ELSE CallTo(e, "over") /\ active' = active \ {e}
       ELSE CallTo(e, "erring") /\ active' = active \ {e}
  /\ UNCHANGED <<row, job, abort, stop, cancel, sweep, workerVars, bounds>>

WriteError(e) ==
  /\ call[e] = "erring"
  /\ SetRow({e}, "error") /\ CallTo(e, "over")
  /\ UNCHANGED <<job, abort, active, stop, cancel, sweep, workerVars, bounds>>

-----------------------------------------------------------------------------
(* The main: stopping an execution. *)

StopRequest(e) ==
  /\ stop[e] = "idle" /\ stops < MaxStops
  /\ row[e] \in {"new", "running", "waiting"}
  /\ stop' = [stop EXCEPT ![e] = "found"] /\ stops' = stops + 1
  /\ UNCHANGED <<row, job, abort, call, active, cancel, sweep, workerVars, deaths, errors>>

(* stopExecution: only an attached promise can be cancelled. *)
StopExecution(e) ==
  /\ stop[e] = "found"
  /\ stop' = [stop EXCEPT ![e] = "write"]
  /\ active' = active \ {e}
  /\ cancel' = [cancel EXCEPT ![e] = IF e \in active /\ call[e] = "awaits" THEN "asked" ELSE @]
  /\ UNCHANGED <<row, job, abort, call, sweep, workerVars, bounds>>

StopDuringRun(e) ==
  /\ stop[e] = "write"
  /\ SetRow({e}, "canceled") /\ stop' = [stop EXCEPT ![e] = "idle"]
  /\ UNCHANGED <<job, abort, call, active, cancel, sweep, workerVars, bounds>>

CancelTo(e, at) == cancel' = [cancel EXCEPT ![e] = at]

IsActive(e) ==
  /\ cancel[e] = "asked"
  /\ CancelTo(e, IF job[e].at = "active" THEN "abort" ELSE "remove")
  /\ UNCHANGED <<row, job, abort, call, active, stop, sweep, workerVars, bounds>>

AbortJob(e) ==
  /\ cancel[e] = "abort" /\ CancelTo(e, "fail")
  /\ abort' = abort \cup {<<w, e>> : w \in {v \in Workers : Alive(v)}}
  /\ UNCHANGED <<row, job, call, active, stop, sweep, workerVars, bounds>>

SlipMoveToFailed(e) ==
  /\ cancel[e] = "fail" /\ CancelTo(e, "idle")
  /\ IF Queued(e) THEN JobTo(e, "waiting") ELSE UNCHANGED job
  /\ UNCHANGED <<row, abort, call, active, stop, sweep, workerVars, bounds>>

(* The lock is ignored, the worker may go on. *)
MoveToFailed(e) ==
  /\ cancel[e] = "fail" /\ CancelTo(e, "idle")
  /\ IF Queued(e) THEN JobTo(e, "cancelled") ELSE UNCHANGED job
  /\ UNCHANGED <<row, abort, call, active, stop, sweep, workerVars, bounds>>

(* A job with a lock cannot be removed: stopJob returns false. *)
Remove(e) ==
  /\ cancel[e] = "remove" /\ CancelTo(e, "idle")
  /\ IF job[e].at = "waiting" THEN JobTo(e, "removed") ELSE UNCHANGED job
  /\ UNCHANGED <<row, abort, call, active, stop, sweep, workerVars, bounds>>

-----------------------------------------------------------------------------
(* The main: recoverFromQueue, one step per query. *)

SweepReads ==
  /\ sweep.at = "idle"
  /\ \E ids \in SUBSET {e \in Execs : InProgress(e)} :
       /\ ids # {}
       /\ \/ Cardinality(ids) = Batch
          \/ Cardinality(ids) < Batch /\ \A e \in Execs : InProgress(e) => e \in ids
       /\ sweep' = [at |-> "read", ids |-> ids]
  /\ UNCHANGED <<row, job, abort, call, active, stop, cancel, workerVars, bounds>>

(* With nothing in the queue, other executions included, nothing counts as *)
(* dangling.                                                               *)
SweepLooks ==
  /\ sweep.at = "read"
  /\ \E others \in BOOLEAN :
       LET queued == {e \in Execs : Queued(e)}
           dangling == IF queued = {} /\ ~others THEN {} ELSE sweep.ids \ queued
       IN  sweep' = IF dangling = {} THEN NoSweep ELSE [at |-> "mark", ids |-> dangling]
  /\ UNCHANGED <<row, job, abort, call, active, stop, cancel, workerVars, bounds>>

SweepMarks ==
  /\ sweep.at = "mark"
  /\ SetRow(sweep.ids, "crashed") /\ sweep' = NoSweep
  /\ UNCHANGED <<job, abort, call, active, stop, cancel, workerVars, bounds>>

(* The main ends and starts again: what it awaited is forgotten. *)
MainCrash ==
  /\ deaths < MaxDeaths /\ deaths' = deaths + 1
  /\ call' = [e \in Execs |-> IF call[e] \in {"idle", "over", "reported"} THEN call[e] ELSE "over"]
  /\ active' = {} /\ sweep' = NoSweep
  /\ stop' = [e \in Execs |-> "idle"] /\ cancel' = [e \in Execs |-> "idle"]
  /\ UNCHANGED <<row, job, abort, workerVars, stops, errors>>

-----------------------------------------------------------------------------
(* The workers: one job. *)

RunTo(w, e, at) == run' = [run EXCEPT ![w][e] = at]

PickUp(w, e) ==
  /\ Alive(w) /\ job[e].at = "waiting"
  /\ job' = [job EXCEPT ![e].at = "active", ![e].by = w]
  /\ RunTo(w, e, "picked")
  /\ UNCHANGED <<row, abort, mainVars, up, log, mend, bounds>>

FindExecution(w, e) ==
  /\ run[w][e] = "picked"
  /\ RunTo(w, e, IF row[e] = "crashed" THEN "saved" ELSE "found")
  /\ UNCHANGED <<row, job, abort, mainVars, up, log, mend, bounds>>

SetRunning(w, e) ==
  /\ run[w][e] = "found"
  /\ SetRow({e}, "running") /\ RunTo(w, e, "loading")
  /\ UNCHANGED <<job, abort, mainVars, up, log, mend, bounds>>

SlipStartRun(w, e) ==
  /\ run[w][e] = "loading" /\ RunTo(w, e, "running")
  /\ log' = [log EXCEPT ![w].now = @ \cup {e}]
  /\ IF job[e].at = "active" /\ job[e].by = w THEN JobTo(e, "completed") ELSE UNCHANGED job
  /\ UNCHANGED <<row, abort, mainVars, up, mend, bounds>>

(* The workflow is built and starts; from here on an abort finds it. *)
StartRun(w, e) ==
  /\ run[w][e] = "loading" /\ RunTo(w, e, "running")
  /\ log' = [log EXCEPT ![w].now = @ \cup {e}]
  /\ UNCHANGED <<row, job, abort, mainVars, up, mend, bounds>>

(* Something between the pick-up and the run throws: the job fails. *)
JobThrows(w, e) ==
  /\ run[w][e] \in {"picked", "found", "loading"} /\ errors < MaxErrors
  /\ errors' = errors + 1 /\ RunTo(w, e, "none")
  /\ IF job[e].at = "active" /\ job[e].by = w THEN JobTo(e, "failed") ELSE UNCHANGED job
  /\ UNCHANGED <<row, abort, mainVars, up, log, mend, deaths, stops>>

SlipSaveRun(w, e) ==
  /\ run[w][e] = "running"
  /\ \E s \in {"success", "error", "waiting"} : IF s = "waiting" THEN UNCHANGED row ELSE SetRow({e}, s)
  /\ RunTo(w, e, "saved")
  /\ UNCHANGED <<job, abort, mainVars, up, log, mend, bounds>>

(* The run ends and its hooks save what became of it. *)
SaveRun(w, e) ==
  /\ run[w][e] = "running"
  /\ \E s \in {"success", "error", "waiting"} : SetRow({e}, s)
  /\ RunTo(w, e, "saved")
  /\ UNCHANGED <<job, abort, mainVars, up, log, mend, bounds>>

AbortArrives(w, e) ==
  /\ <<w, e>> \in abort /\ abort' = abort \ {<<w, e>>}
  /\ IF run[w][e] = "running" THEN RunTo(w, e, "canceling") ELSE UNCHANGED run
  /\ UNCHANGED <<row, job, mainVars, up, log, mend, bounds>>

(* The cancelled run saves its row without anyone waiting for it. *)
SaveCanceled(w, e) ==
  /\ run[w][e] = "canceling"
  /\ SetRow({e}, "canceled") /\ RunTo(w, e, "saved")
  /\ UNCHANGED <<job, abort, mainVars, up, log, mend, bounds>>

(* Bull completes the job if the worker still holds it. *)
Complete(w, e) ==
  /\ run[w][e] = "saved" /\ RunTo(w, e, "none")
  /\ IF job[e].at = "active" /\ job[e].by = w THEN JobTo(e, "completed") ELSE UNCHANGED job
  /\ UNCHANGED <<row, abort, mainVars, up, log, mend, bounds>>

(* Bull finds an active job that no worker renews. *)
Stalls(e) ==
  /\ job[e].at = "active" /\ run[job[e].by][e] = "none"
  /\ job' = [job EXCEPT ![e] =
       IF @.stalled < MaxStalled THEN [at |-> "waiting", by |-> None, stalled |-> @.stalled + 1]
                                 ELSE [@ EXCEPT !.at = "failed", !.by = None]]
  /\ UNCHANGED <<row, abort, mainVars, workerVars, bounds>>

-----------------------------------------------------------------------------
(* The workers: their processes. *)

Ends(w) ==
  /\ up' = [up EXCEPT ![w] = "off"]
  /\ run' = [run EXCEPT ![w] = [e \in Execs |-> "none"]]
  /\ mend' = [mend EXCEPT ![w] = {}]
  /\ abort' = {a \in abort : a[1] # w}
  /\ UNCHANGED <<row, job, mainVars, log, stops, errors>>

Kill(w) ==
  /\ up[w] # "off" /\ deaths < MaxDeaths
  /\ deaths' = deaths + 1 /\ Ends(w)

(* SIGTERM: stopWorker awaits the running jobs and does not pause Bull. *)
Drain(w) ==
  /\ up[w] = "up" /\ deaths < MaxDeaths
  /\ deaths' = deaths + 1 /\ up' = [up EXCEPT ![w] = "draining"]
  /\ UNCHANGED <<row, job, abort, mainVars, run, log, mend, stops, errors>>

(* Only what is in runningJobs holds the process back. *)
Exit(w) ==
  /\ up[w] = "draining" /\ \A e \in Execs : run[w][e] # "running"
  /\ UNCHANGED deaths /\ Ends(w)

(* A worker that starts takes for unfinished whatever its last two logs   *)
(* tell of, since they hold no end of an execution.                       *)
Boot(w) ==
  LET logged == log[w].now \cup log[w].before
  IN  /\ up[w] = "off" /\ up' = [up EXCEPT ![w] = "booting"]
      /\ mend' = [mend EXCEPT ![w] = {e \in logged : row[e] \notin {"success", "error", "crashed"}}]
      /\ log' = [log EXCEPT ![w] = [now |-> {}, before |-> @.now]]
      /\ UNCHANGED <<row, job, abort, mainVars, run, bounds>>

SlipRecover(w) ==
  /\ up[w] = "booting" /\ mend[w] # {} /\ up' = [up EXCEPT ![w] = "up"]
  /\ SetRow(mend[w], "crashed") /\ mend' = [mend EXCEPT ![w] = {}]
  /\ UNCHANGED <<job, abort, mainVars, run, log, bounds>>

Recover(w) ==
  /\ up[w] = "booting" /\ up' = [up EXCEPT ![w] = "up"]
  /\ SetRow(mend[w], "crashed") /\ mend' = [mend EXCEPT ![w] = {}]
  /\ UNCHANGED <<job, abort, mainVars, run, log, bounds>>

-----------------------------------------------------------------------------
Call(e) == AddJob(e) \/ Attach(e) \/ Finished(e) \/ ReadRow(e) \/ WriteError(e)
Stop(e) == StopExecution(e) \/ StopDuringRun(e) \/ IsActive(e) \/ AbortJob(e) \/ MoveToFailed(e) \/ Remove(e)
Sweep == SweepReads \/ SweepLooks \/ SweepMarks
Work(w, e) ==
  \/ FindExecution(w, e) \/ SetRunning(w, e) \/ StartRun(w, e) \/ SaveRun(w, e)
  \/ AbortArrives(w, e) \/ SaveCanceled(w, e) \/ Complete(w, e)
Process(w) == Exit(w) \/ Boot(w) \/ Recover(w)

Next ==
  \/ \E e \in Execs : Add(e) \/ Refuse(e) \/ StopRequest(e) \/ Call(e) \/ Stop(e) \/ Stalls(e)
  \/ Sweep \/ MainCrash
  \/ \E w \in Workers : Kill(w) \/ Drain(w) \/ Process(w)
  \/ \E w \in Workers, e \in Execs : PickUp(w, e) \/ JobThrows(w, e) \/ Work(w, e)

Spec == Init /\ [][Next]_vars

(* The promises of the processes go on, timers and Bull's checks for new   *)
(* and for stalled jobs fire, and a worker that ended is started again.    *)
FairSpec ==
  /\ Spec /\ WF_vars(Sweep)
  /\ \A e \in Execs : WF_vars(Call(e)) /\ WF_vars(Stop(e)) /\ WF_vars(Stalls(e))
  /\ \A e \in Execs : WF_vars(\E w \in Workers : PickUp(w, e))
  /\ \A w \in Workers : WF_vars(Process(w)) /\ \A e \in Execs : WF_vars(Work(w, e))

-----------------------------------------------------------------------------
TypeOK ==
  /\ row \in [Execs -> {"none", "new", "running", "success", "error", "waiting", "canceled", "crashed"}]
  /\ call \in [Execs -> {"idle", "entry", "enqueued", "awaits", "refused", "failed", "erring", "left", "reported", "over"}]
  /\ active \subseteq Execs
  /\ stop \in [Execs -> {"idle", "found", "write"}]
  /\ cancel \in [Execs -> {"idle", "asked", "abort", "fail", "remove"}]
  /\ job \in [Execs -> [at : {"none", "waiting", "active", "completed", "failed", "cancelled", "removed"},
                        by : Workers \cup {None}, stalled : 0..MaxStalled]]
  /\ run \in [Workers -> [Execs -> {"none", "picked", "found", "loading", "running", "canceling", "saved"}]]
  /\ abort \subseteq Workers \X Execs
  /\ sweep \in [at : {"idle", "read", "mark"}, ids : SUBSET Execs]
  /\ up \in [Workers -> {"up", "draining", "off", "booting"}]
  /\ log \in [Workers -> [now : SUBSET Execs, before : SUBSET Execs]]
  /\ mend \in [Workers -> SUBSET Execs]
  /\ deaths \in 0..MaxDeaths /\ stops \in 0..MaxStops /\ errors \in 0..MaxErrors

(* Nobody is left who would end the execution. *)
Dangling(e) ==
  /\ InProgress(e) /\ ~Queued(e) /\ stop[e] = "idle"
  /\ call[e] \notin {"entry", "refused", "failed", "erring"}
  /\ ~(call[e] = "awaits" /\ job[e].at = "failed")
  /\ \A w \in Workers : run[w][e] \in {"none", "saved"}

(* An execution is in progress with nobody to end it only after a process  *)
(* ended or a worker failed to start it (scaling.service.ts:459).          *)
AccountedFor == deaths = 0 /\ errors = 0 => \A e \in Execs : ~Dangling(e)

(* When the main reports the end of a job, its row is no longer in         *)
(* progress: the run is saved before the job is completed                  *)
(* (job-processor.ts:236-258), and nobody sets it running after that.      *)
ReportedIsFinal == \A e \in Execs : call[e] = "reported" => ~InProgress(e)

(* An execution has one run at a time, over all workers and whatever       *)
(* stalls: a second one would repeat the side effects of its nodes.        *)
OneRun == \A e \in Execs : Cardinality({w \in Workers : run[w][e] # "none"}) <= 1

(* Without a fault no finished execution is run again (job-processor.ts:84 *)
(* sets it running whatever its status was, crashed excepted).             *)
FinishedIsNotRerun ==
  [][\A e \in Execs : row[e] \in {"success", "error", "waiting"} /\ row'[e] = "running"
       => deaths + errors > 0]_vars

(* The entry of ActiveExecutions does not outlive the job, except that a   *)
(* call whose hooks failed leaves it behind if the execution succeeded     *)
(* before processError looked (workflow-runner.ts:88-91).                  *)
EntrySettles == \A e \in Execs : e \in active ~> e \notin active \/ call[e] = "left"

(* Whoever dies, an execution in progress ends, unless it is in nobody's   *)
(* hands any more: then it waits for the recovery.                         *)
ExecutionEnds == \A e \in Execs : InProgress(e) ~> ~InProgress(e) \/ Dangling(e)
=============================================================================
