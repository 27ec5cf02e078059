--------------------------- MODULE QueueModeProofs ---------------------------
(***************************************************************************)
(* For any number of executions, workers and processes that end, and any   *)
(* number of times a job may stall: an execution has one run at a time,    *)
(* and one that the main reported to have ended is never in progress.      *)
(***************************************************************************)
EXTENDS QueueMode, FiniteSetTheorems, TLAPS

(* A job is added once.  Only the worker that holds it runs it, or one that *)
(* held it when it was cancelled.                                          *)
HandInv ==
  \A e \in Execs :
    /\ call[e] \in {"idle", "entry"} => job[e].at = "none"
    /\ \A w \in Workers : run[w][e] # "none" =>
         job[e].at = "cancelled" \/ (job[e].at = "active" /\ job[e].by = w)
    /\ \A v, w \in Workers : run[v][e] # "none" /\ run[w][e] # "none" => v = w

(* The row is final from the moment the run is saved. *)
RowInv ==
  \A e \in Execs :
    /\ \A w \in Workers : run[w][e] = "saved" => ~InProgress(e)
    /\ job[e].at = "completed" => ~InProgress(e)
    /\ call[e] = "reported" => job[e].at = "completed"

(* Until a process ends or a call throws, somebody is there to end what is *)
(* in progress, and what is to be run has not been run.                    *)
Faultless == deaths = 0 /\ errors = 0

Unstarted(e) == row[e] \in {"none", "new", "canceled", "crashed"}

Runs(e) == \E w \in Workers : run[w][e] \notin {"none", "saved"}

FaultlessCalls ==
  \A e \in Execs :
    /\ job[e].at # "failed" /\ call[e] \notin {"refused", "failed", "erring"}
    /\ job[e].at = "active" => \E w \in Workers : job[e].by = w /\ run[w][e] # "none"

FaultlessRows ==
  \A e \in Execs :
    /\ job[e].at \in {"none", "waiting"} => Unstarted(e)
    /\ \A w \in Workers : run[w][e] \in {"picked", "found"} => Unstarted(e)
    /\ cancel[e] # "idle" => call[e] # "idle" /\ (stop[e] = "write" \/ row[e] # "new")
    /\ InProgress(e) => call[e] = "entry" \/ Queued(e) \/ stop[e] = "write" \/ Runs(e)

FaultlessInv ==
  Faultless => (\A w \in Workers : up[w] = "up") /\ FaultlessCalls /\ FaultlessRows

QueueInv == TypeOK /\ HandInv /\ RowInv /\ FaultlessInv

(* The sets of TypeOK that the proofs name. *)
JobStates == {"none", "waiting", "active", "completed", "failed", "cancelled", "removed"}
JobRecords == [at : JobStates, by : Workers \cup {None}, stalled : 0..MaxStalled]
Jobs == [Execs -> [at : {"none", "waiting", "active", "completed", "failed", "cancelled", "removed"},
                   by : Workers \cup {None}, stalled : 0..MaxStalled]]
RunStates == {"none", "picked", "found", "loading", "running", "canceling", "saved"}
CallStates ==
  {"idle", "entry", "enqueued", "awaits", "refused", "failed", "erring", "left", "reported", "over"}

LEMMA JobType ==
  ASSUME TypeOK, NEW e \in Execs, NEW at \in JobStates, NEW by \in Workers \cup {None},
         job' = [job EXCEPT ![e].at = at, ![e].by = by]
  PROVE  job' \in Jobs
<1>1. job \in Jobs
  BY DEF TypeOK, Jobs
<1>2. [job[e] EXCEPT !.at = at, !.by = by] \in JobRecords
  BY <1>1 DEF Jobs, JobRecords, JobStates
<1>3. job' = [job EXCEPT ![e] = [job[e] EXCEPT !.at = at, !.by = by]]
  BY <1>1 DEF Jobs
<1>4. QED  BY <1>1, <1>2, <1>3 DEF Jobs, JobRecords, JobStates

LEMMA JobToType ==
  ASSUME TypeOK, NEW e \in Execs, NEW at \in JobStates, JobTo(e, at)
  PROVE  /\ job' \in Jobs /\ job'[e].at = at
         /\ \A f \in Execs \ {e} : job'[f] = job[f]
<1>1. job' \in Jobs
  BY JobType DEF JobTo
<1>2. job \in Jobs
  BY DEF TypeOK, Jobs
<1>3. QED  BY <1>1, <1>2 DEF JobTo, Jobs

-----------------------------------------------------------------------------
LEMMA TypeStep == TypeOK /\ [Next]_vars => TypeOK'
<1> SUFFICES ASSUME TypeOK, [Next]_vars PROVE TypeOK'
  OBVIOUS
<1> USE QueueAssumption DEF TypeOK
<1>1. ASSUME NEW e \in Execs, Add(e) PROVE TypeOK'
  BY <1>1 DEF Add, SetRow, CallTo, workerVars, bounds
<1>2. ASSUME NEW e \in Execs, Refuse(e) PROVE TypeOK'
  BY <1>2 DEF Refuse, CallTo, workerVars
<1>3. ASSUME NEW e \in Execs, StopRequest(e) PROVE TypeOK'
  BY <1>3 DEF StopRequest, workerVars
<1>4. ASSUME NEW e \in Execs, AddJob(e) PROVE TypeOK'
  <2>1. job' \in Jobs
    BY <1>4, JobToType DEF AddJob, JobStates
  <2>2. QED  BY <1>4, <2>1 DEF Jobs, AddJob, CallTo, workerVars, bounds
<1>5. ASSUME NEW e \in Execs, Attach(e) PROVE TypeOK'
  BY <1>5 DEF Attach, CallTo, workerVars, bounds
<1>6. ASSUME NEW e \in Execs, Finished(e) PROVE TypeOK'
  <2>1. active' \in SUBSET Execs
    BY <1>6 DEF Finished
  <2>2. \E at \in CallStates : CallTo(e, at)
    BY <1>6 DEF Finished, CallStates
  <2>3. call' \in [Execs -> CallStates]
    BY <2>2 DEF CallTo, CallStates
  <2>4. QED  BY <1>6, <2>1, <2>3 DEF CallStates, Finished, workerVars, bounds
<1>7. ASSUME NEW e \in Execs, ReadRow(e) PROVE TypeOK'
  BY <1>7 DEF ReadRow, CallTo, workerVars, bounds
<1>8. ASSUME NEW e \in Execs, WriteError(e) PROVE TypeOK'
  BY <1>8 DEF WriteError, SetRow, CallTo, workerVars, bounds
<1>9. ASSUME NEW e \in Execs, StopExecution(e) PROVE TypeOK'
  BY <1>9 DEF StopExecution, workerVars, bounds
<1>10. ASSUME NEW e \in Execs, StopDuringRun(e) PROVE TypeOK'
  BY <1>10 DEF StopDuringRun, SetRow, workerVars, bounds
<1>11. ASSUME NEW e \in Execs, IsActive(e) PROVE TypeOK'
  BY <1>11 DEF IsActive, CancelTo, workerVars, bounds
<1>12. ASSUME NEW e \in Execs, AbortJob(e) PROVE TypeOK'
  BY <1>12 DEF AbortJob, CancelTo, Alive, workerVars, bounds
<1>13. ASSUME NEW e \in Execs, MoveToFailed(e) PROVE TypeOK'
  <2>1. CASE Queued(e)
    <3>1. job' \in Jobs
      BY <1>13, <2>1, JobToType DEF MoveToFailed, JobStates
    <3>2. QED  BY <1>13, <2>1, <3>1 DEF Jobs, MoveToFailed, CancelTo, Queued, workerVars, bounds
  <2>2. CASE ~(Queued(e))
    BY <1>13, <2>2 DEF MoveToFailed, JobTo, CancelTo, Queued, workerVars, bounds
  <2>3. QED  BY <2>1, <2>2
<1>14. ASSUME NEW e \in Execs, Remove(e) PROVE TypeOK'
  <2>1. CASE job[e].at = "waiting"
    <3>1. job' \in Jobs
      BY <1>14, <2>1, JobToType DEF Remove, JobStates
    <3>2. QED  BY <1>14, <2>1, <3>1 DEF Jobs, Remove, CancelTo, workerVars, bounds
  <2>2. CASE ~(job[e].at = "waiting")
    BY <1>14, <2>2 DEF Remove, JobTo, CancelTo, workerVars, bounds
  <2>3. QED  BY <2>1, <2>2
<1>15. ASSUME NEW e \in Execs, Stalls(e) PROVE TypeOK'
  <2>1. PICK record \in JobRecords : job' = [job EXCEPT ![e] = record]
    <3>1. CASE job[e].stalled < MaxStalled
      <4>1. job[e].stalled + 1 \in 0..MaxStalled
        BY <3>1
      <4>2. [at |-> "waiting", by |-> None, stalled |-> job[e].stalled + 1] \in JobRecords
        BY <4>1 DEF JobRecords, JobStates
      <4>3. job' = [job EXCEPT ![e] = [at |-> "waiting", by |-> None, stalled |-> job[e].stalled + 1]]
        BY <1>15, <3>1 DEF Stalls
      <4>4. QED  BY <4>2, <4>3
    <3>2. CASE ~(job[e].stalled < MaxStalled)
      <4>1. [job[e] EXCEPT !.at = "failed", !.by = None] \in JobRecords
        <5>1. job[e] \in JobRecords
          BY DEF JobRecords, JobStates
        <5>2. QED  BY <5>1 DEF JobRecords, JobStates
      <4>2. job' = [job EXCEPT ![e] = [job[e] EXCEPT !.at = "failed", !.by = None]]
        BY <1>15, <3>2 DEF Stalls
      <4>3. QED  BY <4>1, <4>2
    <3>3. QED  BY <3>1, <3>2
  <2>2. job' \in Jobs
    BY <2>1 DEF Jobs, JobRecords, JobStates
  <2>3. QED  BY <1>15, <2>2 DEF Jobs, Stalls, mainVars, workerVars, bounds
<1>16. CASE SweepReads
  BY <1>16 DEF SweepReads, InProgress, workerVars, bounds
<1>17. CASE SweepLooks
  BY <1>17 DEF SweepLooks, NoSweep, Queued, workerVars, bounds
<1>18. CASE SweepMarks
  BY <1>18 DEF SweepMarks, SetRow, NoSweep, workerVars, bounds
<1>19. CASE MainCrash
  BY <1>19 DEF MainCrash, NoSweep, workerVars
<1>20. ASSUME NEW w \in Workers, Kill(w) PROVE TypeOK'
  BY <1>20 DEF Kill, Ends, mainVars
<1>21. ASSUME NEW w \in Workers, Drain(w) PROVE TypeOK'
  BY <1>21 DEF Drain, mainVars
<1>22. ASSUME NEW w \in Workers, Exit(w) PROVE TypeOK'
  BY <1>22 DEF Exit, Ends, mainVars
<1>23. ASSUME NEW w \in Workers, Boot(w) PROVE TypeOK'
  BY <1>23 DEF Boot, mainVars, bounds
<1>24. ASSUME NEW w \in Workers, Recover(w) PROVE TypeOK'
  BY <1>24 DEF Recover, SetRow, mainVars, bounds
<1>25. ASSUME NEW w \in Workers, NEW e \in Execs, PickUp(w, e) PROVE TypeOK'
  <2>1. job' \in Jobs
    BY <1>25, JobType DEF PickUp, JobStates
  <2>2. run' \in [Workers -> [Execs -> RunStates]]
    BY <1>25 DEF PickUp, RunTo, RunStates
  <2>3. QED  BY <1>25, <2>1, <2>2 DEF Jobs, RunStates, PickUp, mainVars, bounds
<1>26. ASSUME NEW w \in Workers, NEW e \in Execs, JobThrows(w, e) PROVE TypeOK'
  <2>1. CASE job[e].at = "active" /\ job[e].by = w
    <3>1. job' \in Jobs
      BY <1>26, <2>1, JobToType DEF JobThrows, JobStates
    <3>2. QED  BY <1>26, <2>1, <3>1 DEF Jobs, JobThrows, RunTo, mainVars
  <2>2. CASE ~(job[e].at = "active" /\ job[e].by = w)
    BY <1>26, <2>2 DEF JobThrows, JobTo, RunTo, mainVars
  <2>3. QED  BY <2>1, <2>2
<1>27. ASSUME NEW w \in Workers, NEW e \in Execs, FindExecution(w, e) PROVE TypeOK'
  BY <1>27 DEF FindExecution, RunTo, mainVars, bounds
<1>28. ASSUME NEW w \in Workers, NEW e \in Execs, SetRunning(w, e) PROVE TypeOK'
  BY <1>28 DEF SetRunning, SetRow, RunTo, mainVars, bounds
<1>29. ASSUME NEW w \in Workers, NEW e \in Execs, StartRun(w, e) PROVE TypeOK'
  BY <1>29 DEF StartRun, RunTo, mainVars, bounds
<1>30. ASSUME NEW w \in Workers, NEW e \in Execs, SaveRun(w, e) PROVE TypeOK'
  BY <1>30 DEF SaveRun, SetRow, RunTo, mainVars, bounds
<1>31. ASSUME NEW w \in Workers, NEW e \in Execs, AbortArrives(w, e) PROVE TypeOK'
  <2>1. CASE run[w][e] = "running"
    <3>1. run' = [run EXCEPT ![w][e] = "canceling"]
      BY <1>31, <2>1 DEF AbortArrives, RunTo
    <3>2. run' \in [Workers -> [Execs -> RunStates]]
      BY <3>1 DEF RunStates
    <3>3. abort' \in SUBSET (Workers \X Execs)
      BY <1>31 DEF AbortArrives
    <3>4. QED  BY <1>31, <3>2, <3>3 DEF AbortArrives, RunStates, mainVars, bounds
  <2>2. CASE ~(run[w][e] = "running")
    BY <1>31, <2>2 DEF AbortArrives, RunTo, mainVars, bounds
  <2>3. QED  BY <2>1, <2>2
<1>32. ASSUME NEW w \in Workers, NEW e \in Execs, SaveCanceled(w, e) PROVE TypeOK'
  BY <1>32 DEF SaveCanceled, SetRow, RunTo, mainVars, bounds
<1>33. ASSUME NEW w \in Workers, NEW e \in Execs, Complete(w, e) PROVE TypeOK'
  <2>1. CASE job[e].at = "active" /\ job[e].by = w
    <3>1. job' \in Jobs
      BY <1>33, <2>1, JobToType DEF Complete, JobStates
    <3>2. QED  BY <1>33, <2>1, <3>1 DEF Jobs, Complete, RunTo, mainVars, bounds
  <2>2. CASE ~(job[e].at = "active" /\ job[e].by = w)
    BY <1>33, <2>2 DEF Complete, JobTo, RunTo, mainVars, bounds
  <2>3. QED  BY <2>1, <2>2
<1>34. CASE UNCHANGED vars
  BY <1>34 DEF vars, mainVars, workerVars, bounds
<1>35. QED
  BY <1>1, <1>2, <1>3, <1>4, <1>5, <1>6, <1>7, <1>8, <1>9, <1>10, <1>11, <1>12, <1>13,
     <1>14, <1>15, <1>16, <1>17, <1>18, <1>19, <1>20, <1>21, <1>22, <1>23, <1>24, <1>25,
     <1>26, <1>27, <1>28, <1>29, <1>30, <1>31, <1>32, <1>33, <1>34
  DEF Next, Call, Stop, Sweep, Process, Work

LEMMA HandStep == TypeOK /\ HandInv /\ [Next]_vars => HandInv'
<1> SUFFICES ASSUME TypeOK, HandInv, [Next]_vars PROVE HandInv'
  OBVIOUS
<1> USE QueueAssumption DEF TypeOK, HandInv
<1>1. ASSUME NEW e \in Execs, Add(e) PROVE HandInv'
  BY <1>1 DEF Add, SetRow, CallTo, workerVars, bounds
<1>2. ASSUME NEW e \in Execs, Refuse(e) PROVE HandInv'
  BY <1>2 DEF Refuse, CallTo, workerVars
<1>3. ASSUME NEW e \in Execs, StopRequest(e) PROVE HandInv'
  BY <1>3 DEF StopRequest, workerVars
<1>4. ASSUME NEW e \in Execs, AddJob(e) PROVE HandInv'
  BY <1>4 DEF AddJob, JobTo, CallTo, workerVars, bounds
<1>5. ASSUME NEW e \in Execs, Attach(e) PROVE HandInv'
  BY <1>5 DEF Attach, CallTo, workerVars, bounds
<1>6. ASSUME NEW e \in Execs, Finished(e) PROVE HandInv'
  BY <1>6 DEF Finished, CallTo, workerVars, bounds
<1>7. ASSUME NEW e \in Execs, ReadRow(e) PROVE HandInv'
  BY <1>7 DEF ReadRow, CallTo, workerVars, bounds
<1>8. ASSUME NEW e \in Execs, WriteError(e) PROVE HandInv'
  BY <1>8 DEF WriteError, SetRow, CallTo, workerVars, bounds
<1>9. ASSUME NEW e \in Execs, StopExecution(e) PROVE HandInv'
  BY <1>9 DEF StopExecution, workerVars, bounds
<1>10. ASSUME NEW e \in Execs, StopDuringRun(e) PROVE HandInv'
  BY <1>10 DEF StopDuringRun, SetRow, workerVars, bounds
<1>11. ASSUME NEW e \in Execs, IsActive(e) PROVE HandInv'
  BY <1>11 DEF IsActive, CancelTo, workerVars, bounds
<1>12. ASSUME NEW e \in Execs, AbortJob(e) PROVE HandInv'
  BY <1>12 DEF AbortJob, CancelTo, Alive, workerVars, bounds
<1>13. ASSUME NEW e \in Execs, MoveToFailed(e) PROVE HandInv'
  <2>1. CASE Queued(e)
    <3>1. /\ job'[e].at = "cancelled"
          /\ \A f \in Execs \ {e} : job'[f] = job[f]
      BY <1>13, <2>1, JobToType DEF MoveToFailed, JobStates
    <3>2. UNCHANGED <<row, call, run>>
      BY <1>13 DEF MoveToFailed, workerVars
    <3>3. \A f \in Execs \ {e} : HandInv!(f)'
      BY <3>1, <3>2
    <3>4. HandInv!(e)'
      BY <2>1, <3>1, <3>2 DEF Queued
    <3>5. QED  BY <3>3, <3>4
  <2>2. CASE ~(Queued(e))
    BY <1>13, <2>2 DEF MoveToFailed, JobTo, CancelTo, Queued, workerVars, bounds
  <2>3. QED  BY <2>1, <2>2
<1>14. ASSUME NEW e \in Execs, Remove(e) PROVE HandInv'
  <2>1. CASE job[e].at = "waiting"
    <3>1. /\ job'[e].at = "removed"
          /\ \A f \in Execs \ {e} : job'[f] = job[f]
      BY <1>14, <2>1, JobToType DEF Remove, JobStates
    <3>2. UNCHANGED <<row, call, run>>
      BY <1>14 DEF Remove, workerVars
    <3>3. \A f \in Execs \ {e} : HandInv!(f)'
      BY <3>1, <3>2
    <3>4. HandInv!(e)'
      BY <2>1, <3>1, <3>2 DEF Queued
    <3>5. QED  BY <3>3, <3>4
  <2>2. CASE ~(job[e].at = "waiting")
    BY <1>14, <2>2 DEF Remove, JobTo, CancelTo, workerVars, bounds
  <2>3. QED  BY <2>1, <2>2
<1>15. ASSUME NEW e \in Execs, Stalls(e) PROVE HandInv'
  BY <1>15 DEF Stalls, mainVars, workerVars, bounds
<1>16. CASE SweepReads
  BY <1>16 DEF SweepReads, InProgress, workerVars, bounds
<1>17. CASE SweepLooks
  BY <1>17 DEF SweepLooks, NoSweep, Queued, workerVars, bounds
<1>18. CASE SweepMarks
  BY <1>18 DEF SweepMarks, SetRow, NoSweep, workerVars, bounds
<1>19. CASE MainCrash
  BY <1>19 DEF MainCrash, NoSweep, workerVars
<1>20. ASSUME NEW w \in Workers, Kill(w) PROVE HandInv'
  BY <1>20 DEF Kill, Ends, mainVars
<1>21. ASSUME NEW w \in Workers, Drain(w) PROVE HandInv'
  BY <1>21 DEF Drain, mainVars
<1>22. ASSUME NEW w \in Workers, Exit(w) PROVE HandInv'
  BY <1>22 DEF Exit, Ends, mainVars
<1>23. ASSUME NEW w \in Workers, Boot(w) PROVE HandInv'
  BY <1>23 DEF Boot, mainVars, bounds
<1>24. ASSUME NEW w \in Workers, Recover(w) PROVE HandInv'
  BY <1>24 DEF Recover, SetRow, mainVars, bounds
<1>25. ASSUME NEW w \in Workers, NEW e \in Execs, PickUp(w, e) PROVE HandInv'
  BY <1>25 DEF PickUp, RunTo, Alive, mainVars, bounds
<1>26. ASSUME NEW w \in Workers, NEW e \in Execs, JobThrows(w, e) PROVE HandInv'
  BY <1>26 DEF JobThrows, JobTo, RunTo, mainVars
<1>27. ASSUME NEW w \in Workers, NEW e \in Execs, FindExecution(w, e) PROVE HandInv'
  BY <1>27 DEF FindExecution, RunTo, mainVars, bounds
<1>28. ASSUME NEW w \in Workers, NEW e \in Execs, SetRunning(w, e) PROVE HandInv'
  BY <1>28 DEF SetRunning, SetRow, RunTo, mainVars, bounds
<1>29. ASSUME NEW w \in Workers, NEW e \in Execs, StartRun(w, e) PROVE HandInv'
  BY <1>29 DEF StartRun, RunTo, mainVars, bounds
<1>30. ASSUME NEW w \in Workers, NEW e \in Execs, SaveRun(w, e) PROVE HandInv'
  BY <1>30 DEF SaveRun, SetRow, RunTo, mainVars, bounds
<1>31. ASSUME NEW w \in Workers, NEW e \in Execs, AbortArrives(w, e) PROVE HandInv'
  <2>1. CASE run[w][e] = "running"
    <3>1. run' = [run EXCEPT ![w][e] = "canceling"]
      BY <1>31, <2>1 DEF AbortArrives, RunTo
    <3>2. UNCHANGED <<row, call, job>>
      BY <1>31 DEF AbortArrives, mainVars
    <3>3. QED  BY <2>1, <3>1, <3>2
  <2>2. CASE ~(run[w][e] = "running")
    BY <1>31, <2>2 DEF AbortArrives, RunTo, mainVars, bounds
  <2>3. QED  BY <2>1, <2>2
<1>32. ASSUME NEW w \in Workers, NEW e \in Execs, SaveCanceled(w, e) PROVE HandInv'
  BY <1>32 DEF SaveCanceled, SetRow, RunTo, mainVars, bounds
<1>33. ASSUME NEW w \in Workers, NEW e \in Execs, Complete(w, e) PROVE HandInv'
  BY <1>33 DEF Complete, JobTo, RunTo, mainVars, bounds
<1>34. CASE UNCHANGED vars
  BY <1>34 DEF vars, mainVars, workerVars, bounds
<1>35. QED
  BY <1>1, <1>2, <1>3, <1>4, <1>5, <1>6, <1>7, <1>8, <1>9, <1>10, <1>11, <1>12, <1>13,
     <1>14, <1>15, <1>16, <1>17, <1>18, <1>19, <1>20, <1>21, <1>22, <1>23, <1>24, <1>25,
     <1>26, <1>27, <1>28, <1>29, <1>30, <1>31, <1>32, <1>33, <1>34
  DEF Next, Call, Stop, Sweep, Process, Work

LEMMA RowStep == TypeOK /\ HandInv /\ RowInv /\ [Next]_vars => RowInv'
<1> SUFFICES ASSUME TypeOK, HandInv, RowInv, [Next]_vars PROVE RowInv'
  OBVIOUS
<1> USE QueueAssumption DEF TypeOK, HandInv, RowInv, InProgress
<1>1. ASSUME NEW e \in Execs, Add(e) PROVE RowInv'
  <2>1. job[e].at = "none" /\ \A w \in Workers : run[w][e] = "none"
    BY <1>1 DEF Add
  <2>2. \A f \in Execs \ {e} : row'[f] = row[f] /\ call'[f] = call[f]
    BY <1>1 DEF Add, SetRow, CallTo
  <2>3. call'[e] = "entry" /\ job' = job /\ run' = run
    BY <1>1 DEF Add, CallTo, workerVars
  <2>4. QED  BY <2>1, <2>2, <2>3
<1>2. ASSUME NEW e \in Execs, Refuse(e) PROVE RowInv'
  BY <1>2 DEF Refuse, CallTo, workerVars
<1>3. ASSUME NEW e \in Execs, StopRequest(e) PROVE RowInv'
  BY <1>3 DEF StopRequest, workerVars
<1>4. ASSUME NEW e \in Execs, AddJob(e) PROVE RowInv'
  BY <1>4 DEF AddJob, JobTo, CallTo, workerVars, bounds
<1>5. ASSUME NEW e \in Execs, Attach(e) PROVE RowInv'
  BY <1>5 DEF Attach, CallTo, workerVars, bounds
<1>6. ASSUME NEW e \in Execs, Finished(e) PROVE RowInv'
  BY <1>6 DEF Finished, CallTo, workerVars, bounds
<1>7. ASSUME NEW e \in Execs, ReadRow(e) PROVE RowInv'
  BY <1>7 DEF ReadRow, CallTo, workerVars, bounds
<1>8. ASSUME NEW e \in Execs, WriteError(e) PROVE RowInv'
  BY <1>8 DEF WriteError, SetRow, CallTo, workerVars, bounds
<1>9. ASSUME NEW e \in Execs, StopExecution(e) PROVE RowInv'
  BY <1>9 DEF StopExecution, workerVars, bounds
<1>10. ASSUME NEW e \in Execs, StopDuringRun(e) PROVE RowInv'
  BY <1>10 DEF StopDuringRun, SetRow, workerVars, bounds
<1>11. ASSUME NEW e \in Execs, IsActive(e) PROVE RowInv'
  BY <1>11 DEF IsActive, CancelTo, workerVars, bounds
<1>12. ASSUME NEW e \in Execs, AbortJob(e) PROVE RowInv'
  BY <1>12 DEF AbortJob, CancelTo, Alive, workerVars, bounds
<1>13. ASSUME NEW e \in Execs, MoveToFailed(e) PROVE RowInv'
  <2>1. CASE Queued(e)
    <3>1. /\ job'[e].at = "cancelled"
          /\ \A f \in Execs \ {e} : job'[f] = job[f]
      BY <1>13, <2>1, JobToType DEF MoveToFailed, JobStates
    <3>2. UNCHANGED <<row, call, run>>
      BY <1>13 DEF MoveToFailed, workerVars
    <3>3. \A f \in Execs \ {e} : RowInv!(f)'
      BY <3>1, <3>2
    <3>4. RowInv!(e)'
      BY <2>1, <3>1, <3>2 DEF Queued
    <3>5. QED  BY <3>3, <3>4
  <2>2. CASE ~(Queued(e))
    BY <1>13, <2>2 DEF MoveToFailed, JobTo, CancelTo, Queued, workerVars, bounds
  <2>3. QED  BY <2>1, <2>2
<1>14. ASSUME NEW e \in Execs, Remove(e) PROVE RowInv'
  <2>1. CASE job[e].at = "waiting"
    <3>1. /\ job'[e].at = "removed"
          /\ \A f \in Execs \ {e} : job'[f] = job[f]
      BY <1>14, <2>1, JobToType DEF Remove, JobStates
    <3>2. UNCHANGED <<row, call, run>>
      BY <1>14 DEF Remove, workerVars
    <3>3. \A f \in Execs \ {e} : RowInv!(f)'
      BY <3>1, <3>2
    <3>4. RowInv!(e)'
      BY <2>1, <3>1, <3>2 DEF Queued
    <3>5. QED  BY <3>3, <3>4
  <2>2. CASE ~(job[e].at = "waiting")
    BY <1>14, <2>2 DEF Remove, JobTo, CancelTo, workerVars, bounds
  <2>3. QED  BY <2>1, <2>2
<1>15. ASSUME NEW e \in Execs, Stalls(e) PROVE RowInv'
  BY <1>15 DEF Stalls, mainVars, workerVars, bounds
<1>16. CASE SweepReads
  BY <1>16 DEF SweepReads, workerVars, bounds
<1>17. CASE SweepLooks
  BY <1>17 DEF SweepLooks, NoSweep, Queued, workerVars, bounds
<1>18. CASE SweepMarks
  BY <1>18 DEF SweepMarks, SetRow, NoSweep, workerVars, bounds
<1>19. CASE MainCrash
  BY <1>19 DEF MainCrash, NoSweep, workerVars
<1>20. ASSUME NEW w \in Workers, Kill(w) PROVE RowInv'
  BY <1>20 DEF Kill, Ends, mainVars
<1>21. ASSUME NEW w \in Workers, Drain(w) PROVE RowInv'
  BY <1>21 DEF Drain, mainVars
<1>22. ASSUME NEW w \in Workers, Exit(w) PROVE RowInv'
  BY <1>22 DEF Exit, Ends, mainVars
<1>23. ASSUME NEW w \in Workers, Boot(w) PROVE RowInv'
  BY <1>23 DEF Boot, mainVars, bounds
<1>24. ASSUME NEW w \in Workers, Recover(w) PROVE RowInv'
  BY <1>24 DEF Recover, SetRow, mainVars, bounds
<1>25. ASSUME NEW w \in Workers, NEW e \in Execs, PickUp(w, e) PROVE RowInv'
  BY <1>25 DEF PickUp, RunTo, Alive, mainVars, bounds
<1>26. ASSUME NEW w \in Workers, NEW e \in Execs, JobThrows(w, e) PROVE RowInv'
  BY <1>26 DEF JobThrows, JobTo, RunTo, mainVars
<1>27. ASSUME NEW w \in Workers, NEW e \in Execs, FindExecution(w, e) PROVE RowInv'
  BY <1>27 DEF FindExecution, RunTo, mainVars, bounds
<1>28. ASSUME NEW w \in Workers, NEW e \in Execs, SetRunning(w, e) PROVE RowInv'
  BY <1>28 DEF SetRunning, SetRow, RunTo, mainVars, bounds
<1>29. ASSUME NEW w \in Workers, NEW e \in Execs, StartRun(w, e) PROVE RowInv'
  BY <1>29 DEF StartRun, RunTo, mainVars, bounds
<1>30. ASSUME NEW w \in Workers, NEW e \in Execs, SaveRun(w, e) PROVE RowInv'
  BY <1>30 DEF SaveRun, SetRow, RunTo, mainVars, bounds
<1>31. ASSUME NEW w \in Workers, NEW e \in Execs, AbortArrives(w, e) PROVE RowInv'
  <2>1. CASE run[w][e] = "running"
    <3>1. run' = [run EXCEPT ![w][e] = "canceling"]
      BY <1>31, <2>1 DEF AbortArrives, RunTo
    <3>2. UNCHANGED <<row, call, job>>
      BY <1>31 DEF AbortArrives, mainVars
    <3>3. QED  BY <2>1, <3>1, <3>2
  <2>2. CASE ~(run[w][e] = "running")
    BY <1>31, <2>2 DEF AbortArrives, RunTo, mainVars, bounds
  <2>3. QED  BY <2>1, <2>2
<1>32. ASSUME NEW w \in Workers, NEW e \in Execs, SaveCanceled(w, e) PROVE RowInv'
  BY <1>32 DEF SaveCanceled, SetRow, RunTo, mainVars, bounds
<1>33. ASSUME NEW w \in Workers, NEW e \in Execs, Complete(w, e) PROVE RowInv'
  BY <1>33 DEF Complete, JobTo, RunTo, mainVars, bounds
<1>34. CASE UNCHANGED vars
  BY <1>34 DEF vars, mainVars, workerVars, bounds
<1>35. QED
  BY <1>1, <1>2, <1>3, <1>4, <1>5, <1>6, <1>7, <1>8, <1>9, <1>10, <1>11, <1>12, <1>13,
     <1>14, <1>15, <1>16, <1>17, <1>18, <1>19, <1>20, <1>21, <1>22, <1>23, <1>24, <1>25,
     <1>26, <1>27, <1>28, <1>29, <1>30, <1>31, <1>32, <1>33, <1>34
  DEF Next, Call, Stop, Sweep, Process, Work

LEMMA FaultlessStep == TypeOK /\ HandInv /\ RowInv /\ FaultlessInv /\ [Next]_vars => FaultlessInv'
<1> SUFFICES ASSUME TypeOK, HandInv, RowInv, FaultlessInv, [Next]_vars PROVE FaultlessInv'
  OBVIOUS
<1> USE QueueAssumption DEF TypeOK, HandInv, RowInv, FaultlessInv, FaultlessCalls, FaultlessRows, Faultless, InProgress, Queued, Runs, Unstarted
<1>1. ASSUME NEW e \in Execs, Add(e) PROVE FaultlessInv'
  BY <1>1 DEF Add, SetRow, CallTo, workerVars, bounds
<1>2. ASSUME NEW e \in Execs, Refuse(e) PROVE FaultlessInv'
  BY <1>2 DEF Refuse, CallTo, workerVars
<1>3. ASSUME NEW e \in Execs, StopRequest(e) PROVE FaultlessInv'
  BY <1>3 DEF StopRequest, workerVars
<1>4. ASSUME NEW e \in Execs, AddJob(e) PROVE FaultlessInv'
  BY <1>4 DEF AddJob, JobTo, CallTo, workerVars, bounds
<1>5. ASSUME NEW e \in Execs, Attach(e) PROVE FaultlessInv'
  BY <1>5 DEF Attach, CallTo, workerVars, bounds
<1>6. ASSUME NEW e \in Execs, Finished(e) PROVE FaultlessInv'
  BY <1>6 DEF Finished, CallTo, workerVars, bounds
<1>7. ASSUME NEW e \in Execs, ReadRow(e) PROVE FaultlessInv'
  BY <1>7 DEF ReadRow, CallTo, workerVars, bounds
<1>8. ASSUME NEW e \in Execs, WriteError(e) PROVE FaultlessInv'
  BY <1>8 DEF WriteError, SetRow, CallTo, workerVars, bounds
<1>9. ASSUME NEW e \in Execs, StopExecution(e) PROVE FaultlessInv'
  BY <1>9 DEF StopExecution, workerVars, bounds
<1>10. ASSUME NEW e \in Execs, StopDuringRun(e) PROVE FaultlessInv'
  BY <1>10 DEF StopDuringRun, SetRow, workerVars, bounds
<1>11. ASSUME NEW e \in Execs, IsActive(e) PROVE FaultlessInv'
  BY <1>11 DEF IsActive, CancelTo, workerVars, bounds
<1>12. ASSUME NEW e \in Execs, AbortJob(e) PROVE FaultlessInv'
  BY <1>12 DEF AbortJob, CancelTo, Alive, workerVars, bounds
<1>13. ASSUME NEW e \in Execs, MoveToFailed(e) PROVE FaultlessInv'
  <2>1. CASE Queued(e)
    <3>1. /\ job'[e].at = "cancelled" /\ cancel[e] = "fail" /\ cancel'[e] = "idle"
          /\ \A f \in Execs \ {e} : job'[f] = job[f] /\ cancel'[f] = cancel[f]
      BY <1>13, <2>1, JobToType DEF MoveToFailed, CancelTo, JobStates
    <3>2. UNCHANGED <<row, call, run, stop, up, deaths, errors>>
      BY <1>13 DEF MoveToFailed, workerVars, bounds
    <3>3. \A f \in Execs \ {e} : FaultlessCalls!(f) => FaultlessCalls!(f)'
      BY <3>1, <3>2
    <3>4. \A f \in Execs \ {e} : FaultlessRows!(f) => FaultlessRows!(f)'
      BY <3>1, <3>2
    <3>5. Faultless => FaultlessCalls!(e)' /\ FaultlessRows!(e)'
      BY <2>1, <3>1, <3>2
    <3>6. QED  BY <3>2, <3>3, <3>4, <3>5
  <2>2. CASE ~(Queued(e))
    BY <1>13, <2>2 DEF MoveToFailed, JobTo, CancelTo, workerVars, bounds
  <2>3. QED  BY <2>1, <2>2
<1>14. ASSUME NEW e \in Execs, Remove(e) PROVE FaultlessInv'
  <2>1. CASE job[e].at = "waiting"
    <3>1. /\ job'[e].at = "removed" /\ cancel[e] = "remove" /\ cancel'[e] = "idle"
          /\ \A f \in Execs \ {e} : job'[f] = job[f] /\ cancel'[f] = cancel[f]
      BY <1>14, <2>1, JobToType DEF Remove, CancelTo, JobStates
    <3>2. UNCHANGED <<row, call, run, stop, up, deaths, errors>>
      BY <1>14 DEF Remove, workerVars, bounds
    <3>3. \A f \in Execs \ {e} : FaultlessCalls!(f) => FaultlessCalls!(f)'
      BY <3>1, <3>2
    <3>4. \A f \in Execs \ {e} : FaultlessRows!(f) => FaultlessRows!(f)'
      BY <3>1, <3>2
    <3>5. Faultless => FaultlessCalls!(e)' /\ FaultlessRows!(e)'
      BY <2>1, <3>1, <3>2
    <3>6. QED  BY <3>2, <3>3, <3>4, <3>5
  <2>2. CASE ~(job[e].at = "waiting")
    BY <1>14, <2>2 DEF Remove, JobTo, CancelTo, workerVars, bounds
  <2>3. QED  BY <2>1, <2>2
<1>15. ASSUME NEW e \in Execs, Stalls(e) PROVE FaultlessInv'
  BY <1>15 DEF Stalls, mainVars, workerVars, bounds
<1>16. CASE SweepReads
  BY <1>16 DEF SweepReads, workerVars, bounds
<1>17. CASE SweepLooks
  BY <1>17 DEF SweepLooks, NoSweep, workerVars, bounds
<1>18. CASE SweepMarks
  BY <1>18 DEF SweepMarks, SetRow, NoSweep, workerVars, bounds
<1>19. CASE MainCrash
  BY <1>19 DEF MainCrash, NoSweep, workerVars
<1>20. ASSUME NEW w \in Workers, Kill(w) PROVE FaultlessInv'
  BY <1>20 DEF Kill, Ends, mainVars
<1>21. ASSUME NEW w \in Workers, Drain(w) PROVE FaultlessInv'
  BY <1>21 DEF Drain, mainVars
<1>22. ASSUME NEW w \in Workers, Exit(w) PROVE FaultlessInv'
  BY <1>22 DEF Exit, Ends, mainVars
<1>23. ASSUME NEW w \in Workers, Boot(w) PROVE FaultlessInv'
  BY <1>23 DEF Boot, mainVars, bounds
<1>24. ASSUME NEW w \in Workers, Recover(w) PROVE FaultlessInv'
  BY <1>24 DEF Recover, SetRow, mainVars, bounds
<1>25. ASSUME NEW w \in Workers, NEW e \in Execs, PickUp(w, e) PROVE FaultlessInv'
  BY <1>25 DEF PickUp, RunTo, Alive, mainVars, bounds
<1>26. ASSUME NEW w \in Workers, NEW e \in Execs, JobThrows(w, e) PROVE FaultlessInv'
  BY <1>26 DEF JobThrows, JobTo, RunTo, mainVars
<1>27. ASSUME NEW w \in Workers, NEW e \in Execs, FindExecution(w, e) PROVE FaultlessInv'
  BY <1>27 DEF FindExecution, RunTo, mainVars, bounds
<1>28. ASSUME NEW w \in Workers, NEW e \in Execs, SetRunning(w, e) PROVE FaultlessInv'
  BY <1>28 DEF SetRunning, SetRow, RunTo, mainVars, bounds
<1>29. ASSUME NEW w \in Workers, NEW e \in Execs, StartRun(w, e) PROVE FaultlessInv'
  BY <1>29 DEF StartRun, RunTo, mainVars, bounds
<1>30. ASSUME NEW w \in Workers, NEW e \in Execs, SaveRun(w, e) PROVE FaultlessInv'
  BY <1>30 DEF SaveRun, SetRow, RunTo, mainVars, bounds
<1>31. ASSUME NEW w \in Workers, NEW e \in Execs, AbortArrives(w, e) PROVE FaultlessInv'
  <2>1. CASE run[w][e] = "running"
    <3>1. /\ run'[w][e] = "canceling"
          /\ \A v \in Workers \ {w} : run'[v][e] = run[v][e]
      BY <1>31, <2>1 DEF AbortArrives, RunTo
    <3>2. ASSUME NEW f \in Execs \ {e}, NEW v \in Workers PROVE run'[v][f] = run[v][f]
      BY <1>31, <2>1 DEF AbortArrives, RunTo
    <3>3. UNCHANGED <<row, call, job, stop, cancel, up, deaths, errors>>
      BY <1>31 DEF AbortArrives, mainVars, bounds
    <3>4. \A f \in Execs \ {e} : FaultlessCalls!(f) => FaultlessCalls!(f)'
      BY <3>2, <3>3
    <3>5. ASSUME NEW f \in Execs \ {e} PROVE FaultlessRows!(f) => FaultlessRows!(f)'
      <4>1. \A v \in Workers : run'[v][f] = run[v][f]
        BY <3>2
      <4>2. Runs(f) => Runs(f)'
        BY <4>1
      <4> HIDE DEF Runs
      <4>3. QED  BY <3>3, <4>1, <4>2
    <3>6. FaultlessCalls!(e) => FaultlessCalls!(e)'
      BY <2>1, <3>1, <3>3
    <3>7. FaultlessRows!(e) => FaultlessRows!(e)'
      <4>1. Runs(e)'
        BY <3>1
      <4>2. \A v \in Workers : run'[v][e] \in {"picked", "found"} => run[v][e] \in {"picked", "found"}
        BY <3>1
      <4> HIDE DEF Runs
      <4>3. QED  BY <3>3, <4>1, <4>2
    <3>8. FaultlessCalls => FaultlessCalls'
      BY <3>4, <3>6
    <3>9. FaultlessRows => FaultlessRows'
      BY <3>5, <3>7
    <3> HIDE DEF FaultlessCalls, FaultlessRows
    <3>10. QED  BY <3>3, <3>8, <3>9
  <2>2. CASE ~(run[w][e] = "running")
    BY <1>31, <2>2 DEF AbortArrives, RunTo, mainVars, bounds
  <2>3. QED  BY <2>1, <2>2
<1>32. ASSUME NEW w \in Workers, NEW e \in Execs, SaveCanceled(w, e) PROVE FaultlessInv'
  BY <1>32 DEF SaveCanceled, SetRow, RunTo, mainVars, bounds
<1>33. ASSUME NEW w \in Workers, NEW e \in Execs, Complete(w, e) PROVE FaultlessInv'
  BY <1>33 DEF Complete, JobTo, RunTo, mainVars, bounds
<1>34. CASE UNCHANGED vars
  BY <1>34 DEF vars, mainVars, workerVars, bounds
<1>35. QED
  BY <1>1, <1>2, <1>3, <1>4, <1>5, <1>6, <1>7, <1>8, <1>9, <1>10, <1>11, <1>12, <1>13,
     <1>14, <1>15, <1>16, <1>17, <1>18, <1>19, <1>20, <1>21, <1>22, <1>23, <1>24, <1>25,
     <1>26, <1>27, <1>28, <1>29, <1>30, <1>31, <1>32, <1>33, <1>34
  DEF Next, Call, Stop, Sweep, Process, Work

LEMMA QueueInit == Init => QueueInv
<1> SUFFICES ASSUME Init PROVE QueueInv
  OBVIOUS
<1> USE QueueAssumption DEF Init
<1>1. TypeOK
  BY DEF TypeOK, NoSweep
<1>2. HandInv
  BY DEF HandInv
<1>3. RowInv
  BY DEF RowInv, InProgress
<1>4. FaultlessInv
  BY DEF FaultlessInv, FaultlessCalls, FaultlessRows, Unstarted, InProgress
<1>5. QED  BY <1>1, <1>2, <1>3, <1>4 DEF QueueInv

LEMMA AtMostOne ==
  ASSUME NEW S, \A v, w \in S : v = w
  PROVE  Cardinality(S) <= 1
<1>1. CASE S = {}
  BY <1>1, FS_EmptySet
<1>2. ASSUME NEW w \in S PROVE Cardinality(S) <= 1
  <2>1. \A v \in S : v = w
    OBVIOUS
  <2>2. S = {w}
    BY <2>1, Zenon
  <2>3. Cardinality({w}) = 1
    BY FS_Singleton
  <2>4. QED  BY <2>2, <2>3
<1>3. QED  BY <1>1, <1>2

(* The invariant of queue mode. *)
THEOREM QueueInvariant == Spec => []QueueInv
<1>1. QueueInv /\ [Next]_vars => QueueInv'
  BY TypeStep, HandStep, RowStep, FaultlessStep DEF QueueInv
<1>2. QED  BY QueueInit, <1>1, PTL DEF Spec

(* Every variable has its type. *)
THEOREM QueueTypeCorrect == Spec => []TypeOK
<1>1. QueueInv => TypeOK  BY DEF QueueInv
<1>2. QED  BY <1>1, QueueInvariant, PTL

(* An execution has one run at a time over all workers, whatever stalls,   *)
(* dies or is cancelled (queue.process, job-processor.ts).                 *)
THEOREM RunsAreSingle == Spec => []OneRun
<1>1. HandInv => OneRun
  BY AtMostOne DEF HandInv, OneRun
<1>2. QueueInv => OneRun  BY <1>1 DEF QueueInv
<1>3. QED  BY <1>2, QueueInvariant, PTL

(* When the main reports the end of a job the row is no longer in progress, *)
(* and it stays so (scaling.service.ts, workflow-runner.ts).               *)
THEOREM ReportsAreFinal == Spec => []ReportedIsFinal
<1>1. QueueInv => ReportedIsFinal
  BY DEF QueueInv, RowInv, ReportedIsFinal
<1>2. QED  BY <1>1, QueueInvariant, PTL

(* Until a process ends or a call throws, an execution in progress is in   *)
(* somebody's hands, wherever stops, aborts and the recovery fall          *)
(* (stopJob, recoverFromQueue).                                            *)
THEOREM ExecutionsAreAccountedFor == Spec => []AccountedFor
<1>1. QueueInv => AccountedFor
  BY DEF QueueInv, FaultlessInv, FaultlessRows, FaultlessCalls, Faultless, Runs, AccountedFor, Dangling
<1>2. QED  BY <1>1, QueueInvariant, PTL

LEMMA OnlySetRunning ==
  ASSUME TypeOK, Next, NEW e \in Execs, row[e] # "running", row'[e] = "running"
  PROVE  \E w \in Workers : run[w][e] = "found"
<1> USE DEF TypeOK
<1>1. row' # row
  OBVIOUS
<1>2. ASSUME NEW f \in Execs, Add(f) \/ WriteError(f) \/ StopDuringRun(f) PROVE FALSE
  BY <1>2 DEF Add, WriteError, StopDuringRun, SetRow
<1>3. ASSUME NEW w \in Workers, NEW f \in Execs, SaveRun(w, f) \/ SaveCanceled(w, f) PROVE FALSE
  BY <1>3 DEF SaveRun, SaveCanceled, SetRow
<1>4. ASSUME NEW w \in Workers, Recover(w) PROVE FALSE
  BY <1>4 DEF Recover, SetRow
<1>5. ~SweepMarks
  BY DEF SweepMarks, SetRow
<1>6. ASSUME NEW w \in Workers, NEW f \in Execs, SetRunning(w, f)
      PROVE  \E v \in Workers : run[v][e] = "found"
  BY <1>6 DEF SetRunning, SetRow
<1>7. ASSUME NEW f \in Execs,
             \/ Refuse(f) \/ StopRequest(f) \/ AddJob(f) \/ Attach(f) \/ Finished(f) \/ ReadRow(f)
             \/ StopExecution(f) \/ IsActive(f) \/ AbortJob(f) \/ MoveToFailed(f) \/ Remove(f) \/ Stalls(f)
      PROVE  FALSE
  BY <1>1, <1>7
  DEF Refuse, StopRequest, AddJob, Attach, Finished, ReadRow, StopExecution, IsActive, AbortJob,
      MoveToFailed, Remove, Stalls
<1>8. ~(SweepReads \/ SweepLooks \/ MainCrash)
  BY <1>1 DEF SweepReads, SweepLooks, MainCrash
<1>9. ASSUME NEW w \in Workers, Kill(w) \/ Drain(w) \/ Exit(w) \/ Boot(w) PROVE FALSE
  BY <1>1, <1>9 DEF Kill, Drain, Exit, Boot, Ends
<1>10. ASSUME NEW w \in Workers, NEW f \in Execs,
              \/ PickUp(w, f) \/ JobThrows(w, f) \/ FindExecution(w, f) \/ StartRun(w, f)
              \/ AbortArrives(w, f) \/ Complete(w, f)
       PROVE  FALSE
  BY <1>1, <1>10 DEF PickUp, JobThrows, FindExecution, StartRun, AbortArrives, Complete
<1>11. QED
  BY <1>2, <1>3, <1>4, <1>5, <1>6, <1>7, <1>8, <1>9, <1>10 DEF Next, Call, Stop, Sweep, Process, Work

(* Without a fault no finished execution is run again (job-processor.ts).  *)
THEOREM FinishedStaysFinished == Spec => FinishedIsNotRerun
<1>1. QueueInv /\ [Next]_vars =>
        [\A e \in Execs : row[e] \in {"success", "error", "waiting"} /\ row'[e] = "running"
           => deaths + errors > 0]_vars
  <2> SUFFICES ASSUME QueueInv, Next, NEW e \in Execs,
                      row[e] \in {"success", "error", "waiting"}, row'[e] = "running"
               PROVE  deaths + errors > 0
    OBVIOUS
  <2>1. PICK w \in Workers : run[w][e] = "found"
    BY OnlySetRunning DEF QueueInv
  <2>2. ~Faultless
    BY <2>1 DEF QueueInv, FaultlessInv, FaultlessRows, Unstarted
  <2>3. deaths \in Nat /\ errors \in Nat
    BY QueueAssumption DEF QueueInv, TypeOK
  <2>4. QED  BY <2>2, <2>3 DEF Faultless
<1>2. QED  BY <1>1, QueueInvariant, PTL DEF Spec, FinishedIsNotRerun
=============================================================================
