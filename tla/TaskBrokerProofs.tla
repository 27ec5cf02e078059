--------------------------- MODULE TaskBrokerProofs ---------------------------
(***************************************************************************)
(* For any number of runners, requests, tasks and offers, and any          *)
(* concurrency, in both modes: every safety property of TaskBroker.        *)
(*                                                                         *)
(* IInv is inductive by itself: a runner never has more offers open and    *)
(* tasks running than it may run.  MatchInv, inductive with the types,     *)
(* relates requests, acceptances and tasks.  LinkInv says what the         *)
(* messages between broker and runner promise: which tasks the runner will *)
(* have to answer for at each point of the channel to the broker.  Every   *)
(* action is one of a few kinds of step of the link (BrokerStep,           *)
(* RunnerStep, EndStep, QuietStep), each of which keeps LinkInv.           *)
(***************************************************************************)
EXTENDS TaskBroker, FiniteSetTheorems, SequenceTheorems, TLAPS

(* The tasks that have the given statuses, and the places they take         *)
(* together with the given offers.                                          *)
Busy(status) == {t \in Tasks : status[t] # "none"}
Load(held, status) == Cardinality(held) + Cardinality(Busy(status))

HolderTypes ==
  /\ launchers \subseteq Runners
  /\ open \in [Runners -> SUBSET OfferIds]
  /\ running \in [Runners -> [Tasks -> TaskStatuses]]

(* A launcher gets no task to run, which is why its offer fits. *)
LaunchersRunNothing == \A l \in launchers : Busy(running[l]) = {}

LoadInv == \A r \in Runners : Load(open[r], running[r]) <= MaxConcurrency

IInv == HolderTypes /\ LaunchersRunNothing /\ LoadInv

-----------------------------------------------------------------------------
LEMMA LoadTypes ==
  ASSUME NEW held \in SUBSET OfferIds, NEW status
  PROVE  /\ IsFiniteSet(held) /\ Cardinality(held) \in Nat
         /\ IsFiniteSet(Busy(status)) /\ Cardinality(Busy(status)) \in Nat
<1>1. IsFiniteSet(held)
  BY ConstantsAssumption, FS_Subset
<1>2. IsFiniteSet(Tasks)
  BY ConstantsAssumption, FS_Interval DEF Tasks
<1>3. Busy(status) \in SUBSET Tasks
  BY DEF Busy
<1>4. IsFiniteSet(Busy(status))
  BY <1>2, <1>3, FS_Subset
<1>5. QED  BY <1>1, <1>4, FS_CardinalityType

(* Fewer offers and fewer tasks are no more load. *)
LEMMA LoadShrinks ==
  ASSUME NEW held \in SUBSET OfferIds, NEW status,
         NEW less \in SUBSET held, NEW after, Busy(after) \subseteq Busy(status)
  PROVE  Load(less, after) <= Load(held, status)
<1>1. /\ IsFiniteSet(held) /\ Cardinality(held) \in Nat /\ Cardinality(less) \in Nat
      /\ IsFiniteSet(Busy(status)) /\ Cardinality(Busy(status)) \in Nat
      /\ Cardinality(Busy(after)) \in Nat
  BY LoadTypes
<1>2. Cardinality(less) <= Cardinality(held)
  BY <1>1, FS_Subset
<1>3. Busy(after) \in SUBSET Busy(status)
  OBVIOUS
<1>4. Cardinality(Busy(after)) <= Cardinality(Busy(status))
  BY <1>1, <1>3, FS_Subset
<1>5. QED  BY <1>1, <1>2, <1>4 DEF Load

(* sendOffers fills the free places and no more. *)
LEMMA OffersFit ==
  ASSUME NEW held \in SUBSET OfferIds, NEW status,
         Load(held, status) <= MaxConcurrency,
         NEW r \in Runners, NEW free,
         free = IF proc[r] = "offering" /\ r \notin launchers /\ Places(held, status) > 0
                  THEN Places(held, status) ELSE 0,
         NEW new \in SUBSET Fresh(r, held), Cardinality(new) = free
  PROVE  held \cup new \in SUBSET OfferIds /\ Load(held \cup new, status) <= MaxConcurrency
<1>1. new \in SUBSET OfferIds /\ held \cap new = {}
  BY DEF Fresh
<1>2. /\ IsFiniteSet(held) /\ Cardinality(held) \in Nat
      /\ IsFiniteSet(new) /\ Cardinality(new) \in Nat
      /\ Cardinality(Busy(status)) \in Nat
  BY <1>1, LoadTypes
<1>3. Cardinality(held \cup new) = Cardinality(held) + Cardinality(new)
  <2>1. Cardinality(held \cup new) =
          Cardinality(held) + Cardinality(new) - Cardinality(held \cap new)
    BY <1>2, FS_Union
  <2>2. Cardinality(held \cap new) = 0
    BY <1>1, FS_EmptySet
  <2>3. QED  BY <1>2, <2>1, <2>2
<1>4. Places(held, status) = MaxConcurrency - (Cardinality(held) + Cardinality(Busy(status)))
  BY DEF Places, Busy
<1>5. Load(held \cup new, status) = Cardinality(held) + Cardinality(new) + Cardinality(Busy(status))
  BY <1>3 DEF Load
<1>6. Cardinality(held) + Cardinality(Busy(status)) <= MaxConcurrency
  BY DEF Load
<1>7. MaxConcurrency \in Nat
  BY ConstantsAssumption
<1>8. PICK h \in Nat, b \in Nat, n \in Nat :
        h = Cardinality(held) /\ b = Cardinality(Busy(status)) /\ n = Cardinality(new)
  BY <1>2
<1>9. n = 0 \/ n = MaxConcurrency - (h + b)
  BY <1>4, <1>8
<1>10. h + n + b <= MaxConcurrency
  BY <1>6, <1>7, <1>8, <1>9
<1>11. QED  BY <1>1, <1>5, <1>8, <1>10

-----------------------------------------------------------------------------
(* One runner's offers and tasks change. *)
LEMMA HolderStep ==
  ASSUME IInv, UNCHANGED launchers, NEW r \in Runners, NEW held \in SUBSET OfferIds,
         NEW status \in [Tasks -> TaskStatuses],
         open' = [open EXCEPT ![r] = held], running' = [running EXCEPT ![r] = status],
         Load(held, status) <= MaxConcurrency, r \in launchers => Busy(status) = {}
  PROVE  IInv'
<1>1. HolderTypes'
  BY DEF IInv, HolderTypes
<1>2. \A s \in Runners : /\ open'[s] = IF s = r THEN held ELSE open[s]
                         /\ running'[s] = IF s = r THEN status ELSE running[s]
  BY DEF IInv, HolderTypes
<1>3. launchers \subseteq Runners
  BY DEF IInv, HolderTypes
<1>4. LaunchersRunNothing'
  BY <1>2, <1>3 DEF IInv, LaunchersRunNothing
<1>5. LoadInv'
  BY <1>2 DEF IInv, LoadInv
<1>6. QED  BY <1>1, <1>4, <1>5 DEF IInv

LEMMA SendOffersStep ==
  ASSUME IInv, UNCHANGED launchers, NEW r \in Runners, NEW held \in SUBSET OfferIds,
         NEW status \in [Tasks -> TaskStatuses], NEW ms,
         Load(held, status) <= MaxConcurrency, r \in launchers => Busy(status) = {},
         SendOffers(r, held, status, ms)
  PROVE  IInv'
<1> DEFINE free == IF proc[r] = "offering" /\ r \notin launchers /\ Places(held, status) > 0
                     THEN Places(held, status) ELSE 0
<1>1. PICK new \in SUBSET Fresh(r, held) :
        /\ Cardinality(new) = free
        /\ open' = [open EXCEPT ![r] = held \cup new]
        /\ running' = [running EXCEPT ![r] = status]
  BY DEF SendOffers
<1>2. held \cup new \in SUBSET OfferIds /\ Load(held \cup new, status) <= MaxConcurrency
  BY <1>1, OffersFit
<1>3. QED  BY <1>1, <1>2, HolderStep

(* The offers stay or shrink, and so do the tasks. *)
LEMMA ShrinkStep ==
  ASSUME IInv, UNCHANGED launchers, NEW r \in Runners, NEW less \in SUBSET open[r],
         NEW status \in [Tasks -> TaskStatuses], Busy(status) \subseteq Busy(running[r])
  PROVE  /\ less \in SUBSET OfferIds
         /\ Load(less, status) <= MaxConcurrency
         /\ r \in launchers => Busy(status) = {}
<1>1. open[r] \in SUBSET OfferIds /\ Load(open[r], running[r]) <= MaxConcurrency
  BY DEF IInv, HolderTypes, LoadInv
<1>2. Load(less, status) <= Load(open[r], running[r])
  BY <1>1, LoadShrinks
<1>3. Load(less, status) \in Nat /\ Load(open[r], running[r]) \in Nat /\ MaxConcurrency \in Nat
  BY <1>1, LoadTypes, ConstantsAssumption DEF Load
<1>4. QED  BY <1>1, <1>2, <1>3 DEF IInv, LaunchersRunNothing

LEMMA EndsStep ==
  ASSUME IInv, UNCHANGED launchers, NEW r \in Runners, NEW how, NEW k, Ends(r, how, k)
  PROVE  IInv'
<1> DEFINE idle == [t \in Tasks |-> "none"]
<1>1. idle \in [Tasks -> TaskStatuses] /\ Busy(idle) = {}
  BY DEF TaskStatuses, Busy
<1>2. {} \in SUBSET open[r]
  OBVIOUS
<1> HIDE DEF idle
<1>3. Load({}, idle) <= MaxConcurrency
  BY <1>1, <1>2, ShrinkStep
<1>4. open' = [open EXCEPT ![r] = {}] /\ running' = [running EXCEPT ![r] = idle]
  BY DEF Ends, idle
<1>5. QED  BY <1>1, <1>3, <1>4, HolderStep

LEMMA RestartStep == IInv /\ UNCHANGED launchers /\ ForceRestart => IInv'
<1>1. ASSUME IInv, UNCHANGED launchers, ForceRestart, Current = {}  PROVE IInv'
  BY <1>1 DEF ForceRestart, IInv, HolderTypes, LaunchersRunNothing, LoadInv
<1>2. ASSUME IInv, UNCHANGED launchers, ForceRestart, NEW r \in Current  PROVE IInv'
  BY <1>2, EndsStep DEF ForceRestart, Current
<1>3. QED  BY <1>1, <1>2

LEMMA FinishStep ==
  ASSUME IInv, UNCHANGED launchers, NEW r \in Runners, NEW t, NEW ms, FinishTask(r, t, ms)
  PROVE  IInv'
<1> DEFINE after == [running[r] EXCEPT ![t] = "none"]
<1>1. running[r] \in [Tasks -> TaskStatuses] /\ open[r] \in SUBSET OfferIds
  BY DEF IInv, HolderTypes
<1>2. after \in [Tasks -> TaskStatuses] /\ Busy(after) \subseteq Busy(running[r])
  BY <1>1 DEF TaskStatuses, Busy
<1>3. SendOffers(r, open[r], after, ms)
  BY DEF FinishTask
<1> HIDE DEF after
<1>4. open[r] \in SUBSET open[r]
  OBVIOUS
<1>5. Load(open[r], after) <= MaxConcurrency /\ (r \in launchers => Busy(after) = {})
  BY <1>2, <1>4, ShrinkStep
<1>6. QED  BY <1>1, <1>2, <1>3, <1>5, SendOffersStep

(* A task that runs gets another status and keeps its place. *)
LEMMA StatusStep ==
  ASSUME IInv, UNCHANGED launchers, NEW r \in Runners, NEW t, running[r][t] # "none",
         NEW status \in TaskStatuses, SetTask(r, t, status), open' = open
  PROVE  IInv'
<1> DEFINE after == [running[r] EXCEPT ![t] = status]
<1>1. running[r] \in [Tasks -> TaskStatuses]
  BY DEF IInv, HolderTypes
<1>2. after \in [Tasks -> TaskStatuses] /\ Busy(after) \subseteq Busy(running[r])
  BY <1>1 DEF Busy
<1>3. running' = [running EXCEPT ![r] = after]
  BY DEF SetTask, IInv, HolderTypes
<1>4. open' = [open EXCEPT ![r] = open[r]] /\ open[r] \in SUBSET open[r]
  BY DEF IInv, HolderTypes
<1> HIDE DEF after
<1>5. /\ open[r] \in SUBSET OfferIds /\ Load(open[r], after) <= MaxConcurrency
      /\ r \in launchers => Busy(after) = {}
  BY <1>2, <1>4, ShrinkStep
<1>6. QED  BY <1>2, <1>3, <1>4, <1>5, HolderStep

(* An accepted task takes the place of its offer, any other leaves all as   *)
(* it is but for the offer.                                                 *)
LEMMA AcceptStep ==
  ASSUME IInv, UNCHANGED launchers, NEW r \in Runners, OfferAccepted(r)
  PROVE  IInv'
<1> DEFINE m == Head(toRunner[r])
           less == open[r] \ {m.offer}
           after == [running[r] EXCEPT ![m.task] = "waitingForSettings"]
<1>1. /\ running[r] \in [Tasks -> TaskStatuses] /\ open[r] \in SUBSET OfferIds
      /\ open' = [open EXCEPT ![r] = less] /\ less \in SUBSET open[r]
  BY DEF IInv, HolderTypes, OfferAccepted
<1>2. less \in SUBSET OfferIds
  BY <1>1
<1>3. CASE Cardinality(RunningTasks(r)) < MaxConcurrency /\ m.offer \in open[r]
  <2>1. running' = [running EXCEPT ![r] = after]
    BY <1>3 DEF OfferAccepted, SetTask, IInv, HolderTypes
  <2>2. after \in [Tasks -> TaskStatuses]
    BY <1>1 DEF TaskStatuses
  <2>3. Busy(after) \in SUBSET (Busy(running[r]) \cup {m.task})
    BY <1>1 DEF Busy
  <2>4. /\ IsFiniteSet(open[r]) /\ Cardinality(open[r]) \in Nat
        /\ IsFiniteSet(Busy(running[r])) /\ Cardinality(Busy(running[r])) \in Nat
        /\ Cardinality(Busy(after)) \in Nat
    BY <1>1, LoadTypes
  <2>5. Cardinality(less) = Cardinality(open[r]) - 1
    BY <1>3, <2>4, FS_RemoveElement
  <2>6. Cardinality(Busy(after)) <= Cardinality(Busy(running[r])) + 1
    <3>1. /\ IsFiniteSet(Busy(running[r]) \cup {m.task})
          /\ Cardinality(Busy(running[r]) \cup {m.task}) <= Cardinality(Busy(running[r])) + 1
      <4>1. Cardinality(Busy(running[r]) \cup {m.task}) =
              IF m.task \in Busy(running[r]) THEN Cardinality(Busy(running[r]))
                                             ELSE Cardinality(Busy(running[r])) + 1
        BY <2>4, FS_AddElement
      <4>2. IsFiniteSet(Busy(running[r]) \cup {m.task})
        BY <2>4, FS_AddElement
      <4>3. QED  BY <2>4, <4>1, <4>2
    <3>2. Cardinality(Busy(after)) <= Cardinality(Busy(running[r]) \cup {m.task})
      BY <2>3, <3>1, FS_Subset
    <3>3. Cardinality(Busy(running[r]) \cup {m.task}) \in Nat
      BY <3>1, FS_CardinalityType
    <3>4. QED  BY <2>4, <3>1, <3>2, <3>3
  <2>7. Load(less, after) <= MaxConcurrency
    <3>1. Cardinality(open[r]) + Cardinality(Busy(running[r])) <= MaxConcurrency
      BY DEF IInv, LoadInv, Load
    <3>2. MaxConcurrency \in Nat
      BY ConstantsAssumption
    <3>3. QED  BY <2>4, <2>5, <2>6, <3>1, <3>2 DEF Load
  <2>8. r \notin launchers
    BY DEF OfferAccepted
  <2> HIDE DEF after, less
  <2>9. QED  BY <1>1, <1>2, <2>1, <2>2, <2>7, <2>8, HolderStep
<1>4. CASE ~(Cardinality(RunningTasks(r)) < MaxConcurrency /\ m.offer \in open[r])
  <2>1. running' = running
    BY <1>4 DEF OfferAccepted
  <2>2. running' = [running EXCEPT ![r] = running[r]]
    BY <2>1 DEF IInv, HolderTypes
  <2> HIDE DEF less
  <2>3. Load(less, running[r]) <= MaxConcurrency /\ (r \in launchers => Busy(running[r]) = {})
    BY <1>1, ShrinkStep
  <2>4. QED  BY <1>1, <1>2, <2>2, <2>3, HolderStep
<1>5. QED  BY <1>3, <1>4

LEMMA LauncherStep ==
  ASSUME IInv, UNCHANGED launchers, NEW l \in launchers, LauncherOffers(l) \/ LauncherDefers(l)
  PROVE  IInv'
<1>1. l \in Runners /\ Busy(running[l]) = {} /\ running' = running
  BY DEF IInv, HolderTypes, LaunchersRunNothing, LauncherOffers, LauncherDefers
<1>2. Cardinality(Busy(running[l])) = 0
  BY <1>1, FS_EmptySet
<1>3. running[l] \in [Tasks -> TaskStatuses] /\ running' = [running EXCEPT ![l] = running[l]]
  BY <1>1 DEF IInv, HolderTypes
<1>4. ASSUME NEW held \in SUBSET OfferIds, open' = [open EXCEPT ![l] = held],
             Cardinality(held) \in {0, 1}
      PROVE  IInv'
  <2>1. Load(held, running[l]) <= MaxConcurrency
    BY <1>2, <1>4, ConstantsAssumption DEF Load
  <2>2. QED  BY <1>1, <1>3, <1>4, <2>1, HolderStep
<1>5. CASE LauncherOffers(l)
  <2>1. PICK o \in OfferIds : open' = [open EXCEPT ![l] = {o}]
    BY <1>5 DEF LauncherOffers
  <2>2. {o} \in SUBSET OfferIds /\ Cardinality({o}) = 1
    BY FS_Singleton
  <2>3. QED  BY <1>4, <2>1, <2>2
<1>6. CASE LauncherDefers(l)
  <2>1. open' = [open EXCEPT ![l] = {}]
    BY <1>6 DEF LauncherDefers
  <2>2. {} \in SUBSET OfferIds /\ Cardinality({}) = 0
    BY FS_EmptySet
  <2>3. QED  BY <1>4, <2>1, <2>2
<1>7. QED  BY <1>5, <1>6

LEMMA TickStep ==
  ASSUME IInv, UNCHANGED launchers, NEW r \in Runners, OfferTick(r)
  PROVE  IInv'
<1>1. PICK stale \in SUBSET open[r] : SendOffers(r, open[r] \ stale, running[r], <<>>)
  BY DEF OfferTick
<1>2. /\ open[r] \ stale \in SUBSET open[r]
      /\ running[r] \in [Tasks -> TaskStatuses] /\ Busy(running[r]) \subseteq Busy(running[r])
  BY DEF IInv, HolderTypes
<1>3. /\ open[r] \ stale \in SUBSET OfferIds
      /\ Load(open[r] \ stale, running[r]) <= MaxConcurrency
      /\ r \in launchers => Busy(running[r]) = {}
  BY <1>2, ShrinkStep
<1>4. QED  BY <1>1, <1>2, <1>3, SendOffersStep

LEMMA CancelStep ==
  ASSUME IInv, UNCHANGED launchers, NEW r \in Runners, TaskCancelled(r)
  PROVE  IInv'
<1> DEFINE t == Head(toRunner[r]).task
<1>1. CASE running[r][t] \in {"waitingForSettings", "running"}
  <2>1. CASE running[r][t] = "waitingForSettings"
    <3>1. FinishTask(r, t, <<>>)
      BY <2>1 DEF TaskCancelled
    <3> HIDE DEF t
    <3>2. QED  BY <1>1, <3>1, FinishStep
  <2>2. CASE running[r][t] = "running"
    <3>1. SetTask(r, t, "aborting:cancelled") /\ open' = open
      BY <2>2 DEF TaskCancelled
    <3>2. "aborting:cancelled" \in TaskStatuses
      BY DEF TaskStatuses
    <3> HIDE DEF t
    <3>3. QED  BY <1>1, <2>2, <3>1, <3>2, StatusStep
  <2>3. QED  BY <1>1, <2>1, <2>2
<1>2. CASE running[r][t] \notin {"waitingForSettings", "running"}
  BY <1>2 DEF TaskCancelled, IInv, HolderTypes, LaunchersRunNothing, LoadInv
<1>3. QED  BY <1>1, <1>2

LEMMA InitIInv == Init => IInv
<1>1. SUFFICES ASSUME Init PROVE IInv
  OBVIOUS
<1>2. \A r \in Runners : open[r] = {} /\ Busy(running[r]) = {}
  BY <1>1 DEF Init, Busy
<1>3. HolderTypes
  BY <1>1 DEF Init, HolderTypes, TaskStatuses
<1>4. LaunchersRunNothing
  BY <1>2, <1>3 DEF HolderTypes, LaunchersRunNothing
<1>5. LoadInv
  BY <1>2, FS_EmptySet, ConstantsAssumption DEF LoadInv, Load
<1>6. QED  BY <1>3, <1>4, <1>5 DEF IInv

LEMMA UnchangedStep ==
  ASSUME IInv, UNCHANGED launchers, UNCHANGED runnerVars
  PROVE  IInv'
BY DEF runnerVars, IInv, HolderTypes, LaunchersRunNothing, LoadInv

LEMMA NextStep == IInv /\ [Next]_vars => IInv'
<1>1. CASE UNCHANGED vars
  BY <1>1, UnchangedStep DEF vars, stepVars
<1>2. ASSUME IInv, UNCHANGED launchers, NEW q \in Requests, StartTask(q)  PROVE IInv'
  BY <1>2, UnchangedStep DEF StartTask
<1>3. ASSUME IInv, UNCHANGED launchers, NEW t \in Tasks, AcceptTimeout(t)  PROVE IInv'
  BY <1>3, UnchangedStep DEF AcceptTimeout
<1>4. ASSUME IInv, UNCHANGED launchers, NEW t \in Tasks, TaskTimeout(t)  PROVE IInv'
  BY <1>4, RestartStep, UnchangedStep DEF TaskTimeout, runnerVars
<1>5. ASSUME IInv, UNCHANGED launchers, NEW r \in Runners, BrokerHandles(r)  PROVE IInv'
  BY <1>5, UnchangedStep DEF BrokerHandles, TaskOffered, HandleRunnerAccept,
     HandleRunnerReject, TaskDone, Received
<1>6. ASSUME IInv, UNCHANGED launchers, NEW r \in Runners, RunnerHandles(r)  PROVE IInv'
  <2>1. ASSUME Registered(r)  PROVE IInv'
    BY <1>6, <2>1, UnchangedStep DEF Registered, runnerVars
  <2>2. ASSUME ReceivedSettings(r)  PROVE IInv'
    <3> DEFINE t == Head(toRunner[r]).task
    <3>1. CASE running[r][t] = "waitingForSettings"
      <4>1. SetTask(r, t, "running") /\ open' = open /\ "running" \in TaskStatuses
        BY <2>2, <3>1 DEF ReceivedSettings, TaskStatuses
      <4> HIDE DEF t
      <4>2. QED  BY <1>6, <3>1, <4>1, StatusStep
    <3>2. CASE running[r][t] # "waitingForSettings"
      BY <1>6, <2>2, <3>2, UnchangedStep DEF ReceivedSettings, runnerVars
    <3>3. QED  BY <3>1, <3>2
  <2>3. QED  BY <1>6, <2>1, <2>2, AcceptStep, CancelStep DEF RunnerHandles
<1>7. ASSUME IInv, UNCHANGED launchers, NEW r \in Runners, LauncherHandles(r)  PROVE IInv'
  BY <1>7, LauncherStep DEF LauncherHandles, LauncherOffers, LauncherDefers
<1>8. ASSUME IInv, UNCHANGED launchers, NEW r \in Runners,
             Crash(r) \/ DeregisterRunner(r) \/ Leave(r)
      PROVE  IInv'
  BY <1>8, EndsStep DEF Crash, DeregisterRunner, Leave
<1>9. ASSUME IInv, UNCHANGED launchers, NEW r \in Runners, HeartbeatFails(r)  PROVE IInv'
  BY <1>9, RestartStep, UnchangedStep DEF HeartbeatFails, runnerVars
<1>10. ASSUME IInv, UNCHANGED launchers, NEW r \in Runners,
              \/ ConnectionCloses(r) \/ StartRunner(r) \/ RegisterRunner(r) \/ StopRunner(r)
              \/ \E o \in OfferIds : OfferAges(r, o)
       PROVE  IInv'
  BY <1>10, UnchangedStep
     DEF ConnectionCloses, StartRunner, RegisterRunner, StopRunner, OfferAges
<1>11. ASSUME IInv, UNCHANGED launchers, NEW r \in Runners, NEW t \in Tasks, TaskTimedOut(r, t)  PROVE IInv'
  <2>1. CASE FinishTask(r, t, <<Message("error", t)>>)
    BY <1>11, <2>1, FinishStep
  <2>2. CASE running[r][t] = "running" /\ SetTask(r, t, "aborting:timeout") /\ open' = open
    <3>1. "aborting:timeout" \in TaskStatuses
      BY DEF TaskStatuses
    <3>2. QED  BY <1>11, <2>2, <3>1, StatusStep
  <2>3. QED  BY <1>11, <2>1, <2>2 DEF TaskTimedOut
<1>12. ASSUME IInv, UNCHANGED launchers, NEW r \in Runners, NEW t \in Tasks, NEW how,
              TaskExecutionEnds(r, t, how)
       PROVE  IInv'
  BY <1>12, FinishStep DEF TaskExecutionEnds
<1>13. QED
  BY <1>1, <1>2, <1>3, <1>4, <1>5, <1>6, <1>7, <1>8, <1>9, <1>10, <1>11, <1>12, TickStep DEF Next, Step

-----------------------------------------------------------------------------
(* Positions: what is left of a list after a filter *)

(* The k-th member of a finite set of numbers. *)
LEMMA RankGrows ==
  ASSUME NEW I \in SUBSET Nat, IsFiniteSet(I), NEW i \in I
  PROVE  /\ Rank(I, i) \in 1 .. Cardinality(I)
         /\ \A j \in I : Rank(I, i) = Rank(I, j) => i = j
<1> DEFINE Upto(j) == {h \in I : h <= j}
<1>1. \A j \in I : /\ IsFiniteSet(Upto(j)) /\ Cardinality(Upto(j)) \in Nat
                   /\ Cardinality(Upto(j)) <= Cardinality(I)
  BY FS_Subset, FS_CardinalityType
<1>2. Cardinality(Upto(i)) # 0
  BY <1>1, FS_EmptySet
<1>3. \A j, l \in I : j < l => Cardinality(Upto(j)) < Cardinality(Upto(l))
  <2> SUFFICES ASSUME NEW j \in I, NEW l \in I, j < l
               PROVE  Cardinality(Upto(j)) < Cardinality(Upto(l))
    OBVIOUS
  <2>0. j \in Nat /\ l \in Nat /\ \A h \in I : h \in Nat
    OBVIOUS
  <2>1. Upto(j) \subseteq Upto(l) /\ l \in Upto(l) /\ l \notin Upto(j)
    <3>1. \A h \in I : h <= j => h <= l
      BY <2>0
    <3>2. l <= l /\ ~(l <= j)
      BY <2>0
    <3>3. QED  BY <3>1, <3>2
  <2> HIDE DEF Upto
  <2>2. /\ Cardinality(Upto(j)) <= Cardinality(Upto(l))
        /\ Cardinality(Upto(j)) = Cardinality(Upto(l)) => Upto(j) = Upto(l)
    BY <1>1, <2>1, FS_Subset
  <2>3. QED  BY <1>1, <2>1, <2>2
<1>4. \A j \in I : Rank(I, j) = Cardinality(Upto(j))
  BY DEF Rank
<1>5. Cardinality(I) \in Nat
  BY FS_CardinalityType
<1> HIDE DEF Upto
<1>6. \A j \in I : Rank(I, i) = Rank(I, j) => i = j
  <2> SUFFICES ASSUME NEW j \in I, i # j PROVE Rank(I, i) # Rank(I, j)
    OBVIOUS
  <2>1. i < j \/ j < i
    OBVIOUS
  <2>2. QED  BY <2>1, <1>1, <1>3, <1>4
<1>7. QED  BY <1>1, <1>2, <1>4, <1>5, <1>6

LEMMA NthFacts ==
  ASSUME NEW I \in SUBSET Nat, IsFiniteSet(I), NEW k \in 1 .. Cardinality(I)
  PROVE  Nth(I, k) \in I /\ Rank(I, Nth(I, k)) = k
<1> DEFINE n == Cardinality(I)
           others == (1 .. n) \ {k}
           f == [i \in I |-> Rank(I, i)]
<1>1. n \in Nat /\ IsFiniteSet(1 .. n) /\ Cardinality(1 .. n) = n
  BY FS_CardinalityType, FS_Interval
<1>2. IsFiniteSet(others) /\ Cardinality(others) = n - 1
  <2>1. k \in 1 .. n
    OBVIOUS
  <2>2. QED  BY <1>1, <2>1, FS_RemoveElement, ZenonT(30)
<1>3. \E i \in I : Rank(I, i) = k
  <2> SUFFICES ASSUME \A i \in I : Rank(I, i) # k PROVE FALSE
    OBVIOUS
  <2>1. f \in [I -> others]
    BY RankGrows
  <2>2. Cardinality(others) < Cardinality(I)
    BY <1>1, <1>2
  <2> HIDE DEF f, others
  <2>3. PICK i \in I, j \in I : i # j /\ f[i] = f[j]
    BY <1>2, <2>1, <2>2, FS_PigeonHole
  <2>4. QED  BY <2>3, RankGrows DEF f
<1>4. QED  BY <1>3 DEF Nth

(* What Selected takes from a sequence. *)
LEMMA SelectedFacts ==
  ASSUME NEW S, NEW s \in Seq(S), NEW I \in SUBSET DOMAIN s
  PROVE  /\ IsFiniteSet(I) /\ Cardinality(I) \in Nat
         /\ Selected(s, I) \in Seq(S) /\ Len(Selected(s, I)) = Cardinality(I)
         /\ \A k \in 1 .. Cardinality(I) :
              Nth(I, k) \in I /\ Selected(s, I)[k] = s[Nth(I, k)]
         /\ \A k, l \in 1 .. Cardinality(I) : Nth(I, k) = Nth(I, l) => k = l
         /\ \A i \in I : \E k \in 1 .. Cardinality(I) : Nth(I, k) = i
<1>1. DOMAIN s = 1 .. Len(s) /\ Len(s) \in Nat
  OBVIOUS
<1>2. I \in SUBSET Nat /\ IsFiniteSet(I) /\ Cardinality(I) \in Nat
  <2>1. IsFiniteSet(1 .. Len(s)) /\ I \in SUBSET (1 .. Len(s))
    BY <1>1, FS_Interval
  <2>2. IsFiniteSet(I)
    BY <2>1, FS_Subset
  <2>3. QED  BY <1>1, <2>2, FS_CardinalityType
<1>3. \A k \in 1 .. Cardinality(I) : Nth(I, k) \in I /\ Rank(I, Nth(I, k)) = k
  BY <1>2, NthFacts
<1>4. \A k \in 1 .. Cardinality(I) : s[Nth(I, k)] \in S
  BY <1>1, <1>3
<1>5. /\ Selected(s, I) \in [1 .. Cardinality(I) -> S]
      /\ \A k \in 1 .. Cardinality(I) : Selected(s, I)[k] = s[Nth(I, k)]
  BY <1>4 DEF Selected
<1>6. Selected(s, I) \in Seq(S) /\ Len(Selected(s, I)) = Cardinality(I)
  BY <1>2, <1>5, IsASeq
<1>7. \A i \in I : \E k \in 1 .. Cardinality(I) : Nth(I, k) = i
  <2> SUFFICES ASSUME NEW i \in I PROVE Nth(I, Rank(I, i)) = i /\ Rank(I, i) \in 1 .. Cardinality(I)
    OBVIOUS
  <2>1. Rank(I, i) \in 1 .. Cardinality(I) /\ \A j \in I : Rank(I, i) = Rank(I, j) => i = j
    BY <1>2, RankGrows
  <2>2. QED  BY <1>3, <2>1
<1>8. QED  BY <1>2, <1>3, <1>5, <1>6, <1>7

(* One occurrence of e goes, every other member stays. *)
LEMMA WithoutFacts ==
  ASSUME NEW S, NEW s \in Seq(S), NEW e, Contains(s, e)
  PROVE  /\ Without(s, e) \in Seq(S)
         /\ \A f : f # e => (Contains(Without(s, e), f) <=> Contains(s, f))
         /\ Contains(Without(s, e), e) => Contains(s, e)
<1> DEFINE P == {i \in DOMAIN s : s[i] = e}
           I == DOMAIN s \ {Nth(P, 1)}
<1>1. DOMAIN s = 1 .. Len(s) /\ Len(s) \in Nat
  OBVIOUS
<1>2. P # {} /\ P \in SUBSET DOMAIN s
  BY <1>1 DEF Contains
<1>3. IsFiniteSet(P) /\ Cardinality(P) \in Nat /\ P \in SUBSET Nat
  BY <1>1, <1>2, SelectedFacts
<1>4. Cardinality(P) # 0
  BY <1>2, <1>3, FS_EmptySet
<1>5. Nth(P, 1) \in P
  BY <1>3, <1>4, NthFacts
<1>6. I \in SUBSET DOMAIN s /\ Without(s, e) = Selected(s, I)
  BY DEF Without
<1> HIDE DEF I
<1>7. /\ Selected(s, I) \in Seq(S) /\ Len(Selected(s, I)) = Cardinality(I) /\ Cardinality(I) \in Nat
      /\ \A k \in 1 .. Cardinality(I) : Nth(I, k) \in I /\ Selected(s, I)[k] = s[Nth(I, k)]
      /\ \A i \in I : \E k \in 1 .. Cardinality(I) : Nth(I, k) = i
  BY <1>6, SelectedFacts
<1>8. ASSUME NEW f, f # e, Contains(s, f) PROVE Contains(Without(s, e), f)
  <2>1. PICK i \in DOMAIN s : s[i] = f
    BY <1>1, <1>8 DEF Contains
  <2>2. i \in I
    BY <1>5, <1>8, <2>1 DEF I
  <2>3. QED  BY <1>6, <1>7, <2>1, <2>2 DEF Contains
<1>9. ASSUME NEW f, Contains(Without(s, e), f) PROVE Contains(s, f)
  <2>1. PICK k \in 1 .. Cardinality(I) : s[Nth(I, k)] = f /\ Nth(I, k) \in I
    BY <1>6, <1>7, <1>9 DEF Contains
  <2>2. QED  BY <1>1, <1>6, <2>1 DEF Contains
<1>10. QED  BY <1>6, <1>7, <1>8, <1>9

-----------------------------------------------------------------------------
(* settleTasks: what it takes from the lists and what it makes *)

OfferType == [runner : Runners, offer : OfferIds]

(* The requests that settleTasks looks at are in the list, free and each    *)
(* there once.                                                              *)
LEMMA UnclaimedFacts ==
  ASSUME NEW reqs \in Seq(Requests), NEW claimed
  PROVE  /\ Unclaimed(reqs, claimed) \in Seq(Requests)
         /\ \A k \in 1 .. Len(Unclaimed(reqs, claimed)) :
              LET q == Unclaimed(reqs, claimed)[k] IN
              q \in Requests /\ Contains(reqs, q) /\ ~claimed[q]
         /\ \A k, l \in 1 .. Len(Unclaimed(reqs, claimed)) :
              Unclaimed(reqs, claimed)[k] = Unclaimed(reqs, claimed)[l] => k = l
<1> DEFINE I == {i \in DOMAIN reqs : ~claimed[reqs[i]] /\ \A j \in 1 .. i - 1 : reqs[j] # reqs[i]}
           free == Selected(reqs, I)
<1>1. free = Unclaimed(reqs, claimed) /\ I \in SUBSET DOMAIN reqs
  BY DEF Unclaimed
<1>2. \A i \in I : i \in 1 .. Len(reqs) /\ reqs[i] \in Requests /\ ~claimed[reqs[i]]
  OBVIOUS
<1>3. \A i, j \in I : reqs[i] = reqs[j] => i = j
  <2> SUFFICES ASSUME NEW i \in I, NEW j \in I, reqs[i] = reqs[j], i # j PROVE FALSE
    OBVIOUS
  <2>1. i \in Nat /\ j \in Nat /\ i >= 1 /\ j >= 1
    BY <1>2
  <2>2. i < j \/ j < i
    BY <2>1
  <2>3. CASE i < j
    BY <2>1, <2>3
  <2>4. CASE j < i
    BY <2>1, <2>4
  <2>5. QED  BY <2>2, <2>3, <2>4
<1> HIDE DEF I
<1>4. /\ free \in Seq(Requests) /\ Len(free) = Cardinality(I)
      /\ \A k \in 1 .. Cardinality(I) : Nth(I, k) \in I /\ free[k] = reqs[Nth(I, k)]
      /\ \A k, l \in 1 .. Cardinality(I) : Nth(I, k) = Nth(I, l) => k = l
  BY <1>1, SelectedFacts
<1> HIDE DEF free
<1>5. \A k \in 1 .. Len(free) : free[k] \in Requests /\ Contains(reqs, free[k]) /\ ~claimed[free[k]]
  BY <1>2, <1>4 DEF Contains
<1>6. \A k, l \in 1 .. Len(free) : free[k] = free[l] => k = l
  BY <1>3, <1>4
<1>7. QED  BY <1>1, <1>4, <1>5, <1>6

LEMMA UnexpiredFacts ==
  ASSUME NEW offs \in Seq(OfferType)
  PROVE  Unexpired(offs) \in Seq(OfferType)
<1>1. {i \in DOMAIN offs : offs[i] \notin old} \in SUBSET DOMAIN offs
  OBVIOUS
<1>2. QED  BY <1>1, SelectedFacts DEF Unexpired

(* What settleTasks does: n requests, all different and free, get the       *)
(* tasks issued + 1 .. issued + n.                                          *)
Matched(n, free, live, sent, reqs, claimed) ==
  /\ issued + n <= MaxTasks /\ issued' = issued + n
  /\ requests' = reqs
  /\ n <= Len(free) /\ n <= Len(live)
  /\ \A k \in 1 .. n : free[k] \in Requests /\ Contains(reqs, free[k]) /\ ~claimed[free[k]]
  /\ \A k, l \in 1 .. n : free[k] = free[l] => k = l
  /\ \A k \in 1 .. n : live[k] \in OfferType
  /\ inProgress' = [q \in Requests |-> claimed[q] \/ \E i \in 1 .. n : free[i] = q]
  /\ accept' = [t \in Tasks |->
                  IF t \in issued + 1 .. issued + n
                    THEN [st |-> "waiting", request |-> free[t - issued],
                          runner |-> live[t - issued].runner]
                    ELSE accept[t]]
  /\ offers' \in Seq(OfferType)
  /\ toRunner' = [r \in Runners |-> toRunner[r] \o sent[r]]
  /\ \A r \in Runners :
       /\ sent[r] \in Seq(Messages)
       /\ \A j \in 1 .. Len(sent[r]) :
            \E i \in 1 .. n : /\ sent[r][j] = [type |-> "accept", task |-> issued + i,
                                              offer |-> live[i].offer, runner |-> r]
                              /\ live[i].runner = r
       /\ \A j, k \in 1 .. Len(sent[r]) : sent[r][j].task = sent[r][k].task => j = k
       /\ sent[r] # <<>> => proc[r] \in Up

LEMMA SettleFacts ==
  ASSUME TypeOK, NEW reqs \in Seq(Requests), NEW claimed, NEW offs \in Seq(OfferType),
         Settle(reqs, claimed, offs)
  PROVE  \E n \in Nat, free \in Seq(Requests), live \in Seq(OfferType),
             sent \in [Runners -> Seq(Messages)] :
           Matched(n, free, live, sent, reqs, claimed)
<1> DEFINE free == Unclaimed(reqs, claimed)
           live == Unexpired(offs)
           n    == IF Len(free) < Len(live) THEN Len(free) ELSE Len(live)
           message(i) == [type |-> "accept", task |-> issued + i,
                          offer |-> live[i].offer, runner |-> live[i].runner]
           all == [i \in 1 .. n |-> message(i)]
           mine(r) == {i \in 1 .. n : live[i].runner = r /\ proc[r] \in Up}
           sent == [r \in Runners |-> Selected(all, mine(r))]
<1>1. /\ free \in Seq(Requests) /\ Len(free) \in Nat
      /\ live \in Seq(OfferType) /\ Len(live) \in Nat
  BY UnclaimedFacts, UnexpiredFacts
<1>2. /\ n \in Nat /\ n <= Len(free) /\ n <= Len(live)
      /\ \A k \in 1 .. n : k \in 1 .. Len(free) /\ k \in 1 .. Len(live)
  BY <1>1
<1>3. /\ \A k \in 1 .. n : free[k] \in Requests /\ Contains(reqs, free[k]) /\ ~claimed[free[k]]
      /\ \A k, l \in 1 .. n : free[k] = free[l] => k = l
  BY <1>2, UnclaimedFacts
<1>4. \A k \in 1 .. n : live[k] \in OfferType
  BY <1>1, <1>2
<1>5. SubSeq(live, n + 1, Len(live)) \in Seq(OfferType)
  <2>1. n + 1 \in 1 .. Len(live) + 1 /\ Len(live) \in 0 .. Len(live)
    BY <1>1, <1>2
  <2> HIDE DEF n, live
  <2>2. \A i \in n + 1 .. Len(live) : i \in 1 .. Len(live)
    BY <1>1, <2>1
  <2>3. QED  BY <1>1, <2>1, <2>2, SubSeqProperties
<1>6. /\ issued + n <= MaxTasks /\ issued' = issued + n /\ requests' = reqs
      /\ inProgress' = [q \in Requests |-> claimed[q] \/ \E i \in 1 .. n : free[i] = q]
      /\ offers' = SubSeq(live, n + 1, Len(live))
      /\ accept' = [t \in Tasks |->
                      IF t \in issued + 1 .. issued + n
                        THEN [st |-> "waiting", request |-> free[t - issued],
                              runner |-> live[t - issued].runner]
                        ELSE accept[t]]
      /\ toRunner' = [r \in Runners |-> toRunner[r] \o sent[r]]
  BY DEF Settle
<1>7. issued \in Nat /\ MaxTasks \in Nat
  BY ConstantsAssumption DEF TypeOK
<1>8. ASSUME NEW r \in Runners
      PROVE  /\ sent[r] \in Seq(Messages)
             /\ \A j \in 1 .. Len(sent[r]) :
                  \E i \in 1 .. n : /\ sent[r][j] = [type |-> "accept", task |-> issued + i,
                                                    offer |-> live[i].offer, runner |-> r]
                                    /\ live[i].runner = r
             /\ \A j, k \in 1 .. Len(sent[r]) : sent[r][j].task = sent[r][k].task => j = k
             /\ sent[r] # <<>> => proc[r] \in Up
  <2>1. \A i \in 1 .. n : message(i) \in Messages
    <3> SUFFICES ASSUME NEW i \in 1 .. n PROVE message(i) \in Messages
      OBVIOUS
    <3>1. issued + i \in Tasks
      BY <1>2, <1>6, <1>7 DEF Tasks
    <3>2. live[i].offer \in OfferIds /\ live[i].runner \in Runners
      BY <1>4 DEF OfferType
    <3> HIDE DEF live, n
    <3>3. QED  BY <3>1, <3>2 DEF Messages
  <2> HIDE DEF n, live, free
  <2>2. all \in Seq(Messages) /\ DOMAIN all = 1 .. n
    <3>1. all \in [1 .. n -> Messages]
      BY <2>1
    <3> HIDE DEF all
    <3>2. QED  BY <1>2, <3>1
  <2>3. mine(r) \in SUBSET DOMAIN all
    BY <2>2
  <2>4. \A i \in mine(r) : /\ i \in 1 .. n /\ live[i].runner = r /\ proc[r] \in Up
                           /\ all[i] = [type |-> "accept", task |-> issued + i,
                                        offer |-> live[i].offer, runner |-> r]
    OBVIOUS
  <2>45. sent[r] = Selected(all, mine(r))
    OBVIOUS
  <2> HIDE DEF all, mine, sent
  <2>5. /\ sent[r] \in Seq(Messages) /\ Len(sent[r]) = Cardinality(mine(r))
        /\ \A k \in 1 .. Len(sent[r]) : Nth(mine(r), k) \in mine(r) /\ sent[r][k] = all[Nth(mine(r), k)]
        /\ \A k, l \in 1 .. Len(sent[r]) : Nth(mine(r), k) = Nth(mine(r), l) => k = l
    <3> DEFINE I == mine(r)
               picked == Selected(all, I)
    <3>1. I \in SUBSET DOMAIN all /\ picked = sent[r]
      BY <2>3, <2>45
    <3> HIDE DEF I
    <3>2. /\ picked \in Seq(Messages) /\ Len(picked) = Cardinality(I)
          /\ \A k \in 1 .. Cardinality(I) : Nth(I, k) \in I /\ picked[k] = all[Nth(I, k)]
          /\ \A k, l \in 1 .. Cardinality(I) : Nth(I, k) = Nth(I, l) => k = l
      <4>1. all \in Seq(Messages)
        BY <2>2
      <4>2. I \in SUBSET DOMAIN all
        BY <3>1
      <4>3. Len(Selected(all, I)) = Cardinality(I)
        BY <4>1, <4>2, SelectedFacts
      <4>4. Selected(all, I) \in Seq(Messages)
        BY <4>1, <4>2, SelectedFacts
      <4>5. \A k \in 1 .. Cardinality(I) : Nth(I, k) \in I /\ Selected(all, I)[k] = all[Nth(I, k)]
        BY <4>1, <4>2, SelectedFacts
      <4>6. \A k, l \in 1 .. Cardinality(I) : Nth(I, k) = Nth(I, l) => k = l
        BY <4>1, <4>2, SelectedFacts
      <4>7. QED  BY <4>3, <4>4, <4>5, <4>6
    <3> HIDE DEF picked
    <3>3. /\ sent[r] \in Seq(Messages) /\ Len(sent[r]) = Cardinality(I)
          /\ \A k \in 1 .. Len(sent[r]) : Nth(I, k) \in I /\ sent[r][k] = all[Nth(I, k)]
          /\ \A k, l \in 1 .. Len(sent[r]) : Nth(I, k) = Nth(I, l) => k = l
      BY <3>1, <3>2
    <3>4. QED  BY <3>3 DEF I
  <2>6. \A j \in 1 .. Len(sent[r]) :
          \E i \in 1 .. n : /\ sent[r][j] = [type |-> "accept", task |-> issued + i,
                                            offer |-> live[i].offer, runner |-> r]
                            /\ live[i].runner = r
    BY <2>4, <2>5
  <2>7. \A j \in 1 .. Len(sent[r]) : sent[r][j].task = issued + Nth(mine(r), j)
                                     /\ Nth(mine(r), j) \in Nat
    <3> SUFFICES ASSUME NEW j \in 1 .. Len(sent[r])
                 PROVE  sent[r][j].task = issued + Nth(mine(r), j) /\ Nth(mine(r), j) \in Nat
      OBVIOUS
    <3>1. PICK i \in mine(r) : i = Nth(mine(r), j) /\ sent[r][j] = all[i]
      BY <2>5
    <3>2. i \in Nat /\ all[i].task = issued + i
      <4>1. i \in 1 .. n /\ all[i] = [type |-> "accept", task |-> issued + i,
                                       offer |-> live[i].offer, runner |-> r]
        BY <2>4
      <4>2. QED  BY <1>2, <4>1
    <3>3. QED  BY <3>1, <3>2
  <2>8. \A j, k \in 1 .. Len(sent[r]) : sent[r][j].task = sent[r][k].task => j = k
    BY <1>7, <2>5, <2>7
  <2>9. sent[r] # <<>> => proc[r] \in Up
    <3> SUFFICES ASSUME sent[r] # <<>> PROVE proc[r] \in Up
      OBVIOUS
    <3>1. 1 \in 1 .. Len(sent[r])
      BY <2>5
    <3>2. QED  BY <2>4, <2>5, <3>1
  <2>10. QED  BY <2>5, <2>6, <2>8, <2>9
<1> HIDE DEF n, free, live, sent
<1>9. Matched(n, free, live, sent, reqs, claimed)
  BY <1>2, <1>3, <1>4, <1>5, <1>6, <1>8 DEF Matched
<1>10. sent \in [Runners -> Seq(Messages)]
  <2>1. \A r \in Runners : sent[r] \in Seq(Messages)
    BY <1>8
  <2>2. sent = [r \in Runners |-> sent[r]]
    BY DEF sent
  <2>3. QED  BY <2>1, <2>2
<1>11. QED  BY <1>1, <1>2, <1>9, <1>10

-----------------------------------------------------------------------------
(* Types *)

LEMMA MessageFacts ==
  /\ \A m \in Messages :
       /\ m.type \notin {"registered", "offer"} => m.task \in Tasks
       /\ m.type = "offer" => m.offer \in OfferIds
  /\ [type |-> "registered"] \in Messages
  /\ \A o \in OfferIds : [type |-> "offer", offer |-> o] \in Messages
  /\ \A t \in Tasks, how \in {"settings", "cancel", "accepted", "rejected", "deferred", "done", "error"} :
       [type |-> how, task |-> t] \in Messages
BY DEF Messages

(* A message is taken from a channel. *)
LEMMA TakeFacts ==
  ASSUME NEW S, NEW c \in Seq(S), c # <<>>
  PROVE  Head(c) \in S /\ Tail(c) \in Seq(S)
OBVIOUS

LEMMA SentType ==
  ASSUME TypeOK, NEW r \in Runners, NEW m \in Messages
  PROVE  Sent(r, m) \in [Runners -> Seq(Messages)]
<1>1. toRunner \in [Runners -> Seq(Messages)] /\ Append(toRunner[r], m) \in Seq(Messages)
  BY DEF TypeOK
<1>2. QED  BY <1>1 DEF Sent

(* settleTasks keeps the types of what it changes. *)
LEMMA SettleTypes ==
  ASSUME TypeOK, NEW reqs \in Seq(Requests), NEW claimed \in [Requests -> BOOLEAN],
         NEW offs \in Seq(OfferType), Settle(reqs, claimed, offs)
  PROVE  /\ offers' \in Seq(OfferType) /\ requests' \in Seq(Requests)
         /\ inProgress' \in [Requests -> BOOLEAN]
         /\ accept' \in [Tasks -> [st : Stages, request : Requests \cup {None},
                                   runner : Runners \cup {None}]]
         /\ issued' \in 0 .. MaxTasks
         /\ toRunner' \in [Runners -> Seq(Messages)]
<1>1. PICK n \in Nat, free \in Seq(Requests), live \in Seq(OfferType),
             sent \in [Runners -> Seq(Messages)] :
        Matched(n, free, live, sent, reqs, claimed)
  BY SettleFacts
<1>2. offers' \in Seq(OfferType) /\ requests' \in Seq(Requests)
  BY <1>1 DEF Matched
<1>3. inProgress' \in [Requests -> BOOLEAN]
  BY <1>1 DEF Matched
<1>4. issued' \in 0 .. MaxTasks
  BY <1>1, ConstantsAssumption DEF Matched, TypeOK
<1>5. accept' \in [Tasks -> [st : Stages, request : Requests \cup {None},
                             runner : Runners \cup {None}]]
  <2>1. ASSUME NEW t \in Tasks, t \in issued + 1 .. issued + n
        PROVE  free[t - issued] \in Requests /\ live[t - issued].runner \in Runners
    <3>1. t - issued \in 1 .. n
      BY <2>1, ConstantsAssumption DEF TypeOK, Tasks
    <3>2. QED  BY <1>1, <3>1 DEF Matched, OfferType
  <2>2. \A t \in Tasks : accept[t] \in [st : Stages, request : Requests \cup {None},
                                       runner : Runners \cup {None}]
    BY DEF TypeOK
  <2>3. accept' = [t \in Tasks |->
                  IF t \in issued + 1 .. issued + n
                    THEN [st |-> "waiting", request |-> free[t - issued],
                          runner |-> live[t - issued].runner]
                    ELSE accept[t]]
    BY <1>1 DEF Matched
  <2>4. \A t \in Tasks : accept'[t] \in [st : Stages, request : Requests \cup {None},
                                       runner : Runners \cup {None}]
    BY <2>1, <2>2, <2>3 DEF Stages
  <2>5. QED  BY <2>3, <2>4
<1>6. toRunner' \in [Runners -> Seq(Messages)]
  <2>1. \A r \in Runners : toRunner[r] \in Seq(Messages) /\ sent[r] \in Seq(Messages)
    BY <1>1 DEF TypeOK, Matched
  <2>2. \A r \in Runners : toRunner[r] \o sent[r] \in Seq(Messages)
    BY <2>1
  <2>3. QED  BY <1>1, <2>2 DEF Matched
<1>7. QED  BY <1>2, <1>3, <1>4, <1>5, <1>6

LEMMA AnsweredTypes ==
  ASSUME TypeOK, NEW S, NEW how \in Answers, Answered(S, how)
  PROVE  /\ request' \in [Requests -> {"idle", "asked", "ready", "done"}]
         /\ answer' \in [Requests -> Answers]
BY DEF TypeOK, Answered

LEMMA EndsTypes ==
  ASSUME TypeOK, NEW r \in Runners, NEW how \in Procs, NEW k \in 0 .. Len(toBroker[r]), Ends(r, how, k)
  PROVE  /\ proc' \in [Runners -> Procs]
         /\ open' \in [Runners -> SUBSET OfferIds]
         /\ running' \in [Runners -> [Tasks -> TaskStatuses]]
         /\ toBroker' \in [Runners -> Seq(Messages)]
<1>1. toBroker[r] \in Seq(Messages)
  BY DEF TypeOK
<1>2. SubSeq(toBroker[r], 1, k) \in Seq(Messages)
  BY <1>1
<1>3. QED  BY <1>2 DEF TypeOK, Ends, TaskStatuses

LEMMA RestartTypes ==
  ASSUME TypeOK, ForceRestart
  PROVE  /\ proc' \in [Runners -> Procs]
         /\ open' \in [Runners -> SUBSET OfferIds]
         /\ running' \in [Runners -> [Tasks -> TaskStatuses]]
         /\ toBroker' \in [Runners -> Seq(Messages)]
         /\ toRunner' \in [Runners -> Seq(Messages)]
<1>1. toRunner' \in [Runners -> Seq(Messages)]
  BY DEF TypeOK, ForceRestart
<1>2. CASE Current = {}
  BY <1>1, <1>2 DEF TypeOK, ForceRestart
<1>3. ASSUME NEW r \in Current
      PROVE  /\ proc' \in [Runners -> Procs]
             /\ open' \in [Runners -> SUBSET OfferIds]
             /\ running' \in [Runners -> [Tasks -> TaskStatuses]]
             /\ toBroker' \in [Runners -> Seq(Messages)]
  <2>1. PICK k \in 0 .. Len(toBroker[r]) : Ends(r, "dead", k)
    BY <1>3 DEF ForceRestart
  <2>2. r \in Runners /\ "dead" \in Procs
    BY DEF Current, Procs
  <2>3. QED  BY <2>1, <2>2, EndsTypes
<1>4. QED  BY <1>1, <1>2, <1>3

(* The runner sends offers after the messages ms. *)
Offered(r, status, ms) ==
  /\ running' = [running EXCEPT ![r] = status]
  /\ \E made \in Seq(Messages) :
       /\ \A i \in 1 .. Len(made) : made[i].type = "offer"
       /\ toBroker' = [toBroker EXCEPT ![r] = @ \o ms \o made]

LEMMA SendOffersTypes ==
  ASSUME TypeOK, NEW r \in Runners, NEW held \in SUBSET OfferIds,
         NEW status \in [Tasks -> TaskStatuses], NEW ms \in Seq(Messages),
         SendOffers(r, held, status, ms)
  PROVE  /\ open' \in [Runners -> SUBSET OfferIds]
         /\ running' \in [Runners -> [Tasks -> TaskStatuses]]
         /\ toBroker' \in [Runners -> Seq(Messages)]
         /\ old' \in SUBSET old
         /\ Offered(r, status, ms)
<1> DEFINE free == IF proc[r] = "offering" /\ r \notin launchers /\ Places(held, status) > 0
                     THEN Places(held, status) ELSE 0
           made(new) == [i \in 1 .. free |-> [type |-> "offer", offer |-> Nth(new, i)]]
<1>1. PICK new \in SUBSET Fresh(r, held) :
        /\ Cardinality(new) = free
        /\ open' = [open EXCEPT ![r] = held \cup new]
        /\ running' = [running EXCEPT ![r] = status]
        /\ toBroker' = [toBroker EXCEPT ![r] = @ \o ms \o made(new)]
        /\ old' = old \ {Offer(r, o) : o \in new}
  BY DEF SendOffers
<1>2. new \in SUBSET OfferIds /\ new \in SUBSET Nat
  BY ConstantsAssumption DEF Fresh
<1>3. IsFiniteSet(new) /\ Cardinality(new) \in Nat
  BY <1>2, LoadTypes
<1>4. \A i \in 1 .. free : Nth(new, i) \in OfferIds
  BY <1>1, <1>2, <1>3, NthFacts
<1>5. made(new) \in Seq(Messages) /\ \A i \in 1 .. Len(made(new)) : made(new)[i].type = "offer"
  <2>1. \A i \in 1 .. free : [type |-> "offer", offer |-> Nth(new, i)] \in Messages
    BY <1>4, MessageFacts
  <2>2. free \in Nat
    BY <1>1, <1>3
  <2> HIDE DEF free
  <2>3. made(new) \in [1 .. free -> Messages] /\ \A i \in 1 .. free : made(new)[i].type = "offer"
    BY <2>1
  <2> HIDE DEF made
  <2>4. QED  BY <2>2, <2>3
<1>6. toBroker[r] \in Seq(Messages)
  BY DEF TypeOK
<1> HIDE DEF made, free
<1>7. toBroker[r] \o ms \o made(new) \in Seq(Messages)
  BY <1>5, <1>6
<1>8. Offered(r, status, ms)
  BY <1>1, <1>5 DEF Offered
<1>9. QED  BY <1>1, <1>2, <1>7, <1>8 DEF TypeOK

IssuedInv == \A t \in Tasks :
  /\ t > issued => accept[t].st = "none"
  /\ accept[t].st # "none" => accept[t].request \in Requests /\ accept[t].runner \in Runners

LEMMA ReceivedTypes ==
  ASSUME TypeOK, NEW r \in Runners, Received(r)
  PROVE  /\ Head(toBroker[r]) \in Messages
         /\ known' = known /\ old' = old /\ conn' = conn /\ proc' = proc
         /\ open' = open /\ running' = running /\ faults' = faults
         /\ toBroker' \in [Runners -> Seq(Messages)]
<1>1. toBroker[r] \in Seq(Messages) /\ toBroker[r] # <<>>
  BY DEF TypeOK, Received
<1>2. Head(toBroker[r]) \in Messages /\ Tail(toBroker[r]) \in Seq(Messages)
  BY <1>1, TakeFacts
<1>3. QED  BY <1>2 DEF TypeOK, Received, runnerVars

LEMMA BrokerHandlesTypes ==
  ASSUME TypeOK, IssuedInv, UNCHANGED launchers, NEW r \in Runners, BrokerHandles(r)
  PROVE  TypeOK'
<1> DEFINE m == Head(toBroker[r])
<1>1. /\ m \in Messages
      /\ known' = known /\ old' = old /\ conn' = conn /\ proc' = proc
      /\ open' = open /\ running' = running /\ faults' = faults
      /\ toBroker' \in [Runners -> Seq(Messages)]
  BY ReceivedTypes
     DEF BrokerHandles, TaskOffered, HandleRunnerAccept, HandleRunnerReject, TaskDone
<1>2. ASSUME TaskOffered(r) PROVE TypeOK'
  <2>1. m.offer \in OfferIds
    BY <1>1, <1>2, MessageFacts DEF TaskOffered, HeadIs
  <2>2. Append(offers, Offer(r, m.offer)) \in Seq(OfferType)
    BY <2>1 DEF TypeOK, Offer, OfferType
  <2>3. /\ Settle(requests, inProgress, Append(offers, Offer(r, m.offer)))
        /\ UNCHANGED <<tasks, requesterVars>>
        /\ requests \in Seq(Requests) /\ inProgress \in [Requests -> BOOLEAN]
    BY <1>2 DEF TaskOffered, TypeOK
  <2>4. /\ offers' \in Seq(OfferType) /\ requests' \in Seq(Requests)
        /\ inProgress' \in [Requests -> BOOLEAN]
        /\ accept' \in [Tasks -> [st : Stages, request : Requests \cup {None},
                                  runner : Runners \cup {None}]]
        /\ issued' \in 0 .. MaxTasks
        /\ toRunner' \in [Runners -> Seq(Messages)]
    BY <2>2, <2>3, SettleTypes
  <2>5. QED  BY <1>1, <2>3, <2>4 DEF TypeOK, OfferType, requesterVars
<1> DEFINE t == m.task
           q == accept[t].request
<1>3. ASSUME ~HeadIs(r, "offer"), m.type # "registered" PROVE t \in Tasks
  <2>1. toBroker[r] # <<>>
    BY DEF BrokerHandles, TaskOffered, HandleRunnerAccept, HandleRunnerReject, TaskDone, HeadIs
  <2>2. m.type # "offer"
    BY <1>3, <2>1 DEF HeadIs
  <2>3. QED  BY <1>1, <1>3, <2>2, MessageFacts
<1>4. ASSUME NEW st \in Stages, t \in Tasks, accept' = [accept EXCEPT ![t].st = st]
      PROVE  accept' \in [Tasks -> [st : Stages, request : Requests \cup {None},
                                    runner : Runners \cup {None}]]
  BY <1>4, ZenonT(30) DEF TypeOK
<1>5. ASSUME HandleRunnerAccept(r) PROVE TypeOK'
  <2>1. t \in Tasks
    BY <1>3, <1>5 DEF HandleRunnerAccept, HeadIs
  <2>2. UNCHANGED <<offers, issued>>
    BY <1>5 DEF HandleRunnerAccept
  <2>3. CASE accept[t].st = "waiting"
    <3>1. TaskReady(r, t)
      BY <1>5, <2>3 DEF HandleRunnerAccept
    <3>2. requests' \in Seq(Requests)
      <4>1. requests' = requests \/ (Contains(requests, q) /\ requests' = Without(requests, q))
        BY <3>1 DEF TaskReady
      <4>2. requests \in Seq(Requests)
        BY DEF TypeOK
      <4>3. QED  BY <4>1, <4>2, WithoutFacts
    <3>3. UNCHANGED <<inProgress, answer>>
      BY <3>1 DEF TaskReady
    <3>4. \/ /\ tasks' = tasks \cup {t} /\ accept' = [accept EXCEPT ![t].st = "unlisted"]
             /\ UNCHANGED <<request, toRunner>>
          \/ /\ tasks' = tasks \cup {t} /\ accept' = [accept EXCEPT ![t].st = "accepted"]
             /\ request' = [request EXCEPT ![q] = "ready"]
             /\ toRunner' = Sent(r, [type |-> "settings", task |-> t])
          \/ /\ accept' = [accept EXCEPT ![t].st = "unwanted"]
             /\ toRunner' = Sent(r, [type |-> "cancel", task |-> t])
             /\ UNCHANGED <<tasks, request>>
      BY <3>1 DEF TaskReady
    <3>5. {"unlisted", "accepted", "unwanted"} \subseteq Stages
      BY DEF Stages
    <3>6. accept' \in [Tasks -> [st : Stages, request : Requests \cup {None},
                                 runner : Runners \cup {None}]]
      BY <1>4, <2>1, <3>4, <3>5
    <3>7. toRunner' \in [Runners -> Seq(Messages)]
      <4>1. [type |-> "settings", task |-> t] \in Messages /\ [type |-> "cancel", task |-> t] \in Messages
        BY <2>1, MessageFacts
      <4>2. toRunner \in [Runners -> Seq(Messages)]
        BY DEF TypeOK
      <4> HIDE DEF t
      <4>3. QED  BY <3>4, <4>1, <4>2, SentType
    <3>8. tasks' \subseteq Tasks
      BY <2>1, <3>4 DEF TypeOK
    <3>9. request' \in [Requests -> {"idle", "asked", "ready", "done"}]
      BY <3>4 DEF TypeOK
    <3> HIDE DEF t, m, q
    <3>10. QED  BY <1>1, <2>2, <3>2, <3>3, <3>6, <3>7, <3>8, <3>9 DEF TypeOK
  <2>4. CASE accept[t].st # "waiting"
    <3>1. /\ accept' = accept \/ accept' = [accept EXCEPT ![t].st = "over"]
          /\ UNCHANGED <<requests, inProgress, tasks, requesterVars, toRunner>>
      BY <1>5, <2>4 DEF HandleRunnerAccept
    <3>2. accept' \in [Tasks -> [st : Stages, request : Requests \cup {None},
                                 runner : Runners \cup {None}]]
      BY <1>4, <2>1, <3>1 DEF Stages, TypeOK
    <3> HIDE DEF t, m, q
    <3>3. QED  BY <1>1, <2>2, <3>1, <3>2 DEF TypeOK, requesterVars
  <2>5. QED  BY <2>3, <2>4
<1>6. ASSUME HandleRunnerReject(r) PROVE TypeOK'
  <2>1. t \in Tasks
    BY <1>3, <1>6 DEF HandleRunnerReject, HeadIs
  <2>2. UNCHANGED <<offers, tasks, issued, requesterVars, toRunner>>
    BY <1>6 DEF HandleRunnerReject
  <2>3. CASE accept[t].st = "waiting"
    <3>1. /\ GiveUp(t, "over")
          /\ requests' = requests \/ (requests' = Append(requests, q) /\ HeadIs(r, "deferred"))
      BY <1>6, <2>3 DEF HandleRunnerReject
    <3>2. accept' \in [Tasks -> [st : Stages, request : Requests \cup {None},
                                 runner : Runners \cup {None}]]
      BY <1>4, <2>1, <3>1 DEF GiveUp, Stages
    <3>3. inProgress' \in [Requests -> BOOLEAN]
      BY <3>1 DEF GiveUp, TypeOK
    <3>4. q \in Requests
      BY <2>1, <2>3 DEF IssuedInv
    <3>5. requests \in Seq(Requests)
      BY DEF TypeOK
    <3> HIDE DEF t, m, q
    <3>6. requests' \in Seq(Requests)
      BY <3>1, <3>4, <3>5
    <3>7. QED  BY <1>1, <2>2, <3>2, <3>3, <3>6 DEF TypeOK, requesterVars
  <2>4. CASE accept[t].st # "waiting"
    <3>1. /\ accept' = accept \/ accept' = [accept EXCEPT ![t].st = "over"]
          /\ UNCHANGED <<requests, inProgress>>
      BY <1>6, <2>4 DEF HandleRunnerReject
    <3>2. accept' \in [Tasks -> [st : Stages, request : Requests \cup {None},
                                 runner : Runners \cup {None}]]
      BY <1>4, <2>1, <3>1 DEF Stages, TypeOK
    <3> HIDE DEF t, m, q
    <3>3. QED  BY <1>1, <2>2, <3>1, <3>2 DEF TypeOK, requesterVars
  <2>5. QED  BY <2>3, <2>4
<1>7. ASSUME TaskDone(r) PROVE TypeOK'
  <2>1. /\ Answered(tasks \cap {t}, m.type) /\ m.type \in {"done", "error"}
        /\ tasks' = tasks \ {t}
        /\ UNCHANGED <<offers, requests, inProgress, accept, issued, toRunner>>
    BY <1>7 DEF TaskDone, HeadIs
  <2>2. /\ request' \in [Requests -> {"idle", "asked", "ready", "done"}]
        /\ answer' \in [Requests -> Answers]
    BY <2>1, AnsweredTypes DEF Answers
  <2> HIDE DEF t, m, q
  <2>3. QED  BY <1>1, <2>1, <2>2 DEF TypeOK
<1>8. QED  BY <1>2, <1>5, <1>6, <1>7 DEF BrokerHandles

LEMMA RunnerHandlesTypes ==
  ASSUME TypeOK, UNCHANGED launchers, NEW r \in Runners,
         RunnerHandles(r) \/ LauncherHandles(r)
  PROVE  TypeOK'
<1> DEFINE m == Head(toRunner[r])
           t == m.task
<1>1. /\ m \in Messages
      /\ UNCHANGED <<brokerVars, requesterVars, conn, faults>>
      /\ toRunner' \in [Runners -> Seq(Messages)]
  <2>1. /\ toRunner[r] \in Seq(Messages) /\ toRunner[r] # <<>>
        /\ toRunner' = [toRunner EXCEPT ![r] = Tail(@)]
        /\ UNCHANGED <<brokerVars, requesterVars, conn, faults>>
    BY DEF TypeOK, RunnerHandles, LauncherHandles, Registered, OfferAccepted, TaskCancelled,
       ReceivedSettings, LauncherOffers, LauncherDefers, Arrives
  <2>2. m \in Messages /\ Tail(toRunner[r]) \in Seq(Messages)
    BY <2>1, TakeFacts
  <2>3. QED  BY <2>1, <2>2 DEF TypeOK
<1>2. m.type \notin {"registered", "offer"} => t \in Tasks
  BY <1>1, MessageFacts
<1>3. open \in [Runners -> SUBSET OfferIds] /\ running \in [Runners -> [Tasks -> TaskStatuses]]
      /\ toBroker \in [Runners -> Seq(Messages)] /\ proc \in [Runners -> Procs]
      /\ old \subseteq [runner : Runners, offer : OfferIds]
  BY DEF TypeOK
<1>4. ASSUME proc' \in [Runners -> Procs],
             open' \in [Runners -> SUBSET OfferIds],
             running' \in [Runners -> [Tasks -> TaskStatuses]],
             toBroker' \in [Runners -> Seq(Messages)], old' \subseteq old
      PROVE  TypeOK'
  <2>1. UNCHANGED <<known, offers, requests, inProgress, accept, tasks, issued, request, answer>>
    BY <1>1 DEF brokerVars, requesterVars
  <2>2. conn' = conn /\ faults' = faults
    BY <1>1
  <2> HIDE DEF m, t
  <2>3. QED  BY <1>1, <1>4, <2>1, <2>2 DEF TypeOK
<1>5. ASSUME NEW w \in Messages, Send(r, <<w>>) PROVE toBroker' \in [Runners -> Seq(Messages)]
  <2>1. toBroker[r] \o <<w>> \in Seq(Messages)
    BY <1>3
  <2>2. QED  BY <1>3, <1>5, <2>1 DEF Send
<1>6. ASSUME NEW u \in Tasks, NEW status \in TaskStatuses, SetTask(r, u, status)
      PROVE  running' \in [Runners -> [Tasks -> TaskStatuses]]
  BY <1>3, <1>6 DEF SetTask
<1>7. ASSUME Registered(r) PROVE TypeOK'
  BY <1>3, <1>4, <1>7 DEF Registered, Procs
<1>8. ASSUME OfferAccepted(r) PROVE TypeOK'
  <2>1. t \in Tasks
    BY <1>2, <1>8 DEF OfferAccepted, Arrives
  <2>2. open' = [open EXCEPT ![r] = @ \ {m.offer}] /\ old' = old /\ proc' = proc
    BY <1>8 DEF OfferAccepted
  <2>3. SetTask(r, t, "waitingForSettings") \/ running' = running
    BY <1>8 DEF OfferAccepted
  <2>4. \E w \in {"accepted", "rejected"} : Send(r, <<Message(w, t)>>)
    BY <1>8 DEF OfferAccepted
  <2>5. \A w \in {"accepted", "rejected"} : Message(w, t) \in Messages
    BY <2>1, MessageFacts DEF Message
  <2> HIDE DEF m, t
  <2>6. toBroker' \in [Runners -> Seq(Messages)]
    BY <1>5, <2>4, <2>5
  <2>7. running' \in [Runners -> [Tasks -> TaskStatuses]]
    BY <1>3, <1>6, <2>1, <2>3 DEF TaskStatuses
  <2>8. open' \in [Runners -> SUBSET OfferIds]
    BY <1>3, <2>2
  <2>9. QED  BY <1>3, <1>4, <2>2, <2>6, <2>7, <2>8
<1>9. ASSUME TaskCancelled(r) PROVE TypeOK'
  <2>1. t \in Tasks /\ proc' = proc
    BY <1>2, <1>9 DEF TaskCancelled, Arrives
  <2>2. \/ FinishTask(r, t, <<>>)
        \/ SetTask(r, t, "aborting:cancelled") /\ UNCHANGED <<old, open, toBroker>>
        \/ UNCHANGED <<old, open, running, toBroker>>
    BY <1>9 DEF TaskCancelled
  <2> HIDE DEF m, t
  <2>3. ASSUME FinishTask(r, t, <<>>) PROVE TypeOK'
    <3>1. SendOffers(r, open[r], [running[r] EXCEPT ![t] = "none"], <<>>)
      BY <2>3 DEF FinishTask
    <3>2. open[r] \in SUBSET OfferIds /\ running[r] \in [Tasks -> TaskStatuses]
      BY <1>3
    <3>3. [running[r] EXCEPT ![t] = "none"] \in [Tasks -> TaskStatuses]
      BY <3>2 DEF TaskStatuses
    <3>4. <<>> \in Seq(Messages)
      OBVIOUS
    <3>5. QED  BY <1>3, <1>4, <2>1, <3>1, <3>2, <3>3, <3>4, SendOffersTypes
  <2>4. ASSUME SetTask(r, t, "aborting:cancelled") /\ UNCHANGED <<old, open, toBroker>> PROVE TypeOK'
    BY <1>3, <1>4, <1>6, <2>1, <2>4 DEF TaskStatuses
  <2>5. QED  BY <1>3, <1>4, <2>1, <2>2, <2>3, <2>4
<1>10. ASSUME ReceivedSettings(r) PROVE TypeOK'
  <2>1. t \in Tasks /\ UNCHANGED <<old, open, toBroker, proc>>
    BY <1>2, <1>10 DEF ReceivedSettings, Arrives
  <2>2. SetTask(r, t, "running") \/ running' = running
    BY <1>10 DEF ReceivedSettings
  <2> HIDE DEF m, t
  <2>3. QED  BY <1>3, <1>4, <1>6, <2>1, <2>2 DEF TaskStatuses
<1>11. ASSUME LauncherOffers(r) PROVE TypeOK'
  <2>1. PICK o \in OfferIds : open' = [open EXCEPT ![r] = {o}] /\ Send(r, <<[type |-> "offer", offer |-> o]>>)
    BY <1>11 DEF LauncherOffers
  <2>2. proc' \in [Runners -> Procs] /\ UNCHANGED <<old, running>>
    BY <1>3, <1>11 DEF LauncherOffers, Procs
  <2>3. toBroker' \in [Runners -> Seq(Messages)]
    BY <1>5, <2>1, MessageFacts
  <2>4. QED  BY <1>3, <1>4, <2>1, <2>2, <2>3
<1>12. ASSUME LauncherDefers(r) PROVE TypeOK'
  <2>1. t \in Tasks
    BY <1>2, <1>12 DEF LauncherDefers, Arrives
  <2>2. /\ open' = [open EXCEPT ![r] = {}] /\ Send(r, <<Message("deferred", t)>>)
        /\ UNCHANGED <<old, running, proc>>
    BY <1>12 DEF LauncherDefers
  <2>3. Message("deferred", t) \in Messages
    BY <2>1, MessageFacts DEF Message
  <2> HIDE DEF m, t
  <2>4. toBroker' \in [Runners -> Seq(Messages)]
    BY <1>5, <2>2, <2>3
  <2>5. QED  BY <1>3, <1>4, <2>2, <2>4
<1>13. QED
  BY <1>7, <1>8, <1>9, <1>10, <1>11, <1>12 DEF RunnerHandles, LauncherHandles

LEMMA FinishTypes ==
  ASSUME TypeOK, NEW r \in Runners, NEW t, NEW ms \in Seq(Messages), FinishTask(r, t, ms)
  PROVE  /\ open' \in [Runners -> SUBSET OfferIds]
         /\ running' \in [Runners -> [Tasks -> TaskStatuses]]
         /\ toBroker' \in [Runners -> Seq(Messages)]
         /\ old' \in SUBSET old
<1>1. open[r] \in SUBSET OfferIds /\ running[r] \in [Tasks -> TaskStatuses]
  BY DEF TypeOK
<1>2. [running[r] EXCEPT ![t] = "none"] \in [Tasks -> TaskStatuses]
  BY <1>1 DEF TaskStatuses
<1>3. QED  BY <1>1, <1>2, SendOffersTypes DEF FinishTask

LEMMA TypeStep == TypeOK /\ IssuedInv /\ [Next]_vars => TypeOK'
<1>1. ASSUME TypeOK, UNCHANGED vars PROVE TypeOK'
  BY <1>1 DEF TypeOK, vars, stepVars, brokerVars, requesterVars, runnerVars
<1>2. ASSUME TypeOK, UNCHANGED launchers, NEW q \in Requests, StartTask(q)  PROVE TypeOK'
  <2>1. /\ request' = [request EXCEPT ![q] = "asked"]
        /\ Settle(Append(requests, q), inProgress, offers)
        /\ UNCHANGED <<known, old, tasks, answer, conn, toBroker, proc, runnerVars, faults>>
    BY <1>2 DEF StartTask
  <2>2. Append(requests, q) \in Seq(Requests) /\ inProgress \in [Requests -> BOOLEAN]
        /\ offers \in Seq(OfferType)
    BY <1>2 DEF TypeOK, OfferType
  <2>3. /\ offers' \in Seq(OfferType) /\ requests' \in Seq(Requests)
        /\ inProgress' \in [Requests -> BOOLEAN]
        /\ accept' \in [Tasks -> [st : Stages, request : Requests \cup {None},
                                  runner : Runners \cup {None}]]
        /\ issued' \in 0 .. MaxTasks
        /\ toRunner' \in [Runners -> Seq(Messages)]
    BY <1>2, <2>1, <2>2, SettleTypes
  <2>4. request' \in [Requests -> {"idle", "asked", "ready", "done"}]
    BY <1>2, <2>1 DEF TypeOK
  <2>5. QED  BY <1>2, <2>1, <2>3, <2>4 DEF TypeOK, OfferType, runnerVars
<1>3. ASSUME TypeOK, UNCHANGED launchers, NEW t \in Tasks, AcceptTimeout(t)  PROVE TypeOK'
  <2>1. /\ faults' \in {faults, faults + 1} /\ faults' <= MaxFaults /\ GiveUp(t, "late")
        /\ UNCHANGED <<known, offers, requests, tasks, issued, old, requesterVars, conn,
                       toRunner, toBroker, proc, runnerVars>>
    BY <1>3 DEF AcceptTimeout
  <2>2. faults' \in 0 .. MaxFaults
    BY <1>3, <2>1, ConstantsAssumption DEF TypeOK
  <2>3. accept' \in [Tasks -> [st : Stages, request : Requests \cup {None},
                               runner : Runners \cup {None}]]
        /\ inProgress' \in [Requests -> BOOLEAN]
    <3>1. /\ accept' = [accept EXCEPT ![t].st = "late"] /\ "late" \in Stages
          /\ inProgress' = [inProgress EXCEPT ![accept[t].request] = FALSE]
      BY <2>1 DEF GiveUp, Stages
    <3>2. accept' \in [Tasks -> [st : Stages, request : Requests \cup {None},
                                 runner : Runners \cup {None}]]
      BY <1>3, <3>1, ZenonT(30) DEF TypeOK
    <3>3. inProgress' \in [Requests -> BOOLEAN]
      BY <1>3, <3>1 DEF TypeOK
    <3>4. QED  BY <3>2, <3>3
  <2>4. QED  BY <1>3, <2>1, <2>2, <2>3 DEF TypeOK, requesterVars, runnerVars
<1>4. ASSUME TypeOK, IssuedInv, UNCHANGED launchers, NEW t \in Tasks, TaskTimeout(t)  PROVE TypeOK'
  <2>1. /\ Answered({t}, "timeout") /\ tasks' = tasks \ {t} /\ accept[t].st = "accepted"
        /\ UNCHANGED <<known, offers, requests, inProgress, accept, issued, old, conn, faults>>
        /\ \/ ForceRestart
           \/ /\ toRunner' = Sent(accept[t].runner, [type |-> "cancel", task |-> t])
              /\ UNCHANGED <<proc, open, running, toBroker>>
    BY <1>4 DEF TaskTimeout
  <2>2. request' \in [Requests -> {"idle", "asked", "ready", "done"}] /\ answer' \in [Requests -> Answers]
    BY <1>4, <2>1, AnsweredTypes DEF Answers
  <2>3. /\ proc' \in [Runners -> Procs]
        /\ open' \in [Runners -> SUBSET OfferIds]
        /\ running' \in [Runners -> [Tasks -> TaskStatuses]]
        /\ toBroker' \in [Runners -> Seq(Messages)]
        /\ toRunner' \in [Runners -> Seq(Messages)]
    <3>1. CASE ForceRestart
      BY <1>4, <3>1, RestartTypes
    <3>2. CASE /\ toRunner' = Sent(accept[t].runner, [type |-> "cancel", task |-> t])
               /\ UNCHANGED <<proc, open, running, toBroker>>
      <4>1. accept[t].runner \in Runners /\ [type |-> "cancel", task |-> t] \in Messages
        BY <1>4, <2>1, MessageFacts DEF IssuedInv
      <4>2. QED  BY <1>4, <3>2, <4>1, SentType DEF TypeOK
    <3>3. QED  BY <2>1, <3>1, <3>2
  <2>4. QED  BY <1>4, <2>1, <2>2, <2>3 DEF TypeOK
<1>5. ASSUME TypeOK, UNCHANGED launchers, NEW r \in Runners, Crash(r)  PROVE TypeOK'
  <2>1. PICK k \in 0 .. Len(toBroker[r]) : Ends(r, "dead", k)
    BY <1>5 DEF Crash
  <2>2. /\ faults < MaxFaults /\ faults' = faults + 1
        /\ toRunner' = [toRunner EXCEPT ![r] = <<>>]
        /\ UNCHANGED <<brokerVars, old, requesterVars, conn>>
    BY <1>5 DEF Crash
  <2>3. faults' \in 0 .. MaxFaults
    BY <1>5, <2>2, ConstantsAssumption DEF TypeOK
  <2>4. toRunner' \in [Runners -> Seq(Messages)]
    BY <1>5, <2>2 DEF TypeOK
  <2>5. /\ proc' \in [Runners -> Procs]
        /\ open' \in [Runners -> SUBSET OfferIds]
        /\ running' \in [Runners -> [Tasks -> TaskStatuses]]
        /\ toBroker' \in [Runners -> Seq(Messages)]
    BY <1>5, <2>1, EndsTypes DEF Procs
  <2>6. QED  BY <1>5, <2>2, <2>3, <2>4, <2>5 DEF TypeOK, brokerVars, requesterVars
<1>6. ASSUME TypeOK, UNCHANGED launchers, NEW r \in Runners, HeartbeatFails(r)  PROVE TypeOK'
  <2>1. /\ faults' \in {faults, faults + 1} /\ faults' <= MaxFaults
        /\ conn' = [conn EXCEPT ![r] = "suspect"]
        /\ ForceRestart \/ UNCHANGED <<proc, open, running, toBroker, toRunner>>
        /\ UNCHANGED <<brokerVars, old, requesterVars>>
    BY <1>6, ConstantsAssumption DEF HeartbeatFails, TypeOK
  <2>2. faults' \in 0 .. MaxFaults
    BY <1>6, <2>1, ConstantsAssumption DEF TypeOK
  <2>3. conn' \in [Runners -> {"none", "up", "suspect", "closing", "gone"}]
    BY <1>6, <2>1 DEF TypeOK
  <2>4. /\ proc' \in [Runners -> Procs]
        /\ open' \in [Runners -> SUBSET OfferIds]
        /\ running' \in [Runners -> [Tasks -> TaskStatuses]]
        /\ toBroker' \in [Runners -> Seq(Messages)]
        /\ toRunner' \in [Runners -> Seq(Messages)]
    BY <1>6, <2>1, RestartTypes DEF TypeOK
  <2>5. QED  BY <1>6, <2>1, <2>2, <2>3, <2>4 DEF TypeOK, brokerVars, requesterVars
<1>7. ASSUME TypeOK, UNCHANGED launchers, NEW r \in Runners, ConnectionCloses(r)  PROVE TypeOK'
  BY <1>7 DEF ConnectionCloses, TypeOK, brokerVars, requesterVars, runnerVars
<1>8. ASSUME TypeOK, UNCHANGED launchers, NEW r \in Runners, DeregisterRunner(r)  PROVE TypeOK'
  <2> DEFINE how == IF proc[r] \in Up THEN "dead" ELSE proc[r]
             lost == {t \in tasks : accept[t].runner = r}
             kept == {i \in DOMAIN offers : offers[i].runner # r}
  <2>1. /\ conn' = [conn EXCEPT ![r] = "gone"] /\ known' = known \ {r}
        /\ offers' = Selected(offers, kept)
        /\ tasks' = tasks \ lost /\ Answered(lost, "disconnected") /\ Ends(r, how, 0)
        /\ toRunner' = [toRunner EXCEPT ![r] = <<>>]
        /\ UNCHANGED <<requests, inProgress, accept, issued, old, faults>>
    BY <1>8 DEF DeregisterRunner
  <2>2. offers \in Seq(OfferType) /\ kept \in SUBSET DOMAIN offers
    BY <1>8 DEF TypeOK, OfferType
  <2> HIDE DEF kept, lost
  <2>3. offers' \in Seq(OfferType)
    BY <2>1, <2>2, SelectedFacts
  <2>4. request' \in [Requests -> {"idle", "asked", "ready", "done"}] /\ answer' \in [Requests -> Answers]
    BY <1>8, <2>1, AnsweredTypes DEF Answers
  <2>5. how \in Procs /\ 0 \in 0 .. Len(toBroker[r])
    BY <1>8 DEF TypeOK, Procs
  <2> HIDE DEF how
  <2>6. /\ proc' \in [Runners -> Procs]
        /\ open' \in [Runners -> SUBSET OfferIds]
        /\ running' \in [Runners -> [Tasks -> TaskStatuses]]
        /\ toBroker' \in [Runners -> Seq(Messages)]
    BY <1>8, <2>1, <2>5, EndsTypes
  <2>7. /\ toRunner' \in [Runners -> Seq(Messages)]
        /\ conn' \in [Runners -> {"none", "up", "suspect", "closing", "gone"}]
    BY <1>8, <2>1 DEF TypeOK
  <2>8. QED  BY <1>8, <2>1, <2>3, <2>4, <2>6, <2>7 DEF TypeOK, OfferType
<1>9. ASSUME TypeOK, UNCHANGED launchers, NEW r \in Runners, StartRunner(r)  PROVE TypeOK'
  BY <1>9 DEF StartRunner, TypeOK, brokerVars, requesterVars, runnerVars, Procs
<1>10. ASSUME TypeOK, UNCHANGED launchers, NEW r \in Runners, RegisterRunner(r)  PROVE TypeOK'
  <2>1. toRunner' \in [Runners -> Seq(Messages)]
    <3>1. <<[type |-> "registered"]>> \in Seq(Messages)
      BY MessageFacts
    <3>2. QED  BY <1>10, <3>1 DEF RegisterRunner, TypeOK
  <2>2. known' \subseteq Runners /\ conn' \in [Runners -> {"none", "up", "suspect", "closing", "gone"}]
    BY <1>10 DEF RegisterRunner, TypeOK
  <2>3. QED  BY <1>10, <2>1, <2>2 DEF RegisterRunner, TypeOK, requesterVars, runnerVars
<1>11. ASSUME TypeOK, UNCHANGED launchers, NEW r \in Runners, OfferTick(r)  PROVE TypeOK'
  <2>1. PICK stale \in SUBSET open[r] :
          /\ faults' = faults + Cardinality({o \in stale : Offer(r, o) \notin old})
          /\ faults' <= MaxFaults
          /\ SendOffers(r, open[r] \ stale, running[r], <<>>)
    BY <1>11 DEF OfferTick
  <2>2. open[r] \in SUBSET OfferIds /\ running[r] \in [Tasks -> TaskStatuses]
    BY <1>11 DEF TypeOK
  <2>3. Cardinality({o \in stale : Offer(r, o) \notin old}) \in Nat
    <3>1. {o \in stale : Offer(r, o) \notin old} \in SUBSET OfferIds
      BY <2>2
    <3>2. QED  BY <3>1, LoadTypes
  <2>4. faults' \in 0 .. MaxFaults
    BY <1>11, <2>1, <2>3, ConstantsAssumption DEF TypeOK
  <2>5. open[r] \ stale \in SUBSET OfferIds /\ <<>> \in Seq(Messages)
    BY <2>2
  <2>6. /\ open' \in [Runners -> SUBSET OfferIds]
        /\ running' \in [Runners -> [Tasks -> TaskStatuses]]
        /\ toBroker' \in [Runners -> Seq(Messages)]
        /\ old' \in SUBSET old
    BY <1>11, <2>1, <2>2, <2>5, SendOffersTypes
  <2>7. UNCHANGED <<brokerVars, requesterVars, conn, toRunner, proc>>
    BY <1>11 DEF OfferTick
  <2>8. QED  BY <1>11, <2>4, <2>6, <2>7 DEF TypeOK, brokerVars, requesterVars
<1>12. ASSUME TypeOK, UNCHANGED launchers, NEW r \in Runners, StopRunner(r)  PROVE TypeOK'
  <2>1. faults' \in 0 .. MaxFaults
    BY <1>12, ConstantsAssumption DEF StopRunner, TypeOK
  <2>2. /\ proc' = [proc EXCEPT ![r] = "stopping"]
        /\ UNCHANGED <<brokerVars, old, requesterVars, conn, toRunner, toBroker, runnerVars>>
    BY <1>12 DEF StopRunner
  <2>3. proc' \in [Runners -> Procs]
    BY <1>12, <2>2 DEF TypeOK, Procs
  <2>4. QED  BY <1>12, <2>1, <2>2, <2>3 DEF TypeOK, brokerVars, requesterVars, runnerVars
<1>13. ASSUME TypeOK, UNCHANGED launchers, NEW r \in Runners, Leave(r)  PROVE TypeOK'
  <2>1. /\ Ends(r, "left", Len(toBroker[r])) /\ toRunner' = [toRunner EXCEPT ![r] = <<>>]
        /\ UNCHANGED <<brokerVars, old, requesterVars, conn, faults>>
    BY <1>13 DEF Leave
  <2>2. Len(toBroker[r]) \in 0 .. Len(toBroker[r]) /\ "left" \in Procs
    BY <1>13 DEF TypeOK, Procs
  <2>3. /\ proc' \in [Runners -> Procs]
        /\ open' \in [Runners -> SUBSET OfferIds]
        /\ running' \in [Runners -> [Tasks -> TaskStatuses]]
        /\ toBroker' \in [Runners -> Seq(Messages)]
    BY <1>13, <2>1, <2>2, EndsTypes
  <2>4. toRunner' \in [Runners -> Seq(Messages)]
    BY <1>13, <2>1 DEF TypeOK
  <2>5. QED  BY <1>13, <2>1, <2>3, <2>4 DEF TypeOK, brokerVars, requesterVars
<1>14. ASSUME TypeOK, UNCHANGED launchers, NEW r \in Runners, NEW o \in OfferIds, OfferAges(r, o)
       PROVE  TypeOK'
  <2>1. old' \subseteq [runner : Runners, offer : OfferIds]
    BY <1>14 DEF OfferAges, Offer, TypeOK
  <2>2. UNCHANGED <<brokerVars, requesterVars, conn, toRunner, toBroker, proc, runnerVars, faults>>
    BY <1>14 DEF OfferAges
  <2>3. QED  BY <1>14, <2>1, <2>2 DEF TypeOK, brokerVars, requesterVars, runnerVars
<1>15. ASSUME TypeOK, UNCHANGED launchers, NEW r \in Runners, NEW t \in Tasks,
              NEW ms \in Seq(Messages), FinishTask(r, t, ms),
              UNCHANGED <<brokerVars, requesterVars, conn, toRunner, proc, faults>>
       PROVE  TypeOK'
  <2>1. /\ open' \in [Runners -> SUBSET OfferIds]
        /\ running' \in [Runners -> [Tasks -> TaskStatuses]]
        /\ toBroker' \in [Runners -> Seq(Messages)]
        /\ old' \in SUBSET old
    BY <1>15, FinishTypes
  <2>2. QED  BY <1>15, <2>1 DEF TypeOK, brokerVars, requesterVars
<1>16. ASSUME NEW t \in Tasks, NEW how \in {"done", "error"}
       PROVE  <<Message(how, t)>> \in Seq(Messages) /\ <<>> \in Seq(Messages)
  <2>1. Message(how, t) \in Messages
    BY MessageFacts DEF Message
  <2>2. QED  BY <2>1
<1>17. ASSUME TypeOK, UNCHANGED launchers, NEW r \in Runners, NEW t \in Tasks, TaskTimedOut(r, t)
       PROVE  TypeOK'
  <2>1. UNCHANGED <<brokerVars, requesterVars, conn, toRunner, proc, faults>>
    BY <1>17 DEF TaskTimedOut
  <2>2. \/ FinishTask(r, t, <<Message("error", t)>>)
        \/ SetTask(r, t, "aborting:timeout") /\ UNCHANGED <<old, open, toBroker>>
    BY <1>17 DEF TaskTimedOut
  <2>3. CASE SetTask(r, t, "aborting:timeout") /\ UNCHANGED <<old, open, toBroker>>
    <3>1. running' \in [Runners -> [Tasks -> TaskStatuses]]
      BY <1>17, <2>3 DEF SetTask, TypeOK, TaskStatuses
    <3>2. QED  BY <1>17, <2>1, <2>3, <3>1 DEF TypeOK, brokerVars, requesterVars
  <2>4. QED  BY <1>15, <1>16, <1>17, <2>1, <2>2, <2>3
<1>18. ASSUME TypeOK, UNCHANGED launchers, NEW r \in Runners, NEW t \in Tasks,
              NEW how \in {"done", "error"}, TaskExecutionEnds(r, t, how)
       PROVE  TypeOK'
  <2>1. UNCHANGED <<brokerVars, requesterVars, conn, toRunner, proc, faults>>
    BY <1>18 DEF TaskExecutionEnds
  <2>2. FinishTask(r, t, <<>>) \/ FinishTask(r, t, <<Message(how, t)>>)
    BY <1>18 DEF TaskExecutionEnds
  <2>3. QED  BY <1>15, <1>16, <1>18, <2>1, <2>2
<1>19. QED
  BY <1>1, <1>2, <1>3, <1>4, <1>5, <1>6, <1>7, <1>8, <1>9, <1>10, <1>11, <1>12, <1>13, <1>14,
     <1>17, <1>18, BrokerHandlesTypes, RunnerHandlesTypes DEF Next, Step

-----------------------------------------------------------------------------
(* Matching: requests, acceptances and tasks *)

RequestsInv == \A q \in Requests :
  /\ request[q] = "idle" => ~inProgress[q] /\ ~Contains(requests, q)
  /\ Contains(requests, q) /\ request[q] # "asked" => inProgress[q]

WaitingInv == \A t \in Tasks : accept[t].st = "waiting" =>
  /\ request[accept[t].request] = "asked" /\ inProgress[accept[t].request]
  /\ \A u \in Tasks :
       accept[u].st = "waiting" /\ accept[u].request = accept[t].request => u = t

TasksInv == \A t \in tasks : accept[t].st = "accepted" /\ request[accept[t].request] = "ready"

MatchInv == IssuedInv /\ RequestsInv /\ WaitingInv /\ TasksInv
            /\ ClaimedIsOffered /\ TasksAreAwaited /\ AcceptedIsWanted

(* Requests of New enter the list, and the list is settled. *)
LEMMA MatchSettles ==
  ASSUME TypeOK, MatchInv, NEW New \in SUBSET Requests, NEW reqs \in Seq(Requests),
         NEW offs \in Seq(OfferType), Settle(reqs, inProgress, offs),
         \A q \in Requests : Contains(reqs, q) <=> Contains(requests, q) \/ q \in New,
         \A q \in New : request[q] = "idle",
         request' = [q \in Requests |-> IF q \in New THEN "asked" ELSE request[q]],
         tasks' = tasks
  PROVE  MatchInv'
<1>1. PICK n \in Nat, free \in Seq(Requests), live \in Seq(OfferType),
             sent \in [Runners -> Seq(Messages)] :
        Matched(n, free, live, sent, reqs, inProgress)
  BY SettleFacts
<1> DEFINE made == issued + 1 .. issued + n
<1>2. issued \in Nat /\ MaxTasks \in Nat /\ issued' = issued + n /\ issued + n <= MaxTasks
      /\ requests' = reqs
  BY <1>1, ConstantsAssumption DEF TypeOK, Matched
<1>3. \A t \in made : /\ t \in Tasks /\ t - issued \in 1 .. n /\ accept[t].st = "none"
                      /\ accept'[t].st = "waiting"
                      /\ accept'[t].request = free[t - issued]
                      /\ accept'[t].runner \in Runners
  <2> SUFFICES ASSUME NEW t \in made
               PROVE  /\ t \in Tasks /\ t - issued \in 1 .. n /\ accept[t].st = "none"
                      /\ accept'[t].st = "waiting"
                      /\ accept'[t].request = free[t - issued]
                      /\ accept'[t].runner \in Runners
    OBVIOUS
  <2>1. t \in Tasks /\ t - issued \in 1 .. n /\ t > issued
    BY <1>2 DEF Tasks
  <2>2. live[t - issued].runner \in Runners
    BY <1>1, <2>1 DEF Matched, OfferType
  <2>3. accept'[t] = [st |-> "waiting", request |-> free[t - issued],
                      runner |-> live[t - issued].runner]
    BY <1>1, <2>1 DEF Matched
  <2>4. QED  BY <2>1, <2>2, <2>3 DEF MatchInv, IssuedInv
<1>4. \A t \in Tasks : t \notin made => accept'[t] = accept[t]
  BY <1>1 DEF Matched
<1>5. /\ \A k \in 1 .. n : /\ free[k] \in Requests /\ Contains(reqs, free[k]) /\ ~inProgress[free[k]]
                           /\ issued + k \in made
      /\ \A k, l \in 1 .. n : free[k] = free[l] => k = l
      /\ inProgress' = [q \in Requests |-> inProgress[q] \/ \E i \in 1 .. n : free[i] = q]
  BY <1>1, <1>2 DEF Matched
<1>6. \A t, u \in made : free[t - issued] = free[u - issued] => t = u
  <2> SUFFICES ASSUME NEW t \in made, NEW u \in made, free[t - issued] = free[u - issued] PROVE t = u
    OBVIOUS
  <2>1. t - issued = u - issued
    BY <1>3, <1>5
  <2>2. QED  BY <1>2, <2>1
<1>7. \A k \in 1 .. n : request'[free[k]] = "asked"
  BY <1>5 DEF MatchInv, RequestsInv
<1>8. \A q \in Requests : /\ request'[q] = (IF q \in New THEN "asked" ELSE request[q])
                          /\ inProgress'[q] <=> (inProgress[q] \/ \E i \in 1 .. n : free[i] = q)
  BY <1>5
<1> HIDE DEF made
<1>9. \A t \in Tasks : accept[t].st # "none" => t \notin made
  BY <1>3
<1>10. IssuedInv'
  <2> SUFFICES ASSUME NEW t \in Tasks
               PROVE  /\ t > issued' => accept'[t].st = "none"
                      /\ accept'[t].st # "none" =>
                           accept'[t].request \in Requests /\ accept'[t].runner \in Runners
    BY DEF IssuedInv
  <2>1. CASE t \in made
    <3>1. ~(t > issued + n)
      BY <1>2, <2>1 DEF made
    <3>2. QED  BY <1>2, <1>3, <1>5, <2>1, <3>1
  <2>2. CASE t \notin made
    <3>1. t > issued + n => t > issued
      BY <1>2 DEF Tasks
    <3>2. QED  BY <1>2, <1>4, <2>2, <3>1 DEF MatchInv, IssuedInv
  <2>3. QED  BY <2>1, <2>2
<1>11. RequestsInv'
  <2> SUFFICES ASSUME NEW q \in Requests
               PROVE  /\ request'[q] = "idle" => ~inProgress'[q] /\ ~Contains(requests', q)
                      /\ Contains(requests', q) /\ request'[q] # "asked" => inProgress'[q]
    BY DEF RequestsInv
  <2>1. QED  BY <1>2, <1>7, <1>8 DEF MatchInv, RequestsInv
<1>12. \A t \in Tasks : t \notin made /\ accept[t].st = "waiting" =>
         /\ accept[t].request \in Requests
         /\ request'[accept[t].request] = "asked"
         /\ inProgress[accept[t].request]
  BY <1>8 DEF MatchInv, WaitingInv, IssuedInv
<1>13. WaitingInv'
  <2> SUFFICES ASSUME NEW t \in Tasks, accept'[t].st = "waiting"
               PROVE  /\ request'[accept'[t].request] = "asked" /\ inProgress'[accept'[t].request]
                      /\ \A u \in Tasks :
                           accept'[u].st = "waiting" /\ accept'[u].request = accept'[t].request => u = t
    BY DEF WaitingInv
  <2>1. CASE t \in made
    <3>1. /\ accept'[t].request = free[t - issued] /\ t - issued \in 1 .. n
      BY <1>3, <2>1
    <3>2. /\ accept'[t].request \in Requests /\ request'[accept'[t].request] = "asked"
          /\ inProgress'[accept'[t].request] /\ ~inProgress[accept'[t].request]
      <4>1. /\ free[t - issued] \in Requests /\ ~inProgress[free[t - issued]]
            /\ request'[free[t - issued]] = "asked"
        BY <1>5, <1>7, <3>1
      <4>2. inProgress'[free[t - issued]]
        BY <1>8, <3>1, <4>1
      <4>3. QED  BY <3>1, <4>1, <4>2
    <3>3. ASSUME NEW u \in Tasks, accept'[u].st = "waiting", accept'[u].request = accept'[t].request
          PROVE  u = t
      <4>1. u \in made
        BY <1>4, <1>12, <3>2, <3>3
      <4>2. QED  BY <1>3, <1>6, <2>1, <3>1, <3>3, <4>1
    <3>4. QED  BY <3>2, <3>3
  <2>2. CASE t \notin made
    <3>1. /\ accept'[t] = accept[t] /\ accept[t].request \in Requests
          /\ request'[accept[t].request] = "asked"
          /\ inProgress[accept[t].request] /\ inProgress'[accept[t].request]
      BY <1>4, <1>8, <1>12, <2>2
    <3>2. ASSUME NEW u \in Tasks, accept'[u].st = "waiting", accept'[u].request = accept[t].request
          PROVE  u = t
      <4>1. u \notin made
        <5>1. \A v \in made : accept'[v].request = free[v - issued] /\ v - issued \in 1 .. n
          BY <1>3
        <5>2. \A v \in made : ~inProgress[accept'[v].request]
          BY <1>5, <5>1
        <5>3. QED  BY <3>1, <3>2, <5>2
      <4>2. QED  BY <1>4, <3>1, <3>2, <4>1 DEF MatchInv, WaitingInv
    <3>3. QED  BY <3>1, <3>2
  <2>3. QED  BY <2>1, <2>2
<1>14. \A t \in tasks : t \in Tasks /\ accept'[t] = accept[t] /\ accept[t].request \in Requests
                        /\ request'[accept[t].request] = request[accept[t].request]
  <2> SUFFICES ASSUME NEW t \in tasks
               PROVE  t \in Tasks /\ accept'[t] = accept[t] /\ accept[t].request \in Requests
                      /\ request'[accept[t].request] = request[accept[t].request]
    OBVIOUS
  <2>1. /\ t \in Tasks /\ accept[t].st = "accepted" /\ request[accept[t].request] = "ready"
        /\ accept[t].request \in Requests
    BY DEF TypeOK, MatchInv, TasksInv, IssuedInv
  <2>2. QED  BY <1>4, <1>8, <1>9, <2>1
<1>15. TasksInv'
  BY <1>14 DEF MatchInv, TasksInv
<1>16. ClaimedIsOffered'
  <2> SUFFICES ASSUME NEW q \in Requests, request'[q] = "asked"
               PROVE  /\ Contains(requests', q)
                      /\ inProgress'[q] <=>
                           \E t \in Tasks : accept'[t].st = "waiting" /\ accept'[t].request = q
    BY DEF ClaimedIsOffered
  <2>1. Contains(requests', q)
    BY <1>2, <1>8 DEF MatchInv, ClaimedIsOffered
  <2>2. ASSUME inProgress[q]
        PROVE  \E t \in Tasks : accept'[t].st = "waiting" /\ accept'[t].request = q
    <3>1. PICK t \in Tasks : accept[t].st = "waiting" /\ accept[t].request = q
      BY <1>8, <2>2 DEF MatchInv, RequestsInv, ClaimedIsOffered
    <3>2. QED  BY <1>4, <1>9, <3>1
  <2>3. ASSUME NEW i \in 1 .. n, free[i] = q
        PROVE  \E t \in Tasks : accept'[t].st = "waiting" /\ accept'[t].request = q
    <3>1. issued + i \in made
      BY <1>5
    <3>2. i \in Int /\ issued \in Int
      BY <1>2
    <3>3. (issued + i) - issued = i
      BY <3>2
    <3>4. QED  BY <1>3, <2>3, <3>1, <3>3
  <2>4. ASSUME NEW t \in Tasks, accept'[t].st = "waiting", accept'[t].request = q PROVE inProgress'[q]
    BY <2>4, <1>13 DEF WaitingInv
  <2>5. QED  BY <1>8, <2>1, <2>2, <2>3, <2>4
<1>17. TasksAreAwaited'
  <2>1. \A q \in Requests : request'[q] = "ready" <=> request[q] = "ready"
    BY <1>8
  <2>2. {accept'[t].request : t \in tasks'} = {accept[t].request : t \in tasks}
    <3>1. tasks' = tasks /\ \A t \in tasks : accept'[t].request = accept[t].request
      BY <1>14
    <3>2. QED  BY <3>1
  <2>3. \A t, u \in tasks' : accept'[t].request = accept'[u].request => t = u
    BY <1>14 DEF MatchInv, TasksAreAwaited
  <2>4. QED  BY <2>1, <2>2, <2>3 DEF MatchInv, TasksAreAwaited
<1>18. AcceptedIsWanted'
  BY <1>3, <1>4 DEF MatchInv, AcceptedIsWanted
<1>19. QED  BY <1>10, <1>11, <1>13, <1>15, <1>16, <1>17, <1>18 DEF MatchInv

(* Tasks leave the broker, and their requesters get an answer. *)
LEMMA MatchAnswers ==
  ASSUME TypeOK, MatchInv, NEW S \in SUBSET tasks, NEW how, Answered(S, how), tasks' = tasks \ S,
         UNCHANGED <<requests, inProgress, accept, issued>>
  PROVE  MatchInv'
<1>1. \A t \in tasks : /\ t \in Tasks /\ accept[t].st = "accepted"
                       /\ accept[t].request \in Requests /\ request[accept[t].request] = "ready"
  BY DEF TypeOK, MatchInv, TasksInv, IssuedInv
<1> DEFINE over == {accept[t].request : t \in S}
<1>2. \A q \in Requests : request'[q] = IF q \in over THEN "done" ELSE request[q]
  BY <1>1 DEF Answered
<1>3. \A q \in over : request[q] = "ready"
  BY <1>1
<1>4. \A t, u \in tasks : accept[t].request = accept[u].request => t = u
  BY DEF MatchInv, TasksAreAwaited
<1>5. \A t \in tasks' : t \in tasks /\ accept[t].request \notin over
  BY <1>4
<1> HIDE DEF over
<1>6. IssuedInv' /\ AcceptedIsWanted'
  BY DEF MatchInv, IssuedInv, AcceptedIsWanted
<1>7. RequestsInv' /\ ClaimedIsOffered'
  BY <1>2, <1>3 DEF MatchInv, RequestsInv, ClaimedIsOffered
<1>8. WaitingInv'
  BY <1>2, <1>3 DEF MatchInv, WaitingInv, IssuedInv
<1>9. TasksInv'
  BY <1>1, <1>2, <1>5 DEF MatchInv, TasksInv
<1>10. TasksAreAwaited'
  <2>1. {q \in Requests : request'[q] = "ready"} = {q \in Requests : request[q] = "ready"} \ over
    BY <1>2
  <2>2. {accept[t].request : t \in tasks'} = {accept[t].request : t \in tasks} \ over
    <3>1. ASSUME NEW t \in tasks, accept[t].request \notin over PROVE t \in tasks'
      BY <3>1 DEF over
    <3>2. QED  BY <1>5, <3>1
  <2>3. QED  BY <1>4, <1>5, <2>1, <2>2 DEF MatchInv, TasksAreAwaited
<1>11. QED  BY <1>6, <1>7, <1>8, <1>9, <1>10 DEF MatchInv

(* An acceptance that ends without a task frees its request. *)
LEMMA MatchGivesUp ==
  ASSUME TypeOK, MatchInv, NEW t \in Tasks, accept[t].st = "waiting",
         NEW st \in {"late", "over"}, GiveUp(t, st),
         requests' \in {requests, Append(requests, accept[t].request)},
         UNCHANGED <<tasks, issued, request>>
  PROVE  MatchInv'
<1> DEFINE q == accept[t].request
<1>1. /\ q \in Requests /\ request[q] = "asked"
      /\ \A u \in Tasks : accept[u].st = "waiting" /\ accept[u].request = q => u = t
  BY DEF MatchInv, IssuedInv, WaitingInv
<1>2. \A u \in Tasks : /\ accept'[u].request = accept[u].request /\ accept'[u].runner = accept[u].runner
                       /\ accept'[u].st = IF u = t THEN st ELSE accept[u].st
  BY DEF GiveUp, TypeOK
<1>3. \A p \in Requests : inProgress'[p] = IF p = q THEN FALSE ELSE inProgress[p]
  BY DEF GiveUp, TypeOK
<1>4. \A p \in Requests : /\ Contains(requests, p) => Contains(requests', p)
                          /\ Contains(requests', p) => Contains(requests, p) \/ p = q
  <2>1. requests \in Seq(Requests)
    BY DEF TypeOK
  <2> HIDE DEF q
  <2>2. CASE requests' = requests
    BY <2>2
  <2>3. CASE requests' = Append(requests, q)
    BY <1>1, <2>1, <2>3 DEF Contains
  <2>4. QED  BY <2>2, <2>3 DEF q
<1>5. \A u \in tasks : u \in Tasks /\ accept[u].st = "accepted" /\ u # t
  BY DEF TypeOK, MatchInv, TasksInv
<1> HIDE DEF q
<1>6. IssuedInv'
  BY <1>2 DEF MatchInv, IssuedInv
<1>7. RequestsInv'
  BY <1>1, <1>3, <1>4 DEF MatchInv, RequestsInv
<1>8. WaitingInv'
  <2> SUFFICES ASSUME NEW u \in Tasks, accept'[u].st = "waiting"
               PROVE  /\ request[accept[u].request] = "asked" /\ inProgress'[accept[u].request]
                      /\ \A w \in Tasks :
                           accept'[w].st = "waiting" /\ accept[w].request = accept[u].request => w = u
    BY <1>2 DEF WaitingInv
  <2>1. u # t /\ accept[u].st = "waiting" /\ accept[u].request \in Requests /\ accept[u].request # q
    BY <1>1, <1>2 DEF MatchInv, IssuedInv
  <2>2. \A w \in Tasks : accept'[w].st = "waiting" => accept[w].st = "waiting"
    BY <1>2
  <2>3. QED  BY <1>3, <2>1, <2>2 DEF MatchInv, WaitingInv
<1>9. TasksInv'
  BY <1>2, <1>5 DEF MatchInv, TasksInv
<1>10. ClaimedIsOffered'
  <2> SUFFICES ASSUME NEW p \in Requests, request[p] = "asked"
               PROVE  /\ Contains(requests', p)
                      /\ inProgress'[p] <=>
                           \E u \in Tasks : accept'[u].st = "waiting" /\ accept'[u].request = p
    BY DEF ClaimedIsOffered
  <2>1. Contains(requests', p)
    BY <1>4 DEF MatchInv, ClaimedIsOffered
  <2>2. CASE p = q
    <3>1. ~inProgress'[p]
      BY <1>3, <2>2
    <3>2. \A u \in Tasks : ~(accept'[u].st = "waiting" /\ accept'[u].request = p)
      BY <1>1, <1>2, <2>2
    <3>3. QED  BY <2>1, <3>1, <3>2
  <2>3. CASE p # q
    <3>1. inProgress'[p] <=> inProgress[p]
      BY <1>3, <2>3
    <3>2. \A u \in Tasks : (accept'[u].st = "waiting" /\ accept'[u].request = p)
                           <=> (accept[u].st = "waiting" /\ accept[u].request = p)
      <4>1. st # "waiting" /\ accept[t].request # p
        BY <2>3 DEF q
      <4>2. QED  BY <1>2, <4>1
    <3>3. inProgress[p] <=> \E u \in Tasks : accept[u].st = "waiting" /\ accept[u].request = p
      BY DEF MatchInv, ClaimedIsOffered
    <3>4. QED  BY <2>1, <3>1, <3>2, <3>3
  <2>4. QED  BY <2>2, <2>3
<1>11. TasksAreAwaited'
  <2>1. \A u \in tasks : accept'[u].request = accept[u].request
    BY <1>2, <1>5
  <2>2. {accept'[u].request : u \in tasks} = {accept[u].request : u \in tasks}
    BY <2>1
  <2>3. QED  BY <2>1, <2>2 DEF MatchInv, TasksAreAwaited
<1>12. AcceptedIsWanted'
  BY <1>2 DEF MatchInv, AcceptedIsWanted
<1>13. QED  BY <1>6, <1>7, <1>8, <1>9, <1>10, <1>11, <1>12 DEF MatchInv

(* A runner accepts in time: its request is in the list and still wanted. *)
LEMMA MatchAccepts ==
  ASSUME TypeOK, MatchInv, NEW r \in Runners, NEW t \in Tasks, accept[t].st = "waiting",
         TaskReady(r, t), issued' = issued
  PROVE  /\ MatchInv'
         /\ tasks' = tasks \cup {t} /\ accept' = [accept EXCEPT ![t].st = "accepted"]
         /\ toRunner' = Sent(r, [type |-> "settings", task |-> t])
<1> DEFINE q == accept[t].request
<1>1. /\ q \in Requests /\ request[q] = "asked" /\ inProgress[q] /\ Contains(requests, q)
      /\ \A u \in Tasks : accept[u].st = "waiting" /\ accept[u].request = q => u = t
  BY DEF MatchInv, IssuedInv, WaitingInv, ClaimedIsOffered
<1>2. /\ requests' = Without(requests, q)
      /\ tasks' = tasks \cup {t} /\ accept' = [accept EXCEPT ![t].st = "accepted"]
      /\ request' = [request EXCEPT ![q] = "ready"]
      /\ toRunner' = Sent(r, [type |-> "settings", task |-> t])
      /\ inProgress' = inProgress
  BY <1>1 DEF TaskReady
<1>3. \A p \in Requests : /\ p # q => (Contains(requests', p) <=> Contains(requests, p))
                          /\ Contains(requests', p) => Contains(requests, p)
  <2>1. requests \in Seq(Requests)
    BY DEF TypeOK
  <2> HIDE DEF q
  <2>2. QED  BY <1>1, <1>2, <2>1, WithoutFacts
<1>4. \A u \in Tasks : /\ accept'[u].request = accept[u].request /\ accept'[u].runner = accept[u].runner
                       /\ accept'[u].st = IF u = t THEN "accepted" ELSE accept[u].st
  BY <1>2 DEF TypeOK
<1>5. \A p \in Requests : request'[p] = IF p = q THEN "ready" ELSE request[p]
  BY <1>2 DEF TypeOK
<1>6. \A u \in tasks : /\ u \in Tasks /\ accept[u].st = "accepted" /\ u # t
                       /\ accept[u].request \in Requests /\ request[accept[u].request] = "ready"
                       /\ accept[u].request # q
  BY <1>1 DEF TypeOK, MatchInv, TasksInv, IssuedInv
<1>7. accept[t].request = q
  OBVIOUS
<1> HIDE DEF q
<1>8. IssuedInv' /\ AcceptedIsWanted'
  BY <1>4 DEF MatchInv, IssuedInv, AcceptedIsWanted
<1>9. RequestsInv'
  BY <1>1, <1>2, <1>3, <1>5 DEF MatchInv, RequestsInv
<1>10. WaitingInv'
  <2> SUFFICES ASSUME NEW u \in Tasks, accept'[u].st = "waiting"
               PROVE  /\ request'[accept[u].request] = "asked" /\ inProgress[accept[u].request]
                      /\ \A w \in Tasks :
                           accept'[w].st = "waiting" /\ accept[w].request = accept[u].request => w = u
    BY <1>2, <1>4 DEF WaitingInv
  <2>1. u # t /\ accept[u].st = "waiting" /\ accept[u].request \in Requests /\ accept[u].request # q
    BY <1>1, <1>4 DEF MatchInv, IssuedInv
  <2>2. \A w \in Tasks : accept'[w].st = "waiting" => accept[w].st = "waiting"
    BY <1>4
  <2>3. QED  BY <1>5, <2>1, <2>2 DEF MatchInv, WaitingInv
<1>11. TasksInv'
  BY <1>1, <1>2, <1>4, <1>5, <1>6, <1>7 DEF TasksInv
<1>12. ClaimedIsOffered'
  <2> SUFFICES ASSUME NEW p \in Requests, request'[p] = "asked"
               PROVE  /\ Contains(requests', p)
                      /\ inProgress[p] <=>
                           \E u \in Tasks : accept'[u].st = "waiting" /\ accept'[u].request = p
    BY <1>2 DEF ClaimedIsOffered
  <2>1. p # q /\ request[p] = "asked"
    BY <1>5
  <2>2. Contains(requests, p)
        /\ (inProgress[p] <=> \E u \in Tasks : accept[u].st = "waiting" /\ accept[u].request = p)
    BY <2>1 DEF MatchInv, ClaimedIsOffered
  <2>3. QED  BY <1>3, <1>4, <1>7, <2>1, <2>2
<1>13. TasksAreAwaited'
  <2>1. {accept'[u].request : u \in tasks'} = {accept[u].request : u \in tasks} \cup {q}
    <3>1. \A u \in tasks' : u = t \/ u \in tasks
      BY <1>2
    <3>2. \A u \in tasks' : accept'[u].request = accept[u].request
      BY <1>4, <1>6, <3>1
    <3>3. t \in tasks' /\ \A u \in tasks : u \in tasks'
      BY <1>2
    <3>4. QED  BY <1>7, <3>1, <3>2, <3>3
  <2>2. {p \in Requests : request'[p] = "ready"} = {p \in Requests : request[p] = "ready"} \cup {q}
    BY <1>1, <1>5
  <2>3. \A u, w \in tasks' : accept'[u].request = accept'[w].request => u = w
    BY <1>2, <1>4, <1>6, <1>7 DEF MatchInv, TasksAreAwaited
  <2>4. QED  BY <2>1, <2>2, <2>3 DEF MatchInv, TasksAreAwaited
<1>14. QED  BY <1>2, <1>8, <1>9, <1>10, <1>11, <1>12, <1>13 DEF MatchInv

(* Only the stage of an acceptance that has no more say changes. *)
LEMMA MatchForgets ==
  ASSUME TypeOK, MatchInv, NEW t \in Tasks, accept[t].st # "waiting",
         accept' \in {accept, IF accept[t].st = "late" THEN [accept EXCEPT ![t].st = "over"] ELSE accept},
         UNCHANGED <<requests, inProgress, tasks, issued, request>>
  PROVE  MatchInv'
<1>1. \A u \in Tasks : /\ accept'[u].request = accept[u].request /\ accept'[u].runner = accept[u].runner
                       /\ accept'[u].st = accept[u].st \/ (accept[u].st = "late" /\ accept'[u].st = "over")
  <2>1. CASE accept' = accept
    BY <2>1
  <2>2. CASE accept[t].st = "late" /\ accept' = [accept EXCEPT ![t].st = "over"]
    BY <2>2 DEF TypeOK
  <2>3. QED  BY <2>1, <2>2
<1>2. \A u \in tasks : u \in Tasks /\ accept[u].st = "accepted"
  BY DEF TypeOK, MatchInv, TasksInv
<1>3. IssuedInv' /\ AcceptedIsWanted' /\ RequestsInv'
  BY <1>1 DEF MatchInv, IssuedInv, AcceptedIsWanted, RequestsInv
<1>4. \A u \in Tasks : accept'[u].st = "waiting" <=> accept[u].st = "waiting"
  BY <1>1
<1>5. WaitingInv' /\ ClaimedIsOffered'
  BY <1>1, <1>4 DEF MatchInv, WaitingInv, ClaimedIsOffered
<1>6. TasksInv'
  BY <1>1, <1>2 DEF MatchInv, TasksInv
<1>7. TasksAreAwaited'
  <2>1. {accept'[u].request : u \in tasks} = {accept[u].request : u \in tasks}
    BY <1>1, <1>2
  <2>2. QED  BY <1>1, <1>2, <2>1 DEF MatchInv, TasksAreAwaited
<1>8. QED  BY <1>3, <1>5, <1>6, <1>7 DEF MatchInv

LEMMA MatchUnchanged ==
  ASSUME MatchInv, UNCHANGED <<requests, inProgress, accept, tasks, issued, request>>
  PROVE  MatchInv'
BY DEF MatchInv, IssuedInv, RequestsInv, WaitingInv, TasksInv, ClaimedIsOffered,
   TasksAreAwaited, AcceptedIsWanted

LEMMA MatchStep == TypeOK /\ MatchInv /\ [Next]_vars => MatchInv'
<1> SUFFICES ASSUME TypeOK, MatchInv, [Next]_vars PROVE MatchInv'
  OBVIOUS
<1>1. ASSUME UNCHANGED brokerVars, UNCHANGED requesterVars PROVE MatchInv'
  BY <1>1, MatchUnchanged DEF brokerVars, requesterVars
<1>2. ASSUME NEW q \in Requests, StartTask(q) PROVE MatchInv'
  <2>1. /\ request[q] = "idle" /\ request' = [request EXCEPT ![q] = "asked"] /\ tasks' = tasks
        /\ Settle(Append(requests, q), inProgress, offers)
    BY <1>2 DEF StartTask
  <2>2. requests \in Seq(Requests) /\ offers \in Seq(OfferType)
    BY DEF TypeOK, OfferType
  <2>3. Append(requests, q) \in Seq(Requests)
    BY <2>2
  <2>4. \A p \in Requests : Contains(Append(requests, q), p) <=> Contains(requests, p) \/ p \in {q}
    BY <2>2 DEF Contains
  <2>5. request' = [p \in Requests |-> IF p \in {q} THEN "asked" ELSE request[p]]
    BY <2>1 DEF TypeOK
  <2>6. {q} \in SUBSET Requests /\ \A p \in {q} : request[p] = "idle"
    BY <2>1
  <2> DEFINE reqs == Append(requests, q)
             New == {q}
  <2>7. \A p \in Requests : Contains(reqs, p) <=> Contains(requests, p) \/ p \in New
    BY <2>4
  <2>8. Settle(reqs, inProgress, offers) /\ tasks' = tasks /\ reqs \in Seq(Requests)
        /\ New \in SUBSET Requests /\ (\A p \in New : request[p] = "idle")
        /\ request' = [p \in Requests |-> IF p \in New THEN "asked" ELSE request[p]]
    BY <2>1, <2>3, <2>5, <2>6
  <2> HIDE DEF reqs, New
  <2>9. QED  BY <2>2, <2>7, <2>8, MatchSettles
<1>3. ASSUME NEW t \in Tasks, AcceptTimeout(t) PROVE MatchInv'
  BY <1>3, MatchGivesUp DEF AcceptTimeout, requesterVars
<1>4. ASSUME NEW t \in Tasks, TaskTimeout(t) PROVE MatchInv'
  BY <1>4, MatchAnswers DEF TaskTimeout
<1>5. ASSUME NEW r \in Runners, TaskOffered(r) PROVE MatchInv'
  <2> DEFINE m == Head(toBroker[r])
  <2>1. /\ Settle(requests, inProgress, Append(offers, Offer(r, m.offer)))
        /\ UNCHANGED <<tasks, request>> /\ HeadIs(r, "offer") /\ Received(r)
    BY <1>5 DEF TaskOffered, requesterVars
  <2>2. m.offer \in OfferIds
    BY <2>1, ReceivedTypes, MessageFacts DEF HeadIs
  <2>3. Append(offers, Offer(r, m.offer)) \in Seq(OfferType) /\ requests \in Seq(Requests)
    BY <2>2 DEF TypeOK, OfferType, Offer
  <2>4. /\ \A p \in Requests : Contains(requests, p) <=> Contains(requests, p) \/ p \in {}
        /\ request' = [p \in Requests |-> IF p \in {} THEN "asked" ELSE request[p]]
    BY <2>1 DEF TypeOK
  <2> DEFINE offs == Append(offers, Offer(r, m.offer))
             New == {}
  <2>5. Settle(requests, inProgress, offs) /\ offs \in Seq(OfferType) /\ requests \in Seq(Requests)
        /\ tasks' = tasks /\ New \in SUBSET Requests /\ (\A p \in New : request[p] = "idle")
        /\ (\A p \in Requests : Contains(requests, p) <=> Contains(requests, p) \/ p \in New)
        /\ request' = [p \in Requests |-> IF p \in New THEN "asked" ELSE request[p]]
    BY <2>1, <2>3, <2>4
  <2> HIDE DEF m, offs, New
  <2>6. QED  BY <2>5, MatchSettles
<1>6. ASSUME NEW r \in Runners, HandleRunnerAccept(r) \/ HandleRunnerReject(r) PROVE MatchInv'
  <2> DEFINE t == Head(toBroker[r]).task
  <2>1. t \in Tasks
    <3>1. /\ Received(r)
          /\ Head(toBroker[r]).type \notin {"registered", "offer"}
      BY <1>6 DEF HandleRunnerAccept, HandleRunnerReject, HeadIs
    <3>2. QED  BY <3>1, ReceivedTypes, MessageFacts
  <2>2. CASE HandleRunnerAccept(r)
    <3>1. CASE accept[t].st = "waiting"
      <4>1. TaskReady(r, t) /\ issued' = issued
        BY <2>2, <3>1 DEF HandleRunnerAccept
      <4> HIDE DEF t
      <4>2. QED  BY <2>1, <3>1, <4>1, MatchAccepts
    <3>2. CASE accept[t].st # "waiting"
      <4>1. /\ accept' = IF accept[t].st = "late" THEN [accept EXCEPT ![t].st = "over"] ELSE accept
            /\ UNCHANGED <<requests, inProgress, tasks, issued, request>>
        BY <2>2, <3>2 DEF HandleRunnerAccept, requesterVars
      <4> HIDE DEF t
      <4>2. QED  BY <2>1, <3>2, <4>1, MatchForgets
    <3>3. QED  BY <3>1, <3>2
  <2>3. CASE HandleRunnerReject(r)
    <3>1. CASE accept[t].st = "waiting"
      <4>1. /\ GiveUp(t, "over") /\ UNCHANGED <<tasks, issued, request>>
            /\ requests' \in {requests, Append(requests, accept[t].request)}
        BY <2>3, <3>1 DEF HandleRunnerReject, requesterVars
      <4> HIDE DEF t
      <4>2. QED  BY <2>1, <3>1, <4>1, MatchGivesUp
    <3>2. CASE accept[t].st # "waiting"
      <4>1. /\ accept' = IF accept[t].st = "late" THEN [accept EXCEPT ![t].st = "over"] ELSE accept
            /\ UNCHANGED <<requests, inProgress, tasks, issued, request>>
        BY <2>3, <3>2 DEF HandleRunnerReject, requesterVars
      <4> HIDE DEF t
      <4>2. QED  BY <2>1, <3>2, <4>1, MatchForgets
    <3>3. QED  BY <3>1, <3>2
  <2>4. QED  BY <1>6, <2>2, <2>3
<1>7. ASSUME NEW r \in Runners, TaskDone(r) PROVE MatchInv'
  <2> DEFINE t == Head(toBroker[r]).task
  <2>1. /\ Answered(tasks \cap {t}, Head(toBroker[r]).type) /\ tasks' = tasks \ {t}
        /\ UNCHANGED <<requests, inProgress, accept, issued>>
    BY <1>7 DEF TaskDone
  <2> HIDE DEF t
  <2>2. tasks \cap {t} \in SUBSET tasks /\ tasks \ {t} = tasks \ (tasks \cap {t})
    OBVIOUS
  <2>3. QED  BY <2>1, <2>2, MatchAnswers
<1>8. ASSUME NEW r \in Runners, DeregisterRunner(r) PROVE MatchInv'
  <2> DEFINE lost == {t \in tasks : accept[t].runner = r}
  <2>1. /\ Answered(lost, "disconnected") /\ tasks' = tasks \ lost
        /\ UNCHANGED <<requests, inProgress, accept, issued>>
    BY <1>8 DEF DeregisterRunner
  <2>2. lost \in SUBSET tasks
    OBVIOUS
  <2> HIDE DEF lost
  <2>3. QED  BY <2>1, <2>2, MatchAnswers
<1>9. ASSUME NEW r \in Runners, RegisterRunner(r) PROVE MatchInv'
  BY <1>9, MatchUnchanged DEF RegisterRunner, requesterVars
<1>10. ASSUME NEW r \in Runners,
              \/ RunnerHandles(r) \/ LauncherHandles(r) \/ Crash(r) \/ HeartbeatFails(r)
              \/ ConnectionCloses(r) \/ StartRunner(r) \/ OfferTick(r) \/ StopRunner(r) \/ Leave(r)
              \/ \E o \in OfferIds : OfferAges(r, o)
              \/ \E t \in Tasks : \/ TaskTimedOut(r, t)
                                  \/ \E how \in {"done", "error"} : TaskExecutionEnds(r, t, how)
       PROVE  UNCHANGED brokerVars /\ UNCHANGED requesterVars
  BY <1>10 DEF RunnerHandles, LauncherHandles, Registered, OfferAccepted, TaskCancelled,
     ReceivedSettings, LauncherOffers, LauncherDefers, Arrives, Crash, HeartbeatFails,
     ConnectionCloses, StartRunner, OfferTick, StopRunner, Leave, OfferAges, TaskTimedOut,
     TaskExecutionEnds
<1>11. CASE UNCHANGED vars
  BY <1>1, <1>11 DEF vars, stepVars
<1>12. QED
  BY <1>1, <1>2, <1>3, <1>4, <1>5, <1>6, <1>7, <1>8, <1>9, <1>10, <1>11
     DEF Next, Step, BrokerHandles

-----------------------------------------------------------------------------
(* The two directions of a connection, and the tasks between them *)

(* A task that was offered to r; one that is over for the broker.           *)
Owned(t, r) == t \in Tasks /\ t <= issued /\ accept[t].runner = r
Ended(t) == accept[t].st = "accepted" /\ t \notin tasks
OwnedThen(t, r) == t \in Tasks /\ t <= issued' /\ accept'[t].runner = r
EndedThen(t) == accept'[t].st = "accepted" /\ t \notin tasks'
Result(m) == m.type \in {"done", "error"}

ToRunnerInv == \A r \in Runners : \A i \in 1 .. Len(toRunner[r]) :
  LET m == toRunner[r][i] IN
  /\ m.type \in {"accept", "settings", "cancel"} => Owned(m.task, r)
  /\ m.type = "cancel" => Ended(m.task)
  /\ m.type = "accept" =>
       /\ running[r][m.task] = "none"
       /\ \A j \in 1 .. Len(toBroker[r]) : Result(toBroker[r][j]) => toBroker[r][j].task # m.task
       /\ \A j \in 1 .. Len(toRunner[r]) :
            toRunner[r][j].type = "accept" /\ toRunner[r][j].task = m.task => j = i

ToBrokerInv == \A r \in Runners : \A i \in 1 .. Len(toBroker[r]) :
  LET m == toBroker[r][i] IN
  /\ m.type # "offer" => Owned(m.task, r)
  /\ Result(m) => \A j \in i + 1 .. Len(toBroker[r]) :
                    toBroker[r][j].type = "accepted" => toBroker[r][j].task # m.task

RunningInv == \A r \in Runners, t \in Tasks :
  /\ running[r][t] # "none" => Owned(t, r)
  /\ running[r][t] = "aborting:cancelled" => Ended(t)

(* The tasks that r has to answer for once the broker has handled the first *)
(* k messages of r: its own, and those whose acceptance is among them.      *)
Held(r, k) == {t \in Tasks :
  /\ accept[t].runner = r
  /\ \/ t \in tasks
     \/ /\ accept[t].st = "waiting"
        /\ \E i \in 1 .. k : toBroker[r][i].type = "accepted" /\ toBroker[r][i].task = t
  /\ \A i \in 1 .. k : Result(toBroker[r][i]) => toBroker[r][i].task # t}

HeldInv == \A r \in Runners :
  /\ \A k \in 0 .. Len(toBroker[r]) : Cardinality(Held(r, k)) <= MaxConcurrency
  /\ proc[r] \in Up => Held(r, Len(toBroker[r])) \subseteq RunningTasks(r)
  /\ proc[r] = "left" => Held(r, Len(toBroker[r])) = {}

LinkInv == ToRunnerInv /\ ToBrokerInv /\ RunningInv /\ HeldInv

-----------------------------------------------------------------------------
LEMMA LinkTypes ==
  ASSUME TypeOK
  PROVE  /\ issued \in Nat /\ MaxConcurrency \in Nat
         /\ \A r \in Runners : /\ toRunner[r] \in Seq(Messages) /\ Len(toRunner[r]) \in Nat
                               /\ toBroker[r] \in Seq(Messages) /\ Len(toBroker[r]) \in Nat
                               /\ running[r] \in [Tasks -> TaskStatuses]
         /\ \A t \in Tasks : t \in Nat
BY ConstantsAssumption DEF TypeOK, Tasks

LEMMA HeldShrinks ==
  ASSUME NEW X, NEW Y \in SUBSET Tasks, X \subseteq Y, Cardinality(Y) <= MaxConcurrency
  PROVE  Cardinality(X) <= MaxConcurrency
<1>1. IsFiniteSet(Tasks)
  BY ConstantsAssumption, FS_Interval DEF Tasks
<1>2. IsFiniteSet(Y)
  BY <1>1, FS_Subset
<1>3. X \in SUBSET Y
  OBVIOUS
<1>4. /\ IsFiniteSet(X) /\ Cardinality(X) <= Cardinality(Y)
      /\ Cardinality(X) \in Nat /\ Cardinality(Y) \in Nat
  BY <1>2, <1>3, FS_Subset, FS_CardinalityType
<1>5. MaxConcurrency \in Nat
  BY ConstantsAssumption
<1>6. QED  BY <1>4, <1>5

-----------------------------------------------------------------------------
(* The broker never takes back what it knows of a task.                     *)
Grows ==
  /\ issued <= issued'
  /\ \A t \in Tasks : t <= issued => accept'[t].runner = accept[t].runner /\ (Ended(t) => EndedThen(t))

(* The broker takes d messages of r. *)
Takes(r, d) ==
  /\ d <= Len(toBroker[r]) /\ Len(toBroker'[r]) = Len(toBroker[r]) - d
  /\ \A i \in 1 .. Len(toBroker[r]) - d : toBroker'[r][i] = toBroker[r][i + d]

(* The messages x may be sent to r. *)
Sendable(r, x) ==
  /\ x \in Seq(Messages)
  /\ \A j \in 1 .. Len(x) :
       LET m == x[j] IN
       \/ /\ m.type = "accept" /\ m.task \in Tasks /\ m.task > issued /\ m.task <= issued'
          /\ accept'[m.task].runner = r
       \/ m.type = "settings" /\ OwnedThen(m.task, r)
       \/ m.type = "cancel" /\ OwnedThen(m.task, r) /\ EndedThen(m.task)
  /\ \A j, k \in 1 .. Len(x) :
       x[j].type = "accept" /\ x[k].type = "accept" /\ x[j].task = x[k].task => j = k

BrokerStep ==
  /\ UNCHANGED <<proc, running>> /\ Grows
  /\ \A r \in Runners :
       \/ Takes(r, 0)
       \/ Takes(r, 1) /\ (Result(toBroker[r][1]) => toBroker[r][1].task \notin tasks')
  /\ \A t \in tasks' \ tasks :
       /\ accept[t].st = "waiting"
       /\ \E r \in Runners : /\ Takes(r, 1)
                             /\ toBroker[r][1].type = "accepted" /\ toBroker[r][1].task = t
  /\ \A t \in Tasks : accept'[t].st = "waiting" => accept[t].st = "waiting" \/ t > issued
  /\ \A r \in Runners : \E x : toRunner'[r] = toRunner[r] \o x /\ Sendable(r, x)

LEMMA OwnedGrows ==
  ASSUME TypeOK, TypeOK', Grows, NEW r \in Runners, NEW t, Owned(t, r)
  PROVE  OwnedThen(t, r) /\ (Ended(t) => EndedThen(t))
<1>1. /\ t \in Tasks /\ t <= issued /\ issued <= issued'
      /\ accept'[t].runner = r /\ (Ended(t) => EndedThen(t))
  BY DEF Owned, Grows
<1>2. t \in Nat /\ issued \in Nat /\ issued' \in Nat
  <2>1. issued' \in Nat
    BY DEF TypeOK
  <2>2. QED  BY <1>1, <2>1, LinkTypes
<1>3. t <= issued'
  BY <1>1, <1>2
<1>4. QED  BY <1>1, <1>3 DEF OwnedThen

LEMMA BrokerHeld ==
  ASSUME TypeOK, TypeOK', MatchInv, LinkInv, BrokerStep, NEW r \in Runners, NEW d \in {0, 1},
         Takes(r, d), d = 1 => (Result(toBroker[r][1]) => toBroker[r][1].task \notin tasks'),
         NEW k \in 0 .. Len(toBroker'[r])
  PROVE  /\ k + d \in 0 .. Len(toBroker[r])
         /\ Held(r, k)' \subseteq Held(r, k + d)
<1>1. /\ k \in Nat /\ Len(toBroker[r]) \in Nat /\ k + d \in 0 .. Len(toBroker[r])
      /\ \A i \in 1 .. k : i \in Nat /\ i + d \in 1 .. k + d /\ i + d \in 1 .. Len(toBroker[r])
                           /\ toBroker'[r][i] = toBroker[r][i + d]
  BY LinkTypes DEF Takes
<1>2. ASSUME NEW t \in Held(r, k)' PROVE t \in Held(r, k + d)
  <2>1. /\ t \in Tasks /\ accept'[t].runner = r
        /\ \/ t \in tasks'
           \/ /\ accept'[t].st = "waiting"
              /\ \E i \in 1 .. k : toBroker'[r][i].type = "accepted" /\ toBroker'[r][i].task = t
        /\ \A i \in 1 .. k : Result(toBroker'[r][i]) => toBroker'[r][i].task # t
    BY <1>2 DEF Held, Result
  <2>2. \A i \in 1 .. k + d : Result(toBroker[r][i]) /\ toBroker[r][i].task = t => i = 1 /\ d = 1
    <3> SUFFICES ASSUME NEW i \in 1 .. k + d, Result(toBroker[r][i]), toBroker[r][i].task = t,
                        ~(i = 1 /\ d = 1)
                 PROVE  FALSE
      OBVIOUS
    <3>1. i - d \in 1 .. k /\ (i - d) + d = i
      BY <1>1
    <3>2. toBroker'[r][i - d] = toBroker[r][i]
      BY <1>1, <3>1
    <3>3. QED  BY <2>1, <3>1, <3>2
  <2>3. CASE t \in tasks'
    <3>1. d = 1 => ~(Result(toBroker[r][1]) /\ toBroker[r][1].task = t)
      BY <2>3
    <3>2. \A i \in 1 .. k + d : Result(toBroker[r][i]) => toBroker[r][i].task # t
      BY <2>2, <3>1
    <3>3. CASE t \in tasks
      <4>1. t <= issued
        BY <2>1, <3>3, LinkTypes DEF MatchInv, TasksInv, IssuedInv
      <4>2. accept[t].runner = r
        BY <2>1, <4>1 DEF BrokerStep, Grows
      <4>3. QED  BY <2>1, <3>2, <3>3, <4>2 DEF Held
    <3>4. CASE t \notin tasks
      <4>1. PICK s \in Runners : /\ Takes(s, 1) /\ accept[t].st = "waiting"
                                 /\ toBroker[s][1].type = "accepted" /\ toBroker[s][1].task = t
        BY <2>3, <3>4 DEF BrokerStep
      <4>2. 1 \in 1 .. Len(toBroker[s])
        BY <4>1, LinkTypes DEF Takes
      <4>3. Owned(t, s)
        BY <4>1, <4>2 DEF LinkInv, ToBrokerInv
      <4>4. accept[t].runner = s /\ accept'[t].runner = s
        BY <4>3 DEF Owned, BrokerStep, Grows
      <4>5. s = r
        BY <2>1, <4>4
      <4>6. d = 1
        BY <4>1, <4>5, <1>1 DEF Takes
      <4>7. 1 \in 1 .. k + d
        BY <1>1, <4>6
      <4>8. QED  BY <2>1, <3>2, <4>1, <4>4, <4>5, <4>7 DEF Held
    <3>5. QED  BY <3>3, <3>4
  <2>4. CASE t \notin tasks'
    <3>1. PICK i \in 1 .. k : toBroker'[r][i].type = "accepted" /\ toBroker'[r][i].task = t
      BY <2>1, <2>4
    <3>2. /\ i + d \in 1 .. k + d /\ i + d \in 1 .. Len(toBroker[r])
          /\ toBroker[r][i + d].type = "accepted" /\ toBroker[r][i + d].task = t
      BY <1>1, <3>1
    <3>3. Owned(t, r)
      BY <3>2 DEF LinkInv, ToBrokerInv
    <3>4. accept[t].runner = r /\ t <= issued
      BY <3>3 DEF Owned
    <3>5. accept[t].st = "waiting"
      BY <2>1, <2>4, <3>4, LinkTypes DEF BrokerStep
    <3>6. ASSUME d = 1, Result(toBroker[r][1]), toBroker[r][1].task = t PROVE FALSE
      <4>1. 1 \in 1 .. Len(toBroker[r]) /\ i + d \in 1 + 1 .. Len(toBroker[r])
        BY <1>1, <3>2, <3>6
      <4>2. QED  BY <3>2, <3>6, <4>1 DEF LinkInv, ToBrokerInv
    <3>7. \A j \in 1 .. k + d : Result(toBroker[r][j]) => toBroker[r][j].task # t
      BY <2>2, <3>6
    <3>8. QED  BY <2>1, <3>2, <3>4, <3>5, <3>7 DEF Held
  <2>5. QED  BY <2>3, <2>4
<1>3. QED  BY <1>1, <1>2

LEMMA BrokerLink ==
  ASSUME TypeOK, TypeOK', MatchInv, LinkInv, BrokerStep
  PROVE  LinkInv'
<1>1. /\ proc' = proc /\ running' = running /\ Grows
      /\ issued \in Nat /\ issued' \in Nat /\ \A t \in Tasks : t \in Nat
      /\ \A r \in Runners : Len(toRunner[r]) \in Nat /\ Len(toBroker[r]) \in Nat
  <2>1. proc' = proc /\ running' = running /\ Grows
    BY DEF BrokerStep
  <2>2. issued' \in Nat
    BY DEF TypeOK
  <2>3. QED  BY <2>1, <2>2, LinkTypes
<1>2. ASSUME NEW r \in Runners
      PROVE  \E d \in {0, 1} :
               Takes(r, d) /\ (d = 1 => (Result(toBroker[r][1]) => toBroker[r][1].task \notin tasks'))
  BY DEF BrokerStep
<1>3. ASSUME NEW r \in Runners, NEW i \in 1 .. Len(toBroker'[r])
      PROVE  \E d \in {0, 1} : /\ Takes(r, d) /\ i + d \in 1 .. Len(toBroker[r])
                               /\ toBroker'[r][i] = toBroker[r][i + d]
  <2>1. PICK d \in {0, 1} : Takes(r, d)
    BY <1>2
  <2>2. i + d \in 1 .. Len(toBroker[r]) /\ i \in 1 .. Len(toBroker[r]) - d
    BY <1>1, <2>1 DEF Takes
  <2>3. QED  BY <2>1, <2>2 DEF Takes
<1>4. RunningInv'
  <2> SUFFICES ASSUME NEW r \in Runners, NEW t \in Tasks
               PROVE  /\ running[r][t] # "none" => OwnedThen(t, r)
                      /\ running[r][t] = "aborting:cancelled" => EndedThen(t)
    BY <1>1 DEF RunningInv, Owned, OwnedThen, Ended, EndedThen
  <2>1. QED  BY <1>1, OwnedGrows DEF LinkInv, RunningInv
<1>5. ToBrokerInv'
  <2> SUFFICES ASSUME NEW r \in Runners, NEW i \in 1 .. Len(toBroker'[r])
               PROVE  /\ toBroker'[r][i].type # "offer" => OwnedThen(toBroker'[r][i].task, r)
                      /\ Result(toBroker'[r][i]) =>
                           \A j \in i + 1 .. Len(toBroker'[r]) :
                             toBroker'[r][j].type = "accepted" =>
                               toBroker'[r][j].task # toBroker'[r][i].task
    BY DEF ToBrokerInv, Result, Owned, OwnedThen
  <2>1. PICK d \in {0, 1} : /\ Takes(r, d) /\ i + d \in 1 .. Len(toBroker[r])
                            /\ toBroker'[r][i] = toBroker[r][i + d]
    BY <1>3
  <2>2. \A j \in i + 1 .. Len(toBroker'[r]) : /\ j + d \in (i + d) + 1 .. Len(toBroker[r])
                                              /\ toBroker'[r][j] = toBroker[r][j + d]
    BY <1>1, <2>1 DEF Takes
  <2>3. toBroker[r][i + d].type # "offer" => Owned(toBroker[r][i + d].task, r)
    BY <2>1 DEF LinkInv, ToBrokerInv
  <2>4. Result(toBroker[r][i + d]) =>
          \A j \in (i + d) + 1 .. Len(toBroker[r]) :
            toBroker[r][j].type = "accepted" => toBroker[r][j].task # toBroker[r][i + d].task
    BY <2>1 DEF LinkInv, ToBrokerInv
  <2>5. QED  BY <1>1, <2>1, <2>2, <2>3, <2>4, OwnedGrows
<1>6. ToRunnerInv'
  <2> SUFFICES ASSUME NEW r \in Runners, NEW i \in 1 .. Len(toRunner'[r])
               PROVE  LET m == toRunner'[r][i] IN
                      /\ m.type \in {"accept", "settings", "cancel"} => OwnedThen(m.task, r)
                      /\ m.type = "cancel" => EndedThen(m.task)
                      /\ m.type = "accept" =>
                           /\ running[r][m.task] = "none"
                           /\ \A j \in 1 .. Len(toBroker'[r]) :
                                Result(toBroker'[r][j]) => toBroker'[r][j].task # m.task
                           /\ \A j \in 1 .. Len(toRunner'[r]) :
                                toRunner'[r][j].type = "accept" /\ toRunner'[r][j].task = m.task => j = i
    BY <1>1 DEF ToRunnerInv, Result, Owned, OwnedThen, Ended, EndedThen
  <2> DEFINE m == toRunner'[r][i]
             n == Len(toRunner[r])
  <2>1. PICK x : toRunner'[r] = toRunner[r] \o x /\ Sendable(r, x)
    BY DEF BrokerStep
  <2>2. /\ n \in Nat /\ Len(x) \in Nat /\ Len(toRunner'[r]) = n + Len(x)
        /\ \A j \in 1 .. n : toRunner'[r][j] = toRunner[r][j]
        /\ \A j \in 1 .. n + Len(x) : j > n => j - n \in 1 .. Len(x) /\ toRunner'[r][j] = x[j - n]
    <3>1. toRunner[r] \in Seq(Messages) /\ x \in Seq(Messages)
      BY <2>1, LinkTypes DEF Sendable
    <3>2. QED  BY <2>1, <3>1
  <2>3. \A j \in 1 .. n : toRunner'[r][j].type = "accept" =>
          Owned(toRunner'[r][j].task, r) /\ toRunner'[r][j].task <= issued
    <3>1. \A j \in 1 .. n : toRunner[r][j].type = "accept" => Owned(toRunner[r][j].task, r)
      BY DEF LinkInv, ToRunnerInv
    <3>2. \A j \in 1 .. n : toRunner'[r][j].type = "accept" => Owned(toRunner'[r][j].task, r)
      BY <2>2, <3>1
    <3>3. QED  BY <3>2 DEF Owned
  <2>4. \A j \in 1 .. n + Len(x) : j > n /\ toRunner'[r][j].type = "accept" =>
          /\ toRunner'[r][j].task \in Tasks /\ toRunner'[r][j].task > issued
          /\ OwnedThen(toRunner'[r][j].task, r)
    <3>1. \A k \in 1 .. Len(x) : x[k].type = "accept" =>
            x[k].task \in Tasks /\ x[k].task > issued /\ OwnedThen(x[k].task, r)
      BY <2>1 DEF Sendable, OwnedThen
    <3>2. QED  BY <2>2, <3>1
  <2>5. CASE i \in 1 .. n
    <3>1. m = toRunner[r][i]
      BY <2>2, <2>5
    <3>2. /\ m.type \in {"accept", "settings", "cancel"} => OwnedThen(m.task, r)
          /\ m.type = "cancel" => EndedThen(m.task)
      BY <1>1, <2>5, <3>1, OwnedGrows DEF LinkInv, ToRunnerInv
    <3>3. ASSUME m.type = "accept"
          PROVE  /\ running[r][m.task] = "none"
                 /\ \A j \in 1 .. Len(toBroker'[r]) :
                      Result(toBroker'[r][j]) => toBroker'[r][j].task # m.task
                 /\ \A j \in 1 .. Len(toRunner'[r]) :
                      toRunner'[r][j].type = "accept" /\ toRunner'[r][j].task = m.task => j = i
      <4>1. /\ running[r][m.task] = "none"
            /\ \A j \in 1 .. Len(toBroker[r]) : Result(toBroker[r][j]) => toBroker[r][j].task # m.task
            /\ \A j \in 1 .. n : toRunner[r][j].type = "accept" /\ toRunner[r][j].task = m.task => j = i
        BY <2>5, <3>1, <3>3 DEF LinkInv, ToRunnerInv
      <4>2. \A j \in 1 .. Len(toBroker'[r]) : Result(toBroker'[r][j]) => toBroker'[r][j].task # m.task
        <5> SUFFICES ASSUME NEW j \in 1 .. Len(toBroker'[r]), Result(toBroker'[r][j])
                     PROVE  toBroker'[r][j].task # m.task
          OBVIOUS
        <5>1. PICK d \in {0, 1} : j + d \in 1 .. Len(toBroker[r]) /\ toBroker'[r][j] = toBroker[r][j + d]
          BY <1>3
        <5>2. QED  BY <4>1, <5>1
      <4>3. m.task \in Nat /\ m.task <= issued
        BY <1>1, <2>3, <2>5, <3>3 DEF Owned
      <4>4. \A j \in 1 .. n + Len(x) :
              toRunner'[r][j].type = "accept" /\ toRunner'[r][j].task = m.task => j \in 1 .. n
        <5> SUFFICES ASSUME NEW j \in 1 .. n + Len(x), toRunner'[r][j].type = "accept",
                            toRunner'[r][j].task = m.task, ~(j \in 1 .. n)
                     PROVE  FALSE
          OBVIOUS
        <5>1. j > n
          BY <2>2
        <5>2. m.task > issued
          BY <2>4, <5>1
        <5>3. QED  BY <1>1, <4>3, <5>2
      <4>5. QED  BY <2>2, <4>1, <4>2, <4>4
    <3>4. QED  BY <3>2, <3>3
  <2>6. CASE ~(i \in 1 .. n)
    <3>1. i > n /\ i \in 1 .. n + Len(x) /\ i - n \in 1 .. Len(x) /\ m = x[i - n]
      BY <2>2, <2>6
    <3>2. /\ m.type \in {"accept", "settings", "cancel"} => OwnedThen(m.task, r)
          /\ m.type = "cancel" => EndedThen(m.task)
      BY <2>1, <2>4, <3>1 DEF Sendable
    <3>3. ASSUME m.type = "accept"
          PROVE  /\ running[r][m.task] = "none"
                 /\ \A j \in 1 .. Len(toBroker'[r]) :
                      Result(toBroker'[r][j]) => toBroker'[r][j].task # m.task
                 /\ \A j \in 1 .. Len(toRunner'[r]) :
                      toRunner'[r][j].type = "accept" /\ toRunner'[r][j].task = m.task => j = i
      <4>1. m.task \in Tasks /\ m.task \in Nat /\ m.task > issued
        BY <1>1, <2>4, <3>1, <3>3
      <4>2. ~Owned(m.task, r)
        BY <1>1, <4>1 DEF Owned
      <4>3. running[r][m.task] = "none"
        BY <4>1, <4>2 DEF LinkInv, RunningInv
      <4>4. \A j \in 1 .. Len(toBroker[r]) : Result(toBroker[r][j]) => Owned(toBroker[r][j].task, r)
        BY DEF LinkInv, ToBrokerInv, Result
      <4>5. \A j \in 1 .. Len(toBroker'[r]) : Result(toBroker'[r][j]) => toBroker'[r][j].task # m.task
        BY <1>3, <4>2, <4>4
      <4>6. \A j \in 1 .. Len(toRunner'[r]) :
              toRunner'[r][j].type = "accept" /\ toRunner'[r][j].task = m.task => j = i
        <5> SUFFICES ASSUME NEW j \in 1 .. n + Len(x), toRunner'[r][j].type = "accept",
                            toRunner'[r][j].task = m.task
                     PROVE  j = i
          BY <2>2
        <5>1. j > n
          BY <2>2, <2>3, <4>2
        <5>2. j - n \in 1 .. Len(x) /\ toRunner'[r][j] = x[j - n]
          BY <2>2, <5>1
        <5>3. j - n = i - n
          BY <2>1, <3>1, <3>3, <5>2 DEF Sendable
        <5>4. QED  BY <2>2, <5>3
      <4>7. QED  BY <4>3, <4>5, <4>6
    <3>4. QED  BY <3>2, <3>3
  <2>7. QED  BY <2>5, <2>6
<1>7. HeldInv'
  <2> SUFFICES ASSUME NEW r \in Runners
               PROVE  /\ \A k \in 0 .. Len(toBroker'[r]) : Cardinality(Held(r, k)') <= MaxConcurrency
                      /\ proc[r] \in Up => Held(r, Len(toBroker[r]))' \subseteq RunningTasks(r)
                      /\ proc[r] = "left" => Held(r, Len(toBroker[r]))' = {}
    BY <1>1 DEF HeldInv, RunningTasks
  <2>1. PICK d \in {0, 1} :
          Takes(r, d) /\ (d = 1 => (Result(toBroker[r][1]) => toBroker[r][1].task \notin tasks'))
    BY <1>2
  <2>2. \A k \in 0 .. Len(toBroker'[r]) : /\ k + d \in 0 .. Len(toBroker[r])
                                          /\ Held(r, k)' \subseteq Held(r, k + d)
    BY <2>1, BrokerHeld
  <2>3. \A k \in 0 .. Len(toBroker[r]) :
          Held(r, k) \in SUBSET Tasks /\ Cardinality(Held(r, k)) <= MaxConcurrency
    BY DEF LinkInv, HeldInv, Held
  <2>4. \A k \in 0 .. Len(toBroker'[r]) : Cardinality(Held(r, k)') <= MaxConcurrency
    BY <2>2, <2>3, HeldShrinks
  <2>5. Len(toBroker'[r]) \in 0 .. Len(toBroker'[r]) /\ Len(toBroker'[r]) + d = Len(toBroker[r])
    BY <1>1, <2>1 DEF Takes
  <2>6. Held(r, Len(toBroker[r]))' \subseteq Held(r, Len(toBroker[r]))
    BY <2>2, <2>5
  <2>7. QED  BY <2>4, <2>6 DEF LinkInv, HeldInv
<1>8. QED  BY <1>4, <1>5, <1>6, <1>7 DEF LinkInv

(* Runner r sends w and sets the statuses of its tasks, perhaps after       *)
(* taking a message.                                                        *)
RunnerStep(r, w, status) ==
  /\ UNCHANGED <<accept, tasks, issued>>
  /\ proc[r] \in Up /\ proc'[r] \in Up
  /\ \A s \in Runners \ {r} : proc'[s] = proc[s] /\ toRunner'[s] = toRunner[s]
  /\ \/ toRunner'[r] = toRunner[r]
     \/ toRunner[r] # <<>> /\ toRunner'[r] = Tail(toRunner[r])
  /\ toBroker' = [toBroker EXCEPT ![r] = @ \o w]
  /\ running' = [running EXCEPT ![r] = status]
  /\ w \in Seq(Messages) /\ status \in [Tasks -> TaskStatuses]
  /\ \A j \in 1 .. Len(w) :
       /\ w[j].type # "offer" => Owned(w[j].task, r)
       /\ Result(w[j]) => running[r][w[j].task] # "none"
       /\ w[j].type = "accepted" =>
            /\ Len(w) = 1 /\ status[w[j].task] # "none"
            /\ toRunner[r] # <<>> /\ toRunner[r][1].type = "accept" /\ toRunner[r][1].task = w[j].task
  /\ \A t \in Tasks :
       /\ status[t] # "none" /\ running[r][t] = "none" =>
            /\ toRunner[r] # <<>> /\ toRunner[r][1].type = "accept" /\ toRunner[r][1].task = t
            /\ toRunner'[r] = Tail(toRunner[r])
       /\ status[t] = "none" /\ running[r][t] # "none" =>
            Ended(t) \/ (Len(w) > 0 /\ Result(w[1]) /\ w[1].task = t)
       /\ status[t] = "aborting:cancelled" => running[r][t] = "aborting:cancelled" \/ Ended(t)

LEMMA RunnerLink ==
  ASSUME TypeOK, TypeOK', LinkInv, NEW r \in Runners, NEW w, NEW status, RunnerStep(r, w, status),
         Cardinality(RunningTasks(r)') <= MaxConcurrency
  PROVE  LinkInv'
<1> DEFINE n == Len(toBroker[r])
<1>1. /\ accept' = accept /\ tasks' = tasks /\ issued' = issued
      /\ \A s \in Runners : /\ Len(toRunner[s]) \in Nat /\ Len(toBroker[s]) \in Nat
                            /\ toRunner[s] \in Seq(Messages) /\ toBroker[s] \in Seq(Messages)
      /\ \A s \in Runners \ {r} : /\ proc'[s] = proc[s] /\ toRunner'[s] = toRunner[s]
                                  /\ toBroker'[s] = toBroker[s] /\ running'[s] = running[s]
      /\ running'[r] = status /\ toBroker'[r] = toBroker[r] \o w
  <2>1. /\ accept' = accept /\ tasks' = tasks /\ issued' = issued
        /\ \A s \in Runners \ {r} : proc'[s] = proc[s] /\ toRunner'[s] = toRunner[s]
        /\ toBroker' = [toBroker EXCEPT ![r] = @ \o w] /\ running' = [running EXCEPT ![r] = status]
    BY DEF RunnerStep
  <2>2. /\ \A s \in Runners \ {r} : toBroker'[s] = toBroker[s] /\ running'[s] = running[s]
        /\ running'[r] = status /\ toBroker'[r] = toBroker[r] \o w
    BY <2>1 DEF TypeOK
  <2>3. QED  BY <2>1, <2>2, LinkTypes
<1>2. /\ n \in Nat /\ Len(w) \in Nat /\ Len(toBroker'[r]) = n + Len(w)
      /\ \A i \in 1 .. n : toBroker'[r][i] = toBroker[r][i]
      /\ \A i \in 1 .. n + Len(w) : i > n => i - n \in 1 .. Len(w) /\ toBroker'[r][i] = w[i - n]
      /\ \A i \in 1 .. n + Len(w) :
           i \in 1 .. n \/ (i > n /\ i - n \in 1 .. Len(w) /\ toBroker'[r][i] = w[i - n])
  <2>1. toBroker[r] \in Seq(Messages) /\ w \in Seq(Messages)
    BY <1>1 DEF RunnerStep
  <2>2. /\ n \in Nat /\ Len(w) \in Nat /\ Len(toBroker'[r]) = n + Len(w)
        /\ \A i \in 1 .. n : toBroker'[r][i] = toBroker[r][i]
        /\ \A i \in 1 .. n + Len(w) : i > n => i - n \in 1 .. Len(w) /\ toBroker'[r][i] = w[i - n]
    BY <1>1, <2>1
  <2>3. \A i \in 1 .. n + Len(w) : i \in 1 .. n \/ i > n
    BY <2>2
  <2>4. QED  BY <2>2, <2>3
<1>20. \A t, s : (OwnedThen(t, s) <=> Owned(t, s)) /\ (EndedThen(t) <=> Ended(t))
  BY <1>1 DEF Owned, OwnedThen, Ended, EndedThen
<1>21. \A s \in Runners \ {r} : /\ toRunner'[s] = toRunner[s] /\ toBroker'[s] = toBroker[s]
                                /\ running'[s] = running[s]
  BY <1>1
<1>3. ASSUME toRunner[r] # <<>>
      PROVE  1 \in 1 .. Len(toRunner[r])
  BY <1>1, <1>3
<1>4. ASSUME NEW i \in 1 .. Len(toRunner'[r])
      PROVE  \E d \in {0, 1} :
               /\ i + d \in 1 .. Len(toRunner[r]) /\ toRunner'[r][i] = toRunner[r][i + d]
               /\ \A j \in 1 .. Len(toRunner'[r]) :
                    j + d \in 1 .. Len(toRunner[r]) /\ toRunner'[r][j] = toRunner[r][j + d]
               /\ toRunner[r] # <<>> /\ toRunner'[r] = Tail(toRunner[r]) => d = 1
  <2>1. CASE toRunner[r] # <<>> /\ toRunner'[r] = Tail(toRunner[r])
    <3>1. \A j \in 1 .. Len(toRunner'[r]) :
            j + 1 \in 1 .. Len(toRunner[r]) /\ toRunner'[r][j] = toRunner[r][j + 1]
      BY <1>1, <2>1
    <3>2. QED  BY <2>1, <3>1
  <2>2. CASE ~(toRunner[r] # <<>> /\ toRunner'[r] = Tail(toRunner[r]))
    <3>1. toRunner'[r] = toRunner[r]
      BY <2>2 DEF RunnerStep
    <3>2. \A j \in 1 .. Len(toRunner'[r]) :
            j + 0 \in 1 .. Len(toRunner[r]) /\ toRunner'[r][j] = toRunner[r][j + 0]
      BY <1>1, <3>1
    <3>3. QED  BY <2>2, <3>1, <3>2
  <2>3. QED  BY <2>1, <2>2
<1>5. RunningInv'
  <2> SUFFICES ASSUME NEW s \in Runners, NEW t \in Tasks
               PROVE  /\ running'[s][t] # "none" => Owned(t, s)
                      /\ running'[s][t] = "aborting:cancelled" => Ended(t)
    BY <1>20 DEF RunningInv, Owned, OwnedThen, Ended, EndedThen
  <2>1. CASE s # r
    BY <1>1, <2>1 DEF LinkInv, RunningInv
  <2>2. CASE s = r
    <3>1. ASSUME status[t] # "none", running[r][t] = "none" PROVE Owned(t, r)
      <4>1. toRunner[r] # <<>> /\ toRunner[r][1].type = "accept" /\ toRunner[r][1].task = t
        BY <3>1 DEF RunnerStep
      <4>2. QED  BY <1>3, <4>1 DEF LinkInv, ToRunnerInv
    <3>2. running[r][t] # "none" => Owned(t, r)
      BY DEF LinkInv, RunningInv
    <3>3. running[r][t] = "aborting:cancelled" => Ended(t)
      BY DEF LinkInv, RunningInv
    <3>4. status[t] = "aborting:cancelled" => running[r][t] = "aborting:cancelled" \/ Ended(t)
      BY DEF RunnerStep
    <3>5. QED  BY <1>1, <2>2, <3>1, <3>2, <3>3, <3>4
  <2>3. QED  BY <2>1, <2>2
<1>6. ToBrokerInv'
  <2> SUFFICES ASSUME NEW s \in Runners, NEW i \in 1 .. Len(toBroker'[s])
               PROVE  /\ toBroker'[s][i].type # "offer" => Owned(toBroker'[s][i].task, s)
                      /\ Result(toBroker'[s][i]) =>
                           \A j \in i + 1 .. Len(toBroker'[s]) :
                             toBroker'[s][j].type = "accepted" =>
                               toBroker'[s][j].task # toBroker'[s][i].task
    BY <1>20 DEF ToBrokerInv, Result, Owned, OwnedThen
  <2>1. CASE s # r
    <3>1. toBroker'[s] = toBroker[s]
      BY <1>21, <2>1
    <3>2. QED  BY <3>1 DEF LinkInv, ToBrokerInv
  <2>2. CASE s = r
    <3>1. i \in 1 .. n \/ (i > n /\ i - n \in 1 .. Len(w) /\ toBroker'[r][i] = w[i - n])
      BY <1>2, <2>2
    <3>2. toBroker'[r][i].type # "offer" => Owned(toBroker'[r][i].task, r)
      <4>1. CASE i \in 1 .. n
        <5>1. toBroker'[r][i] = toBroker[r][i]
          BY <1>2, <4>1
        <5>2. QED  BY <4>1, <5>1 DEF LinkInv, ToBrokerInv
      <4>2. CASE i - n \in 1 .. Len(w) /\ toBroker'[r][i] = w[i - n]
        BY <4>2 DEF RunnerStep
      <4>3. QED  BY <3>1, <4>1, <4>2
    <3>3. ASSUME Result(toBroker'[r][i]), NEW j \in i + 1 .. Len(toBroker'[r]),
                 toBroker'[r][j].type = "accepted", toBroker'[r][j].task = toBroker'[r][i].task
          PROVE  FALSE
      <4>1. i \in Nat /\ j \in Nat /\ i < j /\ i >= 1 /\ j <= n + Len(w)
        BY <1>2, <2>2
      <4>2. CASE j \in 1 .. n
        <5>1. i \in 1 .. n /\ j \in i + 1 .. n
          BY <1>2, <4>1, <4>2
        <5>2. toBroker'[r][i] = toBroker[r][i] /\ toBroker'[r][j] = toBroker[r][j]
          BY <1>2, <5>1, <4>2
        <5>3. QED  BY <3>3, <5>1, <5>2 DEF LinkInv, ToBrokerInv
      <4>3. CASE j \notin 1 .. n
        <5>1. j > n /\ j - n \in 1 .. Len(w) /\ toBroker'[r][j] = w[j - n]
          BY <1>2, <4>1, <4>3
        <5>2. /\ Len(w) = 1 /\ toRunner[r] # <<>> /\ toRunner[r][1].type = "accept"
              /\ toRunner[r][1].task = w[j - n].task
          BY <3>3, <5>1 DEF RunnerStep
        <5>3. i \in 1 .. n
          BY <1>2, <4>1, <5>1, <5>2
        <5>4. toBroker'[r][i] = toBroker[r][i]
          BY <1>2, <5>3
        <5>5. toBroker[r][i].task # toRunner[r][1].task
          BY <1>3, <3>3, <5>2, <5>3, <5>4 DEF LinkInv, ToRunnerInv
        <5>6. QED  BY <3>3, <5>1, <5>2, <5>4, <5>5
      <4>4. QED  BY <4>2, <4>3
    <3>4. QED  BY <2>2, <3>2, <3>3
  <2>3. QED  BY <2>1, <2>2
<1>7. ToRunnerInv'
  <2> SUFFICES ASSUME NEW s \in Runners, NEW i \in 1 .. Len(toRunner'[s])
               PROVE  LET m == toRunner'[s][i] IN
                      /\ m.type \in {"accept", "settings", "cancel"} => Owned(m.task, s)
                      /\ m.type = "cancel" => Ended(m.task)
                      /\ m.type = "accept" =>
                           /\ running'[s][m.task] = "none"
                           /\ \A j \in 1 .. Len(toBroker'[s]) :
                                Result(toBroker'[s][j]) => toBroker'[s][j].task # m.task
                           /\ \A j \in 1 .. Len(toRunner'[s]) :
                                toRunner'[s][j].type = "accept" /\ toRunner'[s][j].task = m.task => j = i
    <3>1. ToRunnerInv' <=>
            \A s \in Runners : \A i \in 1 .. Len(toRunner'[s]) :
               LET m == toRunner'[s][i] IN
                      /\ m.type \in {"accept", "settings", "cancel"} => OwnedThen(m.task, s)
                      /\ m.type = "cancel" => EndedThen(m.task)
                      /\ m.type = "accept" =>
                           /\ running'[s][m.task] = "none"
                           /\ \A j \in 1 .. Len(toBroker'[s]) :
                                Result(toBroker'[s][j]) => toBroker'[s][j].task # m.task
                           /\ \A j \in 1 .. Len(toRunner'[s]) :
                                toRunner'[s][j].type = "accept" /\ toRunner'[s][j].task = m.task => j = i
      BY DEF ToRunnerInv, Result, Owned, OwnedThen, Ended, EndedThen
    <3>2. QED  BY <1>20, <3>1
  <2>1. CASE s # r
    <3>1. toRunner'[s] = toRunner[s] /\ toBroker'[s] = toBroker[s] /\ running'[s] = running[s]
      BY <1>21, <2>1
    <3>2. QED  BY <3>1 DEF LinkInv, ToRunnerInv
  <2>2. CASE s = r
    <3> DEFINE m == toRunner'[r][i]
    <3>1. PICK d \in {0, 1} :
               /\ i + d \in 1 .. Len(toRunner[r]) /\ m = toRunner[r][i + d]
               /\ \A j \in 1 .. Len(toRunner'[r]) :
                    j + d \in 1 .. Len(toRunner[r]) /\ toRunner'[r][j] = toRunner[r][j + d]
               /\ toRunner[r] # <<>> /\ toRunner'[r] = Tail(toRunner[r]) => d = 1
      BY <1>4, <2>2
    <3>2. /\ m.type \in {"accept", "settings", "cancel"} => Owned(m.task, r)
          /\ m.type = "cancel" => Ended(m.task)
      BY <3>1 DEF LinkInv, ToRunnerInv
    <3>3. ASSUME m.type = "accept"
          PROVE  /\ status[m.task] = "none"
                 /\ \A j \in 1 .. Len(toBroker'[r]) :
                      Result(toBroker'[r][j]) => toBroker'[r][j].task # m.task
                 /\ \A j \in 1 .. Len(toRunner'[r]) :
                      toRunner'[r][j].type = "accept" /\ toRunner'[r][j].task = m.task => j = i
      <4>1. /\ running[r][m.task] = "none"
            /\ \A j \in 1 .. n : Result(toBroker[r][j]) => toBroker[r][j].task # m.task
            /\ \A j \in 1 .. Len(toRunner[r]) :
                 toRunner[r][j].type = "accept" /\ toRunner[r][j].task = m.task => j = i + d
            /\ m.task \in Tasks
        BY <3>1, <3>3 DEF LinkInv, ToRunnerInv, Owned
      <4>2. status[m.task] = "none"
        <5> SUFFICES ASSUME status[m.task] # "none" PROVE FALSE
          OBVIOUS
        <5>1. /\ toRunner[r] # <<>> /\ toRunner[r][1].type = "accept" /\ toRunner[r][1].task = m.task
              /\ toRunner'[r] = Tail(toRunner[r])
          BY <4>1 DEF RunnerStep
        <5>2. 1 = i + d /\ d = 1
          BY <1>3, <3>1, <4>1, <5>1
        <5>3. i \in Nat /\ i >= 1
          BY <2>2, <1>1 DEF TypeOK
        <5>4. QED  BY <5>2, <5>3
      <4>3. \A j \in 1 .. Len(toBroker'[r]) : Result(toBroker'[r][j]) => toBroker'[r][j].task # m.task
        <5> SUFFICES ASSUME NEW j \in 1 .. n + Len(w), Result(toBroker'[r][j]),
                            toBroker'[r][j].task = m.task
                     PROVE  FALSE
          BY <1>2
        <5>1. CASE j \in 1 .. n
          BY <1>2, <4>1, <5>1
        <5>2. CASE j \notin 1 .. n
          <6>1. j - n \in 1 .. Len(w) /\ toBroker'[r][j] = w[j - n]
            BY <1>2, <5>2
          <6>2. Result(w[j - n]) /\ w[j - n].task = m.task
            BY <6>1
          <6>3. running[r][m.task] # "none"
            BY <6>1, <6>2 DEF RunnerStep
          <6>4. QED  BY <4>1, <6>3
        <5>3. QED  BY <5>1, <5>2
      <4>4. \A j \in 1 .. Len(toRunner'[r]) :
                      toRunner'[r][j].type = "accept" /\ toRunner'[r][j].task = m.task => j = i
        <5> SUFFICES ASSUME NEW j \in 1 .. Len(toRunner'[r]), toRunner'[r][j].type = "accept",
                            toRunner'[r][j].task = m.task
                     PROVE  j = i
          OBVIOUS
        <5>1. j + d = i + d
          BY <3>1, <4>1
        <5>2. QED  BY <2>2, <5>1
      <4>5. QED  BY <4>2, <4>3, <4>4
    <3>4. QED  BY <1>1, <2>2, <3>2, <3>3
  <2>3. QED  BY <2>1, <2>2
<1>8. ASSUME NEW k \in 0 .. n PROVE Held(r, k)' = Held(r, k)
  <2>1. \A i \in 1 .. k : toBroker'[r][i] = toBroker[r][i]
    BY <1>2
  <2>2. QED  BY <1>1, <2>1, ZenonT(30) DEF Held, Result
<1>9. ASSUME NEW k \in n + 1 .. n + Len(w) PROVE Held(r, k)' \subseteq RunningTasks(r)'
  <2> SUFFICES ASSUME NEW t \in Held(r, k)' PROVE t \in Tasks /\ status[t] # "none"
    BY <1>1 DEF RunningTasks
  <2>1. /\ t \in Tasks /\ accept[t].runner = r
        /\ \/ t \in tasks
           \/ /\ accept[t].st = "waiting"
              /\ \E i \in 1 .. k : toBroker'[r][i].type = "accepted" /\ toBroker'[r][i].task = t
        /\ \A i \in 1 .. k : Result(toBroker'[r][i]) => toBroker'[r][i].task # t
    BY <1>1 DEF Held, Result
  <2>2. ASSUME NEW i \in 1 .. k
        PROVE  i \in 1 .. n \/ (i - n \in 1 .. Len(w) /\ toBroker'[r][i] = w[i - n])
    <3>1. i \in 1 .. n + Len(w)
      BY <1>2
    <3>2. QED  BY <1>2, <3>1
  <2>3. k \in Nat /\ k > n /\ \A i \in 1 .. n : i \in 1 .. k /\ toBroker'[r][i] = toBroker[r][i]
    BY <1>2
  <2>4. ASSUME status[t] = "none" PROVE FALSE
    <3>1. ~(Len(w) > 0 /\ Result(w[1]) /\ w[1].task = t)
      <4> SUFFICES ASSUME Len(w) > 0, Result(w[1]), w[1].task = t PROVE FALSE
        OBVIOUS
      <4>1. n + 1 \in 1 .. k /\ n + 1 \in 1 .. n + Len(w) /\ (n + 1) - n = 1 /\ n + 1 > n
        BY <1>2, <2>3
      <4>2. toBroker'[r][n + 1] = w[1]
        BY <1>2, <4>1
      <4>3. QED  BY <2>1, <4>1, <4>2
    <3>2. t \in Held(r, n)
      <4>1. \A i \in 1 .. n : Result(toBroker[r][i]) => toBroker[r][i].task # t
        BY <2>1, <2>3
      <4>2. ASSUME NEW i \in 1 .. k, toBroker'[r][i].type = "accepted", toBroker'[r][i].task = t
            PROVE  i \in 1 .. n /\ toBroker[r][i].type = "accepted" /\ toBroker[r][i].task = t
        <5>1. ASSUME i - n \in 1 .. Len(w), toBroker'[r][i] = w[i - n] PROVE FALSE
          BY <2>4, <4>2, <5>1 DEF RunnerStep
        <5>2. i \in 1 .. n
          BY <2>2, <5>1
        <5>3. QED  BY <2>3, <4>2, <5>2
      <4>3. QED  BY <2>1, <4>1, <4>2 DEF Held
    <3>3. running[r][t] # "none"
      BY <3>2 DEF LinkInv, HeldInv, RunnerStep, RunningTasks
    <3>4. Ended(t)
      BY <2>1, <2>4, <3>1, <3>3 DEF RunnerStep
    <3>5. QED  BY <2>1, <3>4 DEF Ended
  <2>5. QED  BY <2>1, <2>4
<1>10. HeldInv'
  <2> SUFFICES ASSUME NEW s \in Runners
               PROVE  /\ \A k \in 0 .. Len(toBroker'[s]) : Cardinality(Held(s, k)') <= MaxConcurrency
                      /\ proc'[s] \in Up => Held(s, Len(toBroker[s]))' \subseteq RunningTasks(s)'
                      /\ proc'[s] = "left" => Held(s, Len(toBroker[s]))' = {}
    BY DEF HeldInv
  <2>1. CASE s # r
    <3>1. \A k : Held(s, k)' = Held(s, k)
      BY <1>1, <2>1 DEF Held, Result
    <3>2. RunningTasks(s)' = RunningTasks(s)
      BY <1>1, <2>1 DEF RunningTasks
    <3>3. Held(s, Len(toBroker[s]))' = Held(s, Len(toBroker[s]))
      BY <1>1, <2>1 DEF Held, Result
    <3>4. QED  BY <1>1, <2>1, <3>1, <3>2, <3>3 DEF LinkInv, HeldInv
  <2>2. CASE s = r
    <3>1. RunningTasks(r)' \in SUBSET Tasks
      BY DEF RunningTasks
    <3>2. ASSUME NEW k \in 0 .. Len(toBroker'[r]) PROVE Cardinality(Held(r, k)') <= MaxConcurrency
      <4>1. k \in 0 .. n \/ k \in n + 1 .. n + Len(w)
        BY <1>2
      <4>2. CASE k \in 0 .. n
        BY <1>8, <4>2 DEF LinkInv, HeldInv
      <4>3. CASE k \in n + 1 .. n + Len(w)
        <5>1. Held(r, k)' \subseteq RunningTasks(r)'
          BY <1>9, <4>3
        <5>2. QED  BY <3>1, <5>1, HeldShrinks
      <4>4. QED  BY <4>1, <4>2, <4>3
    <3>3. Held(r, Len(toBroker[r]))' \subseteq RunningTasks(r)'
      <4>1. CASE Len(w) = 0
        <5>1. Len(toBroker'[r]) = n /\ n \in 0 .. n
          BY <1>2, <4>1
        <5>2. Held(r, Len(toBroker[r]))' = Held(r, n)
          BY <1>1, <1>2, <5>1 DEF Held, Result
        <5>3. Held(r, n) \subseteq RunningTasks(r)
          BY DEF LinkInv, HeldInv, RunnerStep
        <5>4. \A t \in Held(r, n) : running'[r][t] # "none" /\ t \in Tasks
          <6> SUFFICES ASSUME NEW t \in Held(r, n), status[t] = "none" PROVE FALSE
            BY <1>1 DEF Held
          <6>1. running[r][t] # "none" /\ t \in Tasks
            BY <5>3 DEF RunningTasks
          <6>2. Ended(t)
            BY <1>2, <4>1, <6>1 DEF RunnerStep
          <6>3. QED  BY <6>2 DEF Ended, Held
        <5>5. QED  BY <5>2, <5>4 DEF RunningTasks
      <4>2. CASE Len(w) # 0
        <5>1. Len(toBroker'[r]) \in n + 1 .. n + Len(w)
          BY <1>2, <4>2
        <5>2. QED  BY <1>9, <5>1
      <4>3. QED  BY <4>1, <4>2
    <3>4. proc'[r] # "left"
      BY DEF RunnerStep, Up
    <3>5. QED  BY <2>2, <3>2, <3>3, <3>4
  <2>3. QED  BY <2>1, <2>2
<1>11. QED  BY <1>5, <1>6, <1>7, <1>10 DEF LinkInv

(* The processes of the runners in E end; the broker drops tasks. *)
EndStep(E) ==
  /\ UNCHANGED <<accept, issued>> /\ tasks' \subseteq tasks
  /\ \A r \in E : /\ toRunner'[r] = <<>> /\ running'[r] = [t \in Tasks |-> "none"]
                  /\ \E k \in 0 .. Len(toBroker[r]) : toBroker'[r] = SubSeq(toBroker[r], 1, k)
                  /\ proc'[r] \notin Up
                  /\ proc'[r] = "left" =>
                       \/ proc[r] \in Up /\ RunningTasks(r) = {} /\ toBroker'[r] = toBroker[r]
                       \/ toBroker'[r] = <<>> /\ \A t \in tasks' : accept[t].runner # r
  /\ \A r \in Runners \ E : /\ toRunner'[r] = toRunner[r] /\ toBroker'[r] = toBroker[r]
                            /\ running'[r] = running[r] /\ proc'[r] = proc[r]

LEMMA EndLink ==
  ASSUME TypeOK, TypeOK', LinkInv, NEW E \in SUBSET Runners, EndStep(E)
  PROVE  LinkInv'
<1>1. /\ accept' = accept /\ issued' = issued /\ \A t \in tasks' : t \in tasks
      /\ \A r \in Runners : /\ Len(toRunner[r]) \in Nat /\ Len(toBroker[r]) \in Nat
                            /\ toRunner[r] \in Seq(Messages) /\ toBroker[r] \in Seq(Messages)
  BY LinkTypes DEF EndStep
<1>2. \A t, r : (OwnedThen(t, r) <=> Owned(t, r)) /\ (Ended(t) => EndedThen(t))
  BY <1>1 DEF Owned, OwnedThen, Ended, EndedThen
<1>3. ASSUME NEW r \in Runners
      PROVE  /\ Len(toBroker'[r]) \in 0 .. Len(toBroker[r])
             /\ \A i \in 1 .. Len(toBroker'[r]) :
                  i \in 1 .. Len(toBroker[r]) /\ toBroker'[r][i] = toBroker[r][i]
  <2>1. CASE r \in E
    <3>1. PICK k \in 0 .. Len(toBroker[r]) : toBroker'[r] = SubSeq(toBroker[r], 1, k)
      BY <2>1 DEF EndStep
    <3>2. QED  BY <1>1, <3>1
  <2>2. CASE r \notin E
    BY <1>1, <2>2 DEF EndStep
  <2>3. QED  BY <2>1, <2>2
<1>4. RunningInv'
  <2> SUFFICES ASSUME NEW r \in Runners, NEW t \in Tasks
               PROVE  /\ running'[r][t] # "none" => Owned(t, r)
                      /\ running'[r][t] = "aborting:cancelled" => Ended(t)
    BY <1>2 DEF RunningInv, Owned, OwnedThen, Ended, EndedThen
  <2>1. running'[r][t] = "none" \/ running'[r][t] = running[r][t]
    BY DEF EndStep
  <2>2. QED  BY <2>1 DEF LinkInv, RunningInv
<1>5. ToBrokerInv'
  <2> SUFFICES ASSUME NEW r \in Runners, NEW i \in 1 .. Len(toBroker'[r])
               PROVE  /\ toBroker'[r][i].type # "offer" => Owned(toBroker'[r][i].task, r)
                      /\ Result(toBroker'[r][i]) =>
                           \A j \in i + 1 .. Len(toBroker'[r]) :
                             toBroker'[r][j].type = "accepted" =>
                               toBroker'[r][j].task # toBroker'[r][i].task
    BY <1>2 DEF ToBrokerInv, Result, Owned, OwnedThen
  <2>1. i \in 1 .. Len(toBroker[r]) /\ toBroker'[r][i] = toBroker[r][i]
    BY <1>3
  <2>2. \A j \in i + 1 .. Len(toBroker'[r]) :
          j \in i + 1 .. Len(toBroker[r]) /\ toBroker'[r][j] = toBroker[r][j]
    <3> SUFFICES ASSUME NEW j \in i + 1 .. Len(toBroker'[r])
                 PROVE  j \in i + 1 .. Len(toBroker[r]) /\ toBroker'[r][j] = toBroker[r][j]
      OBVIOUS
    <3>1. Len(toBroker'[r]) \in 0 .. Len(toBroker[r]) /\ Len(toBroker[r]) \in Nat
      BY <1>1, <1>3
    <3>2. j \in 1 .. Len(toBroker'[r])
      BY <2>1, <3>1
    <3>3. QED  BY <1>3, <3>1, <3>2
  <2>3. QED  BY <2>1, <2>2 DEF LinkInv, ToBrokerInv
<1>6. ToRunnerInv'
  <2> SUFFICES ASSUME NEW r \in Runners, NEW i \in 1 .. Len(toRunner'[r])
               PROVE  LET m == toRunner'[r][i] IN
                      /\ m.type \in {"accept", "settings", "cancel"} => Owned(m.task, r)
                      /\ m.type = "cancel" => Ended(m.task)
                      /\ m.type = "accept" =>
                           /\ running'[r][m.task] = "none"
                           /\ \A j \in 1 .. Len(toBroker'[r]) :
                                Result(toBroker'[r][j]) => toBroker'[r][j].task # m.task
                           /\ \A j \in 1 .. Len(toRunner'[r]) :
                                toRunner'[r][j].type = "accept" /\ toRunner'[r][j].task = m.task => j = i
    <3>1. ToRunnerInv' <=>
            \A r \in Runners : \A i \in 1 .. Len(toRunner'[r]) :
               LET m == toRunner'[r][i] IN
                      /\ m.type \in {"accept", "settings", "cancel"} => OwnedThen(m.task, r)
                      /\ m.type = "cancel" => EndedThen(m.task)
                      /\ m.type = "accept" =>
                           /\ running'[r][m.task] = "none"
                           /\ \A j \in 1 .. Len(toBroker'[r]) :
                                Result(toBroker'[r][j]) => toBroker'[r][j].task # m.task
                           /\ \A j \in 1 .. Len(toRunner'[r]) :
                                toRunner'[r][j].type = "accept" /\ toRunner'[r][j].task = m.task => j = i
      BY DEF ToRunnerInv, Result, Owned, OwnedThen, Ended, EndedThen
    <3>2. QED  BY <1>2, <3>1
  <2>1. r \notin E
    <3>1. CASE r \in E
      <4>1. toRunner'[r] = <<>>
        BY <3>1 DEF EndStep
      <4>2. QED  BY <4>1
    <3>2. QED  BY <3>1
  <2>2. toRunner'[r] = toRunner[r] /\ toBroker'[r] = toBroker[r] /\ running'[r] = running[r]
    BY <2>1 DEF EndStep
  <2>3. QED  BY <2>2 DEF LinkInv, ToRunnerInv
<1>7. HeldInv'
  <2> SUFFICES ASSUME NEW r \in Runners
               PROVE  /\ \A k \in 0 .. Len(toBroker'[r]) : Cardinality(Held(r, k)') <= MaxConcurrency
                      /\ proc'[r] \in Up => Held(r, Len(toBroker[r]))' \subseteq RunningTasks(r)'
                      /\ proc'[r] = "left" => Held(r, Len(toBroker[r]))' = {}
    BY DEF HeldInv
  <2>1. ASSUME NEW k \in 0 .. Len(toBroker'[r])
        PROVE  k \in 0 .. Len(toBroker[r]) /\ Held(r, k)' \subseteq Held(r, k)
    <3>1. k \in 0 .. Len(toBroker[r]) /\ \A i \in 1 .. k : toBroker'[r][i] = toBroker[r][i]
      BY <1>1, <1>3
    <3>2. QED  BY <1>1, <3>1 DEF Held, Result
  <2>2. ASSUME NEW k \in 0 .. Len(toBroker'[r]) PROVE Cardinality(Held(r, k)') <= MaxConcurrency
    <3>1. k \in 0 .. Len(toBroker[r]) /\ Held(r, k)' \subseteq Held(r, k)
      BY <2>1, <2>2
    <3>2. Cardinality(Held(r, k)) <= MaxConcurrency
      BY <3>1 DEF LinkInv, HeldInv
    <3>3. Held(r, k) \in SUBSET Tasks
      BY DEF Held
    <3>4. QED  BY <3>1, <3>2, <3>3, HeldShrinks
  <2>3. Len(toBroker'[r]) \in 0 .. Len(toBroker'[r])
    BY <1>1, <1>3
  <2>4. ASSUME toBroker'[r] = toBroker[r]
        PROVE  Held(r, Len(toBroker[r]))' \subseteq Held(r, Len(toBroker[r]))
    BY <2>1, <2>3, <2>4
  <2>5. CASE r \in E
    <3>1. proc'[r] \notin Up
      BY <2>5 DEF EndStep
    <3>2. ASSUME proc'[r] = "left" PROVE Held(r, Len(toBroker[r]))' = {}
      <4>1. CASE proc[r] \in Up /\ RunningTasks(r) = {} /\ toBroker'[r] = toBroker[r]
        BY <2>4, <4>1 DEF LinkInv, HeldInv
      <4>2. CASE toBroker'[r] = <<>> /\ \A t \in tasks' : accept[t].runner # r
        <5>1. Len(toBroker'[r]) = 0
          BY <4>2
        <5>2. QED  BY <1>1, <4>2, <5>1 DEF Held
      <4>3. QED  BY <2>5, <3>2, <4>1, <4>2 DEF EndStep
    <3>3. QED  BY <2>2, <3>1, <3>2
  <2>6. CASE r \notin E
    <3>1. proc'[r] = proc[r] /\ toBroker'[r] = toBroker[r] /\ running'[r] = running[r]
      BY <2>6 DEF EndStep
    <3>2. RunningTasks(r)' = RunningTasks(r)
      BY <3>1 DEF RunningTasks
    <3>3. QED  BY <2>2, <2>4, <3>1, <3>2 DEF LinkInv, HeldInv
  <2>7. QED  BY <2>5, <2>6
<1>8. QED  BY <1>4, <1>5, <1>6, <1>7 DEF LinkInv

(* Nothing moves but the state of processes and connections. *)
QuietStep ==
  /\ UNCHANGED <<accept, issued, tasks, toBroker, running>>
  /\ \A r \in Runners : toRunner'[r] \in {toRunner[r], <<[type |-> "registered"]>>}
  /\ \A r \in Runners :
       /\ proc'[r] \in Up => proc[r] \in Up \/ Held(r, Len(toBroker[r])) = {}
       /\ proc'[r] = "left" => proc[r] = "left"

LEMMA QuietLink ==
  ASSUME TypeOK, TypeOK', LinkInv, QuietStep
  PROVE  LinkInv'
<1>1. /\ accept' = accept /\ issued' = issued /\ tasks' = tasks
      /\ toBroker' = toBroker /\ running' = running
  BY DEF QuietStep
<1>2. \A t, r : (OwnedThen(t, r) <=> Owned(t, r)) /\ (Ended(t) <=> EndedThen(t))
  BY <1>1 DEF Owned, OwnedThen, Ended, EndedThen
<1>3. RunningInv'
  BY <1>1 DEF LinkInv, RunningInv, Owned, Ended
<1>4. ToBrokerInv'
  BY <1>1 DEF LinkInv, ToBrokerInv, Owned, Result
<1>5. ToRunnerInv'
  <2> SUFFICES ASSUME NEW r \in Runners, NEW i \in 1 .. Len(toRunner'[r])
               PROVE  LET m == toRunner'[r][i] IN
                      /\ m.type \in {"accept", "settings", "cancel"} => Owned(m.task, r)
                      /\ m.type = "cancel" => Ended(m.task)
                      /\ m.type = "accept" =>
                           /\ running[r][m.task] = "none"
                           /\ \A j \in 1 .. Len(toBroker[r]) :
                                Result(toBroker[r][j]) => toBroker[r][j].task # m.task
                           /\ \A j \in 1 .. Len(toRunner'[r]) :
                                toRunner'[r][j].type = "accept" /\ toRunner'[r][j].task = m.task => j = i
    BY <1>1, <1>2 DEF ToRunnerInv, Result, Owned, OwnedThen, Ended, EndedThen
  <2>1. CASE toRunner'[r] = toRunner[r]
    BY <2>1 DEF LinkInv, ToRunnerInv
  <2>2. CASE toRunner'[r] = <<[type |-> "registered"]>>
    <3>1. i = 1 /\ toRunner'[r][i].type = "registered"
      BY <2>2
    <3>2. QED  BY <3>1
  <2>3. QED  BY <2>1, <2>2 DEF QuietStep
<1>6. HeldInv'
  <2>1. \A r, k : Held(r, k)' = Held(r, k)
    BY <1>1 DEF Held, Result
  <2>2. \A r : Held(r, Len(toBroker[r]))' = Held(r, Len(toBroker[r])) /\ RunningTasks(r)' = RunningTasks(r)
    BY <1>1 DEF Held, Result, RunningTasks
  <2> SUFFICES ASSUME NEW r \in Runners
               PROVE  /\ \A k \in 0 .. Len(toBroker[r]) : Cardinality(Held(r, k)) <= MaxConcurrency
                      /\ proc'[r] \in Up => Held(r, Len(toBroker[r])) \subseteq RunningTasks(r)
                      /\ proc'[r] = "left" => Held(r, Len(toBroker[r])) = {}
    BY <1>1, <2>1, <2>2 DEF HeldInv
  <2>3. QED  BY DEF LinkInv, HeldInv, QuietStep
<1>7. QED  BY <1>3, <1>4, <1>5, <1>6 DEF LinkInv

(* A registered runner has a connection, a runner that is not yet born has  *)
(* neither that nor messages, and a closing connection has brought all.     *)
ConnInv == \A r \in Runners :
  /\ r \in known => conn[r] \in {"up", "suspect", "closing"}
  /\ proc[r] = "unborn" => conn[r] = "none" /\ toBroker[r] = <<>>
  /\ conn[r] = "closing" => proc[r] \notin Up \cup {"unborn"} /\ toBroker[r] = <<>>

KnownInv == \A t \in tasks : accept[t].runner \in known

LEMMA TakesFacts ==
  ASSUME TypeOK, NEW r \in Runners, Received(r)
  PROVE  /\ \A s \in Runners \ {r} : Takes(s, 0)
         /\ Takes(r, 1) /\ toBroker[r][1] = Head(toBroker[r])
         /\ 1 \in 1 .. Len(toBroker[r]) /\ proc' = proc /\ running' = running
<1>1. /\ toBroker' = [toBroker EXCEPT ![r] = Tail(@)] /\ toBroker[r] # <<>>
      /\ proc' = proc /\ running' = running
  BY DEF Received, runnerVars
<1>2. \A s \in Runners : toBroker[s] \in Seq(Messages) /\ Len(toBroker[s]) \in Nat
  BY LinkTypes
<1>3. \A s \in Runners \ {r} : toBroker'[s] = toBroker[s]
  BY <1>1 DEF TypeOK
<1>4. \A s \in Runners \ {r} : Takes(s, 0)
  BY <1>2, <1>3 DEF Takes
<1>5. toBroker'[r] = Tail(toBroker[r])
  BY <1>1 DEF TypeOK
<1>6. Takes(r, 1)
  <2> DEFINE c == toBroker[r]
  <2>1. c \in Seq(Messages) /\ c # <<>>
    BY <1>1, <1>2
  <2>2. Len(c) \in Nat /\ 1 <= Len(c) /\ Len(Tail(c)) = Len(c) - 1
    BY <2>1
  <2>3. \A i \in 1 .. Len(c) - 1 : Tail(c)[i] = c[i + 1]
    BY <2>1
  <2>4. QED  BY <1>5, <2>2, <2>3 DEF Takes
<1>7. QED  BY <1>1, <1>2, <1>4, <1>6

LEMMA RestsFacts ==
  ASSUME TypeOK, toBroker' = toBroker
  PROVE  \A s \in Runners : Takes(s, 0)
<1>1. \A s \in Runners : toBroker[s] \in Seq(Messages) /\ Len(toBroker[s]) \in Nat
  BY LinkTypes
<1>2. QED  BY <1>1 DEF Takes

(* One message or none goes to a runner. *)
LEMMA SentFacts ==
  ASSUME TypeOK, NEW r \in Runners, NEW m \in Messages,
         toRunner' \in {toRunner, Sent(r, m)},
         \/ m.type = "settings" /\ OwnedThen(m.task, r)
         \/ m.type = "cancel" /\ OwnedThen(m.task, r) /\ EndedThen(m.task)
  PROVE  \A s \in Runners : \E x : toRunner'[s] = toRunner[s] \o x /\ Sendable(s, x)
<1>1. toRunner[r] \in Seq(Messages)
  BY LinkTypes
<1>2. Sendable(r, <<m>>)
  <2>1. <<m>> \in Seq(Messages) /\ Len(<<m>>) = 1 /\ <<m>>[1] = m
    OBVIOUS
  <2>2. \A j \in 1 .. Len(<<m>>) : j = 1
    BY <2>1
  <2>3. QED  BY <2>1, <2>2 DEF Sendable
<1>3. \A s \in Runners : Sendable(s, <<>>) /\ toRunner[s] \o <<>> = toRunner[s]
  BY LinkTypes DEF Sendable
<1>4. \A s \in Runners : toRunner'[s] = toRunner[s] \/ (s = r /\ toRunner'[s] = Append(toRunner[s], m))
  BY DEF Sent, TypeOK
<1>5. Append(toRunner[r], m) = toRunner[r] \o <<m>>
  BY <1>1
<1>6. QED  BY <1>2, <1>3, <1>4, <1>5

LEMMA NothingSent ==
  ASSUME TypeOK, toRunner' = toRunner
  PROVE  \A s \in Runners : \E x : toRunner'[s] = toRunner[s] \o x /\ Sendable(s, x)
<1>1. \A s \in Runners : Sendable(s, <<>>) /\ toRunner[s] \o <<>> = toRunner[s]
  BY LinkTypes DEF Sendable
<1>2. QED  BY <1>1

(* settleTasks as a step of the broker. *)
LEMMA SettleLink ==
  ASSUME TypeOK, TypeOK', MatchInv, LinkInv, NEW reqs \in Seq(Requests), NEW claimed,
         NEW offs \in Seq(OfferType), Settle(reqs, claimed, offs),
         UNCHANGED <<proc, running, tasks>>,
         \A r \in Runners : Takes(r, 0) \/ (Takes(r, 1) /\ toBroker[r][1].type = "offer")
  PROVE  LinkInv' /\ (KnownInv /\ known' = known => KnownInv')
<1>1. PICK n \in Nat, free \in Seq(Requests), live \in Seq(OfferType),
           sent \in [Runners -> Seq(Messages)] :
        Matched(n, free, live, sent, reqs, claimed)
  BY SettleFacts
<1>2. issued \in Nat /\ issued' = issued + n /\ issued <= issued' /\ issued + n <= MaxTasks
      /\ MaxTasks \in Nat /\ \A t \in Tasks : t \in Nat
  BY <1>1, LinkTypes, ConstantsAssumption DEF Matched
<1>3. \A t \in Tasks : t <= issued => accept'[t] = accept[t]
  BY <1>1, <1>2 DEF Matched
<1>4. \A t \in Tasks : accept'[t] = accept[t] \/ t > issued
  BY <1>2, <1>3
<1>5. Grows
  <2>1. tasks' = tasks
    OBVIOUS
  <2>2. \A t \in Tasks : t <= issued => accept'[t].runner = accept[t].runner /\ accept'[t].st = accept[t].st
    BY <1>3
  <2>3. \A t \in Tasks : t <= issued => (Ended(t) => EndedThen(t))
    BY <2>1, <2>2 DEF Ended, EndedThen
  <2>4. QED  BY <1>2, <2>2, <2>3 DEF Grows
<1>6. ASSUME NEW r \in Runners PROVE \E x : toRunner'[r] = toRunner[r] \o x /\ Sendable(r, x)
  <2>1. toRunner'[r] = toRunner[r] \o sent[r] /\ sent[r] \in Seq(Messages)
    BY <1>1 DEF Matched
  <2>2. ASSUME NEW j \in 1 .. Len(sent[r])
        PROVE  /\ sent[r][j].type = "accept" /\ sent[r][j].task \in Tasks
               /\ sent[r][j].task > issued /\ sent[r][j].task <= issued'
               /\ accept'[sent[r][j].task].runner = r
    <3>1. PICK i \in 1 .. n : /\ sent[r][j] = [type |-> "accept", task |-> issued + i,
                                              offer |-> live[i].offer, runner |-> r]
                              /\ live[i].runner = r
      BY <1>1 DEF Matched
    <3>2. sent[r][j].type = "accept" /\ sent[r][j].task = issued + i
      BY <3>1
    <3>3. /\ i \in Nat /\ issued + i \in issued + 1 .. issued + n /\ issued + i \in Tasks
          /\ issued + i > issued /\ issued + i <= issued + n /\ (issued + i) - issued = i
      BY <1>2 DEF Tasks
    <3>4. accept'[issued + i] = [st |-> "waiting", request |-> free[(issued + i) - issued],
                                 runner |-> live[(issued + i) - issued].runner]
      BY <1>1, <3>3 DEF Matched
    <3>5. accept'[issued + i].runner = r
      BY <3>1, <3>3, <3>4
    <3>6. QED  BY <1>2, <3>2, <3>3, <3>5
  <2>3. \A j, k \in 1 .. Len(sent[r]) : sent[r][j].task = sent[r][k].task => j = k
    BY <1>1 DEF Matched
  <2>4. Sendable(r, sent[r])
    BY <2>1, <2>2, <2>3 DEF Sendable
  <2>5. QED  BY <2>1, <2>4
<1>7. \A r \in Runners :
        \/ Takes(r, 0)
        \/ Takes(r, 1) /\ (Result(toBroker[r][1]) => toBroker[r][1].task \notin tasks')
  BY DEF Result
<1>8. BrokerStep
  BY <1>4, <1>5, <1>6, <1>7 DEF BrokerStep
<1>9. KnownInv /\ known' = known => KnownInv'
  <2>1. ASSUME NEW t \in tasks PROVE t \in Tasks /\ t <= issued
    <3>1. t \in Tasks /\ accept[t].st = "accepted" /\ t \in Nat
      BY <1>2 DEF TypeOK, MatchInv, TasksInv
    <3>2. ~(t > issued)
      BY <3>1 DEF MatchInv, IssuedInv
    <3>3. QED  BY <1>2, <3>1, <3>2
  <2>2. QED  BY <1>3, <2>1 DEF KnownInv
<1>10. QED  BY <1>8, <1>9, BrokerLink

(* The other steps of the broker: the stages of acceptances change, tasks   *)
(* come with the acceptance that is handled, and go.                        *)
StagesStep ==
  /\ UNCHANGED <<issued, proc, running, known>>
  /\ \A t \in Tasks : /\ accept'[t].runner = accept[t].runner
                      /\ accept'[t].st = "waiting" => accept[t].st = "waiting"
                      /\ accept[t].st = "accepted" => accept'[t].st = "accepted"

LEMMA StagesLink ==
  ASSUME TypeOK, TypeOK', MatchInv, LinkInv, KnownInv, StagesStep,
         \A s \in Runners : \E x : toRunner'[s] = toRunner[s] \o x /\ Sendable(s, x),
         NEW r \in Runners,
         \A s \in Runners \ {r} : Takes(s, 0),
         \/ Takes(r, 0) /\ tasks' \subseteq tasks
         \/ /\ Takes(r, 1) /\ r \in known
            /\ Result(toBroker[r][1]) => toBroker[r][1].task \notin tasks'
            /\ \A t \in tasks' \ tasks : /\ accept[t].st = "waiting"
                                         /\ toBroker[r][1].type = "accepted" /\ toBroker[r][1].task = t
  PROVE  LinkInv' /\ KnownInv'
<1>1. \A t \in tasks' \ tasks : /\ accept[t].st = "waiting" /\ Takes(r, 1) /\ r \in known
                                /\ toBroker[r][1].type = "accepted" /\ toBroker[r][1].task = t
  OBVIOUS
<1>2. Grows
  <2>1. \A t \in Tasks : Ended(t) => EndedThen(t)
    BY <1>1 DEF StagesStep, Ended, EndedThen
  <2>2. issued <= issued'
    BY LinkTypes DEF StagesStep
  <2>3. QED  BY <2>1, <2>2 DEF Grows, StagesStep, Ended, EndedThen
<1>3. BrokerStep
  <2>1. \A s \in Runners :
          \/ Takes(s, 0)
          \/ Takes(s, 1) /\ (Result(toBroker[s][1]) => toBroker[s][1].task \notin tasks')
    OBVIOUS
  <2>2. QED  BY <1>1, <1>2, <2>1 DEF BrokerStep, StagesStep
<1>4. KnownInv'
  <2> SUFFICES ASSUME NEW t \in tasks' PROVE accept'[t].runner \in known
    BY DEF KnownInv, StagesStep
  <2>1. t \in Tasks /\ accept'[t].runner = accept[t].runner
    BY DEF TypeOK, StagesStep
  <2>2. CASE t \in tasks
    BY <2>1, <2>2 DEF KnownInv
  <2>3. CASE t \notin tasks
    <3>1. 1 \in 1 .. Len(toBroker[r])
      BY <1>1, <2>3, LinkTypes DEF Takes
    <3>2. Owned(t, r) /\ r \in known
      BY <1>1, <2>3, <3>1 DEF LinkInv, ToBrokerInv
    <3>3. QED  BY <2>1, <3>2 DEF Owned
  <2>4. QED  BY <2>2, <2>3
<1>5. QED  BY <1>3, <1>4, BrokerLink

-----------------------------------------------------------------------------
(* Every step is one of these *)

(* The first message that the broker takes from r, and whose task it is. *)
LEMMA HeadFacts ==
  ASSUME TypeOK, LinkInv, NEW r \in Runners, Received(r)
  PROVE  /\ Head(toBroker[r]) \in Messages
         /\ Head(toBroker[r]).type # "offer" => Owned(Head(toBroker[r]).task, r)
         /\ r \in known
<1>1. toBroker[r][1] = Head(toBroker[r]) /\ 1 \in 1 .. Len(toBroker[r])
  BY TakesFacts
<1>2. Head(toBroker[r]) \in Messages
  BY ReceivedTypes
<1>3. QED  BY <1>1, <1>2 DEF LinkInv, ToBrokerInv, Received

(* The stage of one acceptance changes. *)
LEMMA StageFacts ==
  ASSUME TypeOK, NEW t \in Tasks, NEW st, st # "waiting",
         accept' = [accept EXCEPT ![t].st = st], accept[t].st = "accepted" => st = "accepted"
  PROVE  \A u \in Tasks : /\ accept'[u].runner = accept[u].runner
                          /\ accept'[u].st = "waiting" => accept[u].st = "waiting"
                          /\ accept[u].st = "accepted" => accept'[u].st = "accepted"
<1>1. accept \in [Tasks -> [st : Stages, request : Requests \cup {None}, runner : Runners \cup {None}]]
  BY DEF TypeOK
<1>2. QED  BY <1>1

LEMMA LinkStarts ==
  ASSUME TypeOK, TypeOK', MatchInv, LinkInv, KnownInv, NEW q \in Requests, StartTask(q)
  PROVE  LinkInv' /\ KnownInv'
<1>1. /\ Settle(Append(requests, q), inProgress, offers)
      /\ known' = known /\ tasks' = tasks /\ toBroker' = toBroker /\ proc' = proc /\ running' = running
  BY DEF StartTask, runnerVars
<1>2. Append(requests, q) \in Seq(Requests) /\ offers \in Seq(OfferType)
  BY DEF TypeOK, OfferType
<1>3. \A s \in Runners : Takes(s, 0)
  BY <1>1, RestsFacts
<1>4. QED  BY <1>1, <1>2, <1>3, SettleLink

LEMMA LinkOffered ==
  ASSUME TypeOK, TypeOK', MatchInv, LinkInv, KnownInv, NEW r \in Runners, TaskOffered(r)
  PROVE  LinkInv' /\ KnownInv'
<1> DEFINE o == Offer(r, Head(toBroker[r]).offer)
<1>1. /\ Settle(requests, inProgress, Append(offers, o)) /\ Received(r)
      /\ known' = known /\ tasks' = tasks /\ proc' = proc /\ running' = running
      /\ Head(toBroker[r]).type = "offer"
  BY DEF TaskOffered, Received, runnerVars, HeadIs
<1>2. o \in OfferType
  BY <1>1, HeadFacts, MessageFacts DEF OfferType, Offer
<1>3. Append(offers, o) \in Seq(OfferType) /\ requests \in Seq(Requests)
  BY <1>2 DEF TypeOK, OfferType
<1>4. \A s \in Runners : Takes(s, 0) \/ (Takes(s, 1) /\ toBroker[s][1].type = "offer")
  BY <1>1, TakesFacts
<1> HIDE DEF o
<1>5. QED  BY <1>1, <1>3, <1>4, SettleLink

LEMMA LinkAccepts ==
  ASSUME TypeOK, TypeOK', MatchInv, LinkInv, KnownInv, NEW r \in Runners, HandleRunnerAccept(r)
  PROVE  LinkInv' /\ KnownInv'
<1> DEFINE t == Head(toBroker[r]).task
<1>1. /\ Received(r) /\ Head(toBroker[r]).type = "accepted"
      /\ issued' = issued /\ known' = known /\ proc' = proc /\ running' = running
  BY DEF HandleRunnerAccept, Received, runnerVars, HeadIs
<1>2. Owned(t, r) /\ r \in known
  BY <1>1, HeadFacts
<1>3. /\ \A s \in Runners \ {r} : Takes(s, 0)
      /\ Takes(r, 1) /\ toBroker[r][1] = Head(toBroker[r])
  BY <1>1, TakesFacts
<1>4. t \in Tasks /\ toBroker[r][1].type = "accepted" /\ toBroker[r][1].task = t
      /\ ~Result(toBroker[r][1])
  BY <1>1, <1>2, <1>3 DEF Owned, Result
<1>5. CASE accept[t].st = "waiting"
  <2>1. TaskReady(r, t)
    BY <1>5 DEF HandleRunnerAccept
  <2> HIDE DEF t
  <2>2. /\ tasks' = tasks \cup {t} /\ accept' = [accept EXCEPT ![t].st = "accepted"]
        /\ toRunner' = Sent(r, [type |-> "settings", task |-> t])
    BY <1>1, <1>4, <1>5, <2>1, MatchAccepts
  <2>3. StagesStep
    BY <1>1, <1>4, <2>2, StageFacts DEF StagesStep
  <2>4. OwnedThen(t, r)
    BY <1>1, <1>2, <2>3 DEF Owned, OwnedThen, StagesStep
  <2>5. [type |-> "settings", task |-> t] \in Messages
    BY <1>4, MessageFacts
  <2>6. \A s \in Runners : \E x : toRunner'[s] = toRunner[s] \o x /\ Sendable(s, x)
    <3> DEFINE m == [type |-> "settings", task |-> t]
    <3>1. m \in Messages /\ m.type = "settings" /\ OwnedThen(m.task, r) /\ toRunner' = Sent(r, m)
      BY <2>2, <2>4, <2>5
    <3> HIDE DEF m
    <3>2. QED  BY <3>1, SentFacts
  <2>7. \A u \in tasks' \ tasks : u = t
    BY <2>2
  <2>8. QED  BY <1>2, <1>3, <1>4, <1>5, <2>3, <2>6, <2>7, StagesLink
<1>6. CASE accept[t].st # "waiting"
  <2>1. /\ accept' = IF accept[t].st = "late" THEN [accept EXCEPT ![t].st = "over"] ELSE accept
        /\ tasks' = tasks /\ toRunner' = toRunner
    BY <1>6 DEF HandleRunnerAccept
  <2> HIDE DEF t
  <2>2. StagesStep
    <3>1. CASE accept[t].st = "late"
      BY <1>1, <1>4, <2>1, <3>1, StageFacts DEF StagesStep
    <3>2. CASE accept[t].st # "late"
      BY <1>1, <2>1, <3>2 DEF StagesStep
    <3>3. QED  BY <3>1, <3>2
  <2>3. QED  BY <1>2, <1>3, <1>4, <2>1, <2>2, NothingSent, StagesLink
<1>7. QED  BY <1>5, <1>6

LEMMA LinkRejects ==
  ASSUME TypeOK, TypeOK', MatchInv, LinkInv, KnownInv, NEW r \in Runners, HandleRunnerReject(r)
  PROVE  LinkInv' /\ KnownInv'
<1> DEFINE t == Head(toBroker[r]).task
<1>1. /\ Received(r) /\ Head(toBroker[r]).type \in {"rejected", "deferred"}
      /\ issued' = issued /\ known' = known /\ proc' = proc /\ running' = running
      /\ tasks' = tasks /\ toRunner' = toRunner
      /\ \/ accept[t].st \in {"waiting", "late"} /\ accept' = [accept EXCEPT ![t].st = "over"]
         \/ accept' = accept
  BY DEF HandleRunnerReject, GiveUp, Received, runnerVars, HeadIs
<1>2. Owned(t, r) /\ r \in known
  BY <1>1, HeadFacts
<1>3. /\ \A s \in Runners \ {r} : Takes(s, 0)
      /\ Takes(r, 1) /\ toBroker[r][1] = Head(toBroker[r])
  BY <1>1, TakesFacts
<1>4. t \in Tasks /\ ~Result(toBroker[r][1])
  BY <1>1, <1>2, <1>3 DEF Owned, Result
<1> HIDE DEF t
<1>5. StagesStep
  <2>1. CASE accept' = accept
    BY <1>1, <2>1 DEF StagesStep
  <2>2. CASE accept[t].st \in {"waiting", "late"} /\ accept' = [accept EXCEPT ![t].st = "over"]
    BY <1>1, <1>4, <2>2, StageFacts DEF StagesStep
  <2>3. QED  BY <1>1, <2>1, <2>2
<1>6. QED  BY <1>1, <1>2, <1>3, <1>4, <1>5, NothingSent, StagesLink

LEMMA LinkDone ==
  ASSUME TypeOK, TypeOK', MatchInv, LinkInv, KnownInv, NEW r \in Runners, TaskDone(r)
  PROVE  LinkInv' /\ KnownInv'
<1> DEFINE t == Head(toBroker[r]).task
<1>1. /\ Received(r) /\ Head(toBroker[r]).type \in {"done", "error"}
      /\ issued' = issued /\ known' = known /\ proc' = proc /\ running' = running
      /\ tasks' = tasks \ {t} /\ toRunner' = toRunner /\ accept' = accept
  BY DEF TaskDone, Received, runnerVars, HeadIs
<1>2. r \in known
  BY <1>1, HeadFacts
<1>3. /\ \A s \in Runners \ {r} : Takes(s, 0)
      /\ Takes(r, 1) /\ toBroker[r][1] = Head(toBroker[r])
  BY <1>1, TakesFacts
<1>4. toBroker[r][1].task \notin tasks'
  BY <1>1, <1>3
<1>5. StagesStep /\ tasks' \subseteq tasks
  BY <1>1 DEF StagesStep
<1>6. QED  BY <1>1, <1>2, <1>3, <1>4, <1>5, NothingSent, StagesLink

LEMMA LinkTimesOut ==
  ASSUME TypeOK, TypeOK', MatchInv, LinkInv, KnownInv, NEW t \in Tasks, AcceptTimeout(t)
  PROVE  LinkInv' /\ KnownInv'
<1>1. /\ accept[t].st = "waiting" /\ accept' = [accept EXCEPT ![t].st = "late"]
      /\ issued' = issued /\ known' = known /\ proc' = proc /\ running' = running
      /\ tasks' = tasks /\ toRunner' = toRunner /\ toBroker' = toBroker
  BY DEF AcceptTimeout, GiveUp, runnerVars
<1>2. StagesStep
  BY <1>1, StageFacts DEF StagesStep
<1>3. \A s \in Runners : Takes(s, 0)
  BY <1>1, RestsFacts
<1>4. accept[t].runner \in Runners
  BY <1>1 DEF MatchInv, IssuedInv
<1>5. QED  BY <1>1, <1>2, <1>3, <1>4, NothingSent, StagesLink

(* In external mode the runner is asked to cancel the task. *)
LEMMA LinkCancels ==
  ASSUME TypeOK, TypeOK', MatchInv, LinkInv, KnownInv, NEW t \in Tasks, TaskTimeout(t), Mode # "internal"
  PROVE  LinkInv' /\ KnownInv'
<1> DEFINE r == accept[t].runner
           m == [type |-> "cancel", task |-> t]
<1>1. /\ t \in tasks /\ accept[t].st = "accepted" /\ accept' = accept
      /\ issued' = issued /\ known' = known /\ proc' = proc /\ running' = running
      /\ tasks' = tasks \ {t} /\ toRunner' = Sent(r, m) /\ toBroker' = toBroker
  BY DEF TaskTimeout
<1>2. StagesStep /\ tasks' \subseteq tasks
  BY <1>1 DEF StagesStep
<1>3. \A s \in Runners : Takes(s, 0)
  BY <1>1, RestsFacts
<1>4. r \in Runners /\ t <= issued
  <2>1. r \in Runners /\ ~(t > issued)
    BY <1>1 DEF MatchInv, IssuedInv
  <2>2. t \in Nat /\ issued \in Nat
    BY LinkTypes
  <2>3. QED  BY <2>1, <2>2
<1>5. OwnedThen(t, r) /\ EndedThen(t)
  BY <1>1, <1>4 DEF OwnedThen, EndedThen
<1>6. m \in Messages /\ m.type = "cancel" /\ m.task = t
  BY MessageFacts
<1> HIDE DEF r, m
<1>7. \A s \in Runners : \E x : toRunner'[s] = toRunner[s] \o x /\ Sendable(s, x)
  BY <1>1, <1>4, <1>5, <1>6, SentFacts
<1>8. QED  BY <1>2, <1>3, <1>4, <1>7, StagesLink

(* What is left of a process that ends. *)
LEMMA EndsFacts ==
  ASSUME TypeOK, NEW r \in Runners, NEW how, NEW k \in 0 .. Len(toBroker[r]), Ends(r, how, k)
  PROVE  /\ proc'[r] = how /\ running'[r] = [t \in Tasks |-> "none"]
         /\ toBroker'[r] = SubSeq(toBroker[r], 1, k)
         /\ k = 0 => toBroker'[r] = <<>>
         /\ k = Len(toBroker[r]) => toBroker'[r] = toBroker[r]
         /\ \A s \in Runners \ {r} : /\ proc'[s] = proc[s] /\ running'[s] = running[s]
                                     /\ toBroker'[s] = toBroker[s]
<1>1. /\ proc'[r] = how /\ running'[r] = [t \in Tasks |-> "none"]
      /\ toBroker'[r] = SubSeq(toBroker[r], 1, k)
      /\ \A s \in Runners \ {r} : /\ proc'[s] = proc[s] /\ running'[s] = running[s]
                                  /\ toBroker'[s] = toBroker[s]
  BY DEF Ends, TypeOK
<1>2. toBroker[r] \in Seq(Messages)
  BY LinkTypes
<1>3. SubSeq(toBroker[r], 1, 0) = <<>> /\ SubSeq(toBroker[r], 1, Len(toBroker[r])) = toBroker[r]
  BY <1>2
<1>4. QED  BY <1>1, <1>3

LEMMA LinkRestarts ==
  ASSUME TypeOK, TypeOK', LinkInv, KnownInv, ForceRestart, UNCHANGED <<accept, issued, known>>,
         tasks' \subseteq tasks
  PROVE  LinkInv' /\ KnownInv'
<1>1. Current \in SUBSET Runners
  BY DEF Current
<1>2. ASSUME NEW r \in Current
      PROVE  /\ proc'[r] = "dead" /\ running'[r] = [t \in Tasks |-> "none"] /\ toRunner'[r] = <<>>
             /\ \E k \in 0 .. Len(toBroker[r]) : toBroker'[r] = SubSeq(toBroker[r], 1, k)
             /\ \A s \in Runners \ {r} : /\ proc'[s] = proc[s] /\ running'[s] = running[s]
                                         /\ toBroker'[s] = toBroker[s]
  <2>1. PICK k \in 0 .. Len(toBroker[r]) : Ends(r, "dead", k)
    BY DEF ForceRestart
  <2>2. r \in Runners /\ toRunner'[r] = <<>>
    BY <1>1 DEF ForceRestart
  <2>3. QED  BY <2>1, <2>2, EndsFacts
<1>3. ASSUME NEW r \in Runners \ Current
      PROVE  /\ toRunner'[r] = toRunner[r] /\ toBroker'[r] = toBroker[r]
             /\ running'[r] = running[r] /\ proc'[r] = proc[r]
  <2>1. toRunner'[r] = toRunner[r]
    BY DEF ForceRestart
  <2>2. CASE Current = {}
    BY <2>1, <2>2 DEF ForceRestart
  <2>3. CASE Current # {}
    BY <1>2, <2>1, <2>3
  <2>4. QED  BY <2>2, <2>3
<1>4. "dead" \notin Up
  BY DEF Up
<1>5. EndStep(Current)
  BY <1>2, <1>3, <1>4 DEF EndStep
<1>6. LinkInv'
  BY <1>1, <1>5, EndLink
<1>7. QED  BY <1>6 DEF KnownInv

LEMMA LinkCrashes ==
  ASSUME TypeOK, TypeOK', LinkInv, KnownInv, NEW r \in Runners, Crash(r)
  PROVE  LinkInv' /\ KnownInv'
<1>1. PICK k \in 0 .. Len(toBroker[r]) : Ends(r, "dead", k)
  BY DEF Crash
<1>2. /\ toRunner'[r] = <<>> /\ \A s \in Runners \ {r} : toRunner'[s] = toRunner[s]
      /\ accept' = accept /\ issued' = issued /\ tasks' = tasks /\ known' = known
  BY DEF Crash, TypeOK, brokerVars
<1>3. "dead" \notin Up
  BY DEF Up
<1>4. EndStep({r})
  BY <1>1, <1>2, <1>3, EndsFacts DEF EndStep
<1>5. LinkInv'
  BY <1>4, EndLink
<1>6. QED  BY <1>2, <1>5 DEF KnownInv

LEMMA LinkLeaves ==
  ASSUME TypeOK, TypeOK', LinkInv, KnownInv, NEW r \in Runners, Leave(r)
  PROVE  LinkInv' /\ KnownInv'
<1>1. Len(toBroker[r]) \in 0 .. Len(toBroker[r]) /\ Ends(r, "left", Len(toBroker[r]))
  BY LinkTypes DEF Leave
<1>2. /\ toRunner'[r] = <<>> /\ \A s \in Runners \ {r} : toRunner'[s] = toRunner[s]
      /\ accept' = accept /\ issued' = issued /\ tasks' = tasks /\ known' = known
      /\ proc[r] = "stopping" /\ RunningTasks(r) = {}
  BY DEF Leave, TypeOK, brokerVars
<1>3. "left" \notin Up /\ "stopping" \in Up
  BY DEF Up
<1>4. EndStep({r})
  BY <1>1, <1>2, <1>3, EndsFacts DEF EndStep
<1>5. LinkInv'
  BY <1>4, EndLink
<1>6. QED  BY <1>2, <1>5 DEF KnownInv

LEMMA LinkDeregisters ==
  ASSUME TypeOK, TypeOK', LinkInv, KnownInv, NEW r \in Runners, DeregisterRunner(r)
  PROVE  LinkInv' /\ KnownInv'
<1> DEFINE how == IF proc[r] \in Up THEN "dead" ELSE proc[r]
<1>1. 0 \in 0 .. Len(toBroker[r]) /\ Ends(r, how, 0)
  BY LinkTypes DEF DeregisterRunner
<1>2. /\ toRunner'[r] = <<>> /\ \A s \in Runners \ {r} : toRunner'[s] = toRunner[s]
      /\ accept' = accept /\ issued' = issued /\ known' = known \ {r}
      /\ tasks' = tasks \ {t \in tasks : accept[t].runner = r}
  BY DEF DeregisterRunner, TypeOK
<1>3. how \notin Up
  BY DEF Up
<1> HIDE DEF how
<1>4. EndStep({r})
  BY <1>1, <1>2, <1>3, EndsFacts DEF EndStep
<1>5. LinkInv'
  BY <1>4, EndLink
<1>6. QED  BY <1>2, <1>5 DEF KnownInv

(* A runner that is not born holds nothing, and a registration brings its   *)
(* own message.                                                             *)
LEMMA LinkRests ==
  ASSUME TypeOK, TypeOK', LinkInv, KnownInv, ConnInv, NEW r \in Runners,
         \/ ConnectionCloses(r) \/ StartRunner(r) \/ RegisterRunner(r) \/ StopRunner(r)
         \/ \E o \in OfferIds : OfferAges(r, o)
         \/ HeartbeatFails(r) /\ Mode # "internal"
         \/ UNCHANGED vars
  PROVE  LinkInv' /\ KnownInv'
<1>1. /\ accept' = accept /\ issued' = issued /\ tasks' = tasks /\ toBroker' = toBroker
      /\ running' = running /\ known \subseteq known'
      /\ toRunner' \in {toRunner, [toRunner EXCEPT ![r] = <<[type |-> "registered"]>>]}
      /\ \/ proc' = proc
         \/ proc[r] = "unborn" /\ proc' = [proc EXCEPT ![r] = "starting"]
         \/ proc[r] \in Up /\ proc' = [proc EXCEPT ![r] = "stopping"]
  BY DEF ConnectionCloses, StartRunner, RegisterRunner, StopRunner, OfferAges, HeartbeatFails,
     vars, stepVars, brokerVars, runnerVars, Up
<1>2. \A s \in Runners : toRunner'[s] \in {toRunner[s], <<[type |-> "registered"]>>}
  BY <1>1 DEF TypeOK
<1>3. ASSUME proc[r] = "unborn" PROVE Held(r, Len(toBroker[r])) = {}
  <2>1. toBroker[r] = <<>> /\ r \notin known
    BY <1>3 DEF ConnInv
  <2>2. Len(toBroker[r]) = 0
    BY <2>1
  <2>3. \A t \in tasks : accept[t].runner # r
    BY <2>1 DEF KnownInv
  <2>4. QED  BY <2>2, <2>3 DEF Held
<1>4. QuietStep
  <2>1. ASSUME NEW s \in Runners
        PROVE  /\ proc'[s] \in Up => proc[s] \in Up \/ Held(s, Len(toBroker[s])) = {}
               /\ proc'[s] = "left" => proc[s] = "left"
    BY <1>1, <1>3 DEF TypeOK
  <2>2. QED  BY <1>1, <1>2, <2>1 DEF QuietStep
<1>5. QED  BY <1>1, <1>4, QuietLink DEF KnownInv

LEMMA RoomFacts ==
  ASSUME TypeOK', IInv', NEW r \in Runners
  PROVE  Cardinality(RunningTasks(r)') <= MaxConcurrency
<1>1. /\ Load(open'[r], running'[r]) <= MaxConcurrency /\ open'[r] \in SUBSET OfferIds
      /\ RunningTasks(r)' = Busy(running'[r])
  BY DEF TypeOK, IInv, LoadInv, Load, Busy, RunningTasks
<1>2. Cardinality(open'[r]) \in Nat /\ Cardinality(Busy(running'[r])) \in Nat /\ MaxConcurrency \in Nat
  BY <1>1, LoadTypes, ConstantsAssumption
<1>3. Cardinality(open'[r]) + Cardinality(Busy(running'[r])) <= MaxConcurrency
  BY <1>1 DEF Load
<1>4. QED  BY <1>1, <1>2, <1>3

(* What a runner that is alive leaves alone, and what it takes. *)
RunnerMoves(r) ==
  /\ UNCHANGED <<accept, tasks, issued, known>>
  /\ proc[r] \in Up /\ proc'[r] \in Up
  /\ \A s \in Runners \ {r} : proc'[s] = proc[s] /\ toRunner'[s] = toRunner[s]
  /\ \/ toRunner'[r] = toRunner[r]
     \/ toRunner[r] # <<>> /\ toRunner'[r] = Tail(toRunner[r])

LEMMA ArrivesFacts ==
  ASSUME TypeOK, LinkInv, NEW r \in Runners, NEW type, Arrives(r, type),
         proc' = proc \/ proc' = [proc EXCEPT ![r] = IF @ = "starting" THEN "offering" ELSE @]
                      \/ proc' = [proc EXCEPT ![r] = "offering"]
  PROVE  /\ RunnerMoves(r) /\ toRunner[r] # <<>> /\ toRunner'[r] = Tail(toRunner[r])
         /\ toRunner[r][1] = Head(toRunner[r]) /\ Head(toRunner[r]).type = type
         /\ Head(toRunner[r]) \in Messages
         /\ type \in {"accept", "settings", "cancel"} => Owned(Head(toRunner[r]).task, r)
         /\ type = "cancel" => Ended(Head(toRunner[r]).task)
         /\ type = "accept" => running[r][Head(toRunner[r]).task] = "none"
<1>1. /\ proc[r] \in Up /\ toRunner[r] # <<>> /\ toRunner'[r] = Tail(toRunner[r])
      /\ Head(toRunner[r]).type = type
      /\ \A s \in Runners \ {r} : toRunner'[s] = toRunner[s]
      /\ UNCHANGED <<accept, tasks, issued, known>>
  BY DEF Arrives, Current, TypeOK, brokerVars
<1>2. toRunner[r] \in Seq(Messages)
  BY LinkTypes
<1>3. 1 \in 1 .. Len(toRunner[r]) /\ toRunner[r][1] = Head(toRunner[r]) /\ Head(toRunner[r]) \in Messages
  BY <1>1, <1>2
<1>4. proc'[r] \in Up /\ \A s \in Runners \ {r} : proc'[s] = proc[s]
  BY <1>1 DEF TypeOK, Up
<1>5. RunnerMoves(r)
  BY <1>1, <1>4 DEF RunnerMoves
<1>6. QED  BY <1>1, <1>3, <1>5 DEF LinkInv, ToRunnerInv

(* A runner that only sends, or that also changes the status of a task.     *)
LEMMA LinkSends ==
  ASSUME TypeOK, TypeOK', IInv', LinkInv, KnownInv, NEW r \in Runners, RunnerMoves(r),
         NEW m \in Messages, toBroker' \in {toBroker, [toBroker EXCEPT ![r] = @ \o <<m>>]},
         ~Result(m) /\ m.type # "accepted", m.type # "offer" => Owned(m.task, r),
         NEW t \in Tasks, NEW st \in TaskStatuses \ {"none"},
         running' \in {running, [running EXCEPT ![r][t] = st]},
         running' # running => running[r][t] # "none" /\ (st = "aborting:cancelled" => Ended(t))
  PROVE  LinkInv' /\ KnownInv'
<1>1. PICK w \in {<<>>, <<m>>} : toBroker' = [toBroker EXCEPT ![r] = @ \o w]
  <2>1. CASE toBroker' = toBroker
    <3>1. toBroker[r] \o <<>> = toBroker[r]
      BY LinkTypes
    <3>2. toBroker' = [toBroker EXCEPT ![r] = @ \o <<>>]
      BY <2>1, <3>1 DEF TypeOK
    <3>3. QED  BY <3>2
  <2>2. QED  BY <2>1
<1>2. w \in Seq(Messages) /\ \A j \in 1 .. Len(w) : w[j] = m
  <2>1. CASE w = <<>>
    BY <2>1
  <2>2. CASE w = <<m>>
    BY <2>2
  <2>3. QED  BY <2>1, <2>2
<1> DEFINE status == running'[r]
<1>3. /\ status \in [Tasks -> TaskStatuses] /\ running' = [running EXCEPT ![r] = status]
      /\ \/ status = running[r]
         \/ running' # running /\ status = [running[r] EXCEPT ![t] = st]
  BY DEF TypeOK
<1>4. \A u \in Tasks :
        \/ status[u] = running[r][u]
        \/ u = t /\ status[u] = st /\ running' # running
  BY <1>3 DEF TypeOK
<1> HIDE DEF status
<1>5. \A u \in Tasks :
        /\ status[u] # "none" => running[r][u] # "none"
        /\ status[u] = "none" => running[r][u] = "none"
        /\ status[u] = "aborting:cancelled" => running[r][u] = "aborting:cancelled" \/ Ended(u)
  BY <1>4
<1>6. RunnerStep(r, w, status)
  BY <1>1, <1>2, <1>3, <1>5 DEF RunnerStep, RunnerMoves
<1>7. Cardinality(RunningTasks(r)') <= MaxConcurrency
  BY RoomFacts
<1>8. LinkInv'
  BY <1>6, <1>7, RunnerLink
<1>9. QED  BY <1>8 DEF KnownInv, RunnerMoves

LEMMA JoinFacts ==
  ASSUME NEW S, NEW a \in Seq(S), NEW b \in Seq(S), NEW c \in Seq(S)
  PROVE  /\ (a \o b) \o c = a \o (b \o c)
         /\ Len(b) \in Nat /\ Len(c) \in Nat /\ Len(b \o c) = Len(b) + Len(c)
         /\ \A j \in 1 .. Len(b \o c) :
              \/ j \in 1 .. Len(b) /\ (b \o c)[j] = b[j]
              \/ j - Len(b) \in 1 .. Len(c) /\ (b \o c)[j] = c[j - Len(b)]
         /\ Len(b) = 1 => Len(b \o c) > 0 /\ (b \o c)[1] = b[1]
<1>1. (a \o b) \o c = a \o (b \o c)
  BY ConcatAssociative
<1>2. Len(b) \in Nat /\ Len(c) \in Nat /\ Len(b \o c) = Len(b) + Len(c)
  OBVIOUS
<1>3. \A j \in 1 .. Len(b \o c) :
              \/ j \in 1 .. Len(b) /\ (b \o c)[j] = b[j]
              \/ j - Len(b) \in 1 .. Len(c) /\ (b \o c)[j] = c[j - Len(b)]
  OBVIOUS
<1>4. Len(b) = 1 => Len(b \o c) > 0 /\ (b \o c)[1] = b[1]
  BY <1>2
<1>5. QED  BY <1>1, <1>2, <1>3, <1>4

(* sendOffers, perhaps after a task was finished with a message. *)
LEMMA LinkFinishes ==
  ASSUME TypeOK, TypeOK', IInv', LinkInv, KnownInv, NEW r \in Runners, RunnerMoves(r),
         NEW held \in SUBSET OfferIds, NEW status \in [Tasks -> TaskStatuses], NEW ms \in Seq(Messages),
         SendOffers(r, held, status, ms),
         \/ status = running[r] /\ ms = <<>>
         \/ \E t \in Tasks :
              /\ running[r][t] # "none" /\ status = [running[r] EXCEPT ![t] = "none"]
              /\ \/ ms = <<>> /\ Ended(t)
                 \/ \E m \in Messages : ms = <<m>> /\ Result(m) /\ m.task = t
  PROVE  LinkInv' /\ KnownInv'
<1>0. Offered(r, status, ms)
  BY SendOffersTypes
<1>1. PICK made \in Seq(Messages) :
        /\ \A i \in 1 .. Len(made) : made[i].type = "offer"
        /\ toBroker' = [toBroker EXCEPT ![r] = @ \o ms \o made]
  BY <1>0 DEF Offered
<1>2. running' = [running EXCEPT ![r] = status]
  BY <1>0 DEF Offered
<1> DEFINE w == ms \o made
<1>3. w \in Seq(Messages) /\ toBroker' = [toBroker EXCEPT ![r] = @ \o w]
  <2>1. toBroker[r] \in Seq(Messages)
    BY LinkTypes
  <2> DEFINE c == toBroker[r]
  <2> HIDE DEF c
  <2>2. c \in Seq(Messages)
    BY <2>1 DEF c
  <2>3. (c \o ms) \o made = c \o (ms \o made)
    BY <2>2, JoinFacts, SMTT(30)
  <2>4. QED  BY <1>1, <2>3 DEF c
<1>4. \A j \in 1 .. Len(w) : w[j].type = "offer" \/ (j = 1 /\ Len(ms) = 1 /\ w[j] = ms[1])
  <2>1. Len(ms) \in {0, 1} /\ ms \in Seq(Messages) /\ made \in Seq(Messages)
    OBVIOUS
  <2>2. \A j \in 1 .. Len(w) : \/ j \in 1 .. Len(ms) /\ w[j] = ms[j]
                               \/ j - Len(ms) \in 1 .. Len(made) /\ w[j] = made[j - Len(ms)]
    BY JoinFacts
  <2> HIDE DEF w
  <2>3. QED  BY <1>1, <2>1, <2>2
<1>5. Len(ms) = 1 => Len(w) > 0 /\ w[1] = ms[1]
  BY JoinFacts
<1> HIDE DEF w
<1>6. \A j \in 1 .. Len(w) :
       /\ w[j].type # "offer" => Owned(w[j].task, r)
       /\ Result(w[j]) => running[r][w[j].task] # "none"
       /\ w[j].type # "accepted"
  <2> SUFFICES ASSUME NEW j \in 1 .. Len(w), w[j].type # "offer"
               PROVE  /\ Owned(w[j].task, r) /\ running[r][w[j].task] # "none"
                      /\ w[j].type # "accepted"
    BY DEF Result
  <2>1. Len(ms) = 1 /\ w[j] = ms[1]
    BY <1>4
  <2>2. PICK t \in Tasks, m \in Messages : running[r][t] # "none" /\ ms = <<m>> /\ Result(m) /\ m.task = t
    <3>1. CASE ms = <<>>
      <4>1. Len(ms) = 0
        BY <3>1
      <4>2. QED  BY <2>1, <4>1
    <3>2. QED  BY <3>1
  <2>3. w[j] = m
    BY <2>1, <2>2
  <2>4. QED  BY <2>2, <2>3 DEF LinkInv, RunningInv, Result
<1>7. \A t \in Tasks :
       /\ status[t] # "none" => running[r][t] = status[t]
       /\ status[t] = "none" /\ running[r][t] # "none" =>
            Ended(t) \/ (Len(w) > 0 /\ Result(w[1]) /\ w[1].task = t)
  <2>1. CASE status = running[r] /\ ms = <<>>
    BY <2>1
  <2>2. ASSUME NEW u \in Tasks, status = [running[r] EXCEPT ![u] = "none"],
               \/ ms = <<>> /\ Ended(u)
               \/ \E m \in Messages : ms = <<m>> /\ Result(m) /\ m.task = u
        PROVE  \A t \in Tasks :
                 /\ status[t] # "none" => running[r][t] = status[t]
                 /\ status[t] = "none" /\ running[r][t] # "none" =>
                      Ended(t) \/ (Len(w) > 0 /\ Result(w[1]) /\ w[1].task = t)
    <3>1. running[r] \in [Tasks -> TaskStatuses]
      BY LinkTypes
    <3>2. \A t \in Tasks : status[t] = running[r][t] \/ (t = u /\ status[t] = "none")
      BY <2>2, <3>1
    <3>3. Ended(u) \/ (Len(w) > 0 /\ Result(w[1]) /\ w[1].task = u)
      <4>1. CASE \E m \in Messages : ms = <<m>> /\ Result(m) /\ m.task = u
        <5>1. PICK m \in Messages : ms = <<m>> /\ Result(m) /\ m.task = u
          BY <4>1
        <5>2. Len(ms) = 1 /\ ms[1] = m
          BY <5>1
        <5>3. QED  BY <1>5, <5>1, <5>2
      <4>2. QED  BY <2>2, <4>1
    <3>4. QED  BY <3>2, <3>3
  <2>3. QED  BY <2>1, <2>2
<1>8. RunnerStep(r, w, status)
  BY <1>2, <1>3, <1>6, <1>7 DEF RunnerStep, RunnerMoves
<1>9. Cardinality(RunningTasks(r)') <= MaxConcurrency
  BY RoomFacts
<1>10. LinkInv'
  BY <1>8, <1>9, RunnerLink
<1>11. QED  BY <1>10 DEF KnownInv, RunnerMoves

LEMMA LinkHandles ==
  ASSUME TypeOK, TypeOK', IInv', LinkInv, KnownInv, NEW r \in Runners,
         \/ Registered(r) \/ ReceivedSettings(r) \/ LauncherOffers(r) \/ LauncherDefers(r)
  PROVE  LinkInv' /\ KnownInv'
<1> DEFINE m == Head(toRunner[r])
<1>1. CASE Registered(r)
  <2>1. /\ Arrives(r, "registered") /\ toBroker' = toBroker /\ running' = running
        /\ proc' = [proc EXCEPT ![r] = IF @ = "starting" THEN "offering" ELSE @]
    BY <1>1 DEF Registered
  <2>2. RunnerMoves(r) /\ m \in Messages /\ m.type = "registered"
    BY <2>1, ArrivesFacts
  <2>3. RunnerStep(r, <<>>, running[r])
    <3>1. toBroker' = [toBroker EXCEPT ![r] = @ \o <<>>] /\ running' = [running EXCEPT ![r] = running[r]]
      <4>1. toBroker[r] \o <<>> = toBroker[r]
        BY LinkTypes
      <4>2. QED  BY <2>1, <4>1 DEF TypeOK
    <3>2. running[r] \in [Tasks -> TaskStatuses] /\ <<>> \in Seq(Messages) /\ Len(<<>>) = 0
      BY LinkTypes
    <3>3. QED  BY <2>2, <3>1, <3>2 DEF RunnerStep, RunnerMoves
  <2>4. Cardinality(RunningTasks(r)') <= MaxConcurrency
    BY RoomFacts
  <2>5. LinkInv'
    BY <2>3, <2>4, RunnerLink
  <2>6. QED  BY <2>2, <2>5 DEF KnownInv, RunnerMoves
<1>2. CASE ReceivedSettings(r)
  <2>1. /\ Arrives(r, "settings") /\ toBroker' = toBroker /\ proc' = proc
        /\ \/ running' = running
           \/ /\ running[r][m.task] = "waitingForSettings"
              /\ running' = [running EXCEPT ![r][m.task] = "running"]
    BY <1>2 DEF ReceivedSettings, SetTask
  <2>2. RunnerMoves(r) /\ m \in Messages /\ m.type = "settings" /\ Owned(m.task, r)
    BY <2>1, ArrivesFacts
  <2> HIDE DEF m
  <2>3. ~Result(m) /\ m.type # "accepted" /\ m.task \in Tasks
    BY <2>2 DEF Result, Owned
  <2>4. "running" \in TaskStatuses \ {"none"}
    BY DEF TaskStatuses
  <2>5. QED  BY <2>1, <2>2, <2>3, <2>4, LinkSends
<1>3. CASE LauncherOffers(r)
  <2>1. PICK o \in OfferIds :
          /\ Arrives(r, "registered") /\ running' = running
          /\ toBroker' = [toBroker EXCEPT ![r] = @ \o <<[type |-> "offer", offer |-> o]>>]
          /\ proc' = [proc EXCEPT ![r] = "offering"]
    BY <1>3 DEF LauncherOffers, Send
  <2>2. RunnerMoves(r)
    BY <2>1, ArrivesFacts
  <2> DEFINE p == [type |-> "offer", offer |-> o]
  <2>3. p \in Messages /\ p.type = "offer"
    BY MessageFacts
  <2> HIDE DEF p
  <2>4. ~Result(p) /\ p.type # "accepted"
    BY <2>3 DEF Result
  <2>5. toBroker' = [toBroker EXCEPT ![r] = @ \o <<p>>]
    BY <2>1 DEF p
  <2>6. RunnerStep(r, <<p>>, running[r])
    <3>1. running' = [running EXCEPT ![r] = running[r]] /\ running[r] \in [Tasks -> TaskStatuses]
      BY <2>1, LinkTypes DEF TypeOK
    <3>2. <<p>> \in Seq(Messages) /\ \A j \in 1 .. Len(<<p>>) : <<p>>[j] = p
      BY <2>3
    <3>3. QED  BY <2>2, <2>3, <2>4, <2>5, <3>1, <3>2 DEF RunnerStep, RunnerMoves
  <2>7. Cardinality(RunningTasks(r)') <= MaxConcurrency
    BY RoomFacts
  <2>8. LinkInv'
    BY <2>6, <2>7, RunnerLink
  <2>9. QED  BY <2>2, <2>8 DEF KnownInv, RunnerMoves
<1>4. CASE LauncherDefers(r)
  <2>1. /\ Arrives(r, "accept") /\ running' = running /\ proc' = proc
        /\ toBroker' = [toBroker EXCEPT ![r] = @ \o <<Message("deferred", m.task)>>]
    BY <1>4 DEF LauncherDefers, Send
  <2>2. RunnerMoves(r) /\ Owned(m.task, r) /\ m.task \in Tasks
    BY <2>1, ArrivesFacts DEF Owned
  <2> DEFINE p == Message("deferred", m.task)
  <2>3. p \in Messages /\ p.type = "deferred" /\ p.task = m.task
    BY <2>2, MessageFacts DEF Message
  <2>4. toBroker' = [toBroker EXCEPT ![r] = @ \o <<p>>]
    BY <2>1
  <2> HIDE DEF p, m
  <2>5. ~Result(p) /\ p.type # "accepted" /\ Owned(p.task, r)
    BY <2>2, <2>3 DEF Result
  <2>6. "running" \in TaskStatuses \ {"none"}
    BY DEF TaskStatuses
  <2>7. QED  BY <2>1, <2>2, <2>3, <2>4, <2>5, <2>6, LinkSends
<1>5. QED  BY <1>1, <1>2, <1>3, <1>4

(* An acceptance reaches the runner before anything else of its task. *)
LEMMA LinkAccepted ==
  ASSUME TypeOK, TypeOK', IInv', LinkInv, KnownInv, NEW r \in Runners, OfferAccepted(r)
  PROVE  LinkInv' /\ KnownInv'
<1> DEFINE m == Head(toRunner[r])
           t == m.task
           taken == Cardinality(RunningTasks(r)) < MaxConcurrency /\ m.offer \in open[r]
           p == Message(IF taken THEN "accepted" ELSE "rejected", t)
           status == running'[r]
<1>1. /\ Arrives(r, "accept") /\ proc' = proc
      /\ running' = IF taken THEN [running EXCEPT ![r][t] = "waitingForSettings"] ELSE running
      /\ toBroker' = [toBroker EXCEPT ![r] = @ \o <<p>>]
  BY DEF OfferAccepted, SetTask, Send
<1> HIDE DEF taken
<1>2. /\ RunnerMoves(r) /\ Owned(t, r) /\ t \in Tasks /\ running[r][t] = "none"
      /\ toRunner[r] # <<>> /\ toRunner'[r] = Tail(toRunner[r])
      /\ toRunner[r][1].type = "accept" /\ toRunner[r][1].task = t
  BY <1>1, ArrivesFacts DEF Owned
<1>3. /\ p \in Messages /\ p.task = t /\ ~Result(p) /\ p.type # "offer"
      /\ p.type = IF taken THEN "accepted" ELSE "rejected"
  BY <1>2, MessageFacts DEF Message, Result
<1> HIDE DEF p, m, t
<1>4. /\ status \in [Tasks -> TaskStatuses] /\ running' = [running EXCEPT ![r] = status]
      /\ status = IF taken THEN [running[r] EXCEPT ![t] = "waitingForSettings"] ELSE running[r]
  BY <1>1, <1>2 DEF TypeOK
<1>5. running[r] \in [Tasks -> TaskStatuses]
  BY LinkTypes
<1> HIDE DEF status
<1>6. /\ p.type = "accepted" => status[t] # "none"
      /\ \A u \in Tasks : u # t => status[u] = running[r][u]
      /\ status[t] \in {"none", "waitingForSettings"}
  BY <1>2, <1>3, <1>4, <1>5
<1>7. <<p>> \in Seq(Messages) /\ Len(<<p>>) = 1 /\ \A j \in 1 .. Len(<<p>>) : <<p>>[j] = p
  BY <1>3
<1>8. RunnerStep(r, <<p>>, status)
  BY <1>1, <1>2, <1>3, <1>4, <1>6, <1>7 DEF RunnerStep, RunnerMoves
<1>9. Cardinality(RunningTasks(r)') <= MaxConcurrency
  BY RoomFacts
<1>10. LinkInv'
  BY <1>8, <1>9, RunnerLink
<1>11. QED  BY <1>2, <1>10 DEF KnownInv, RunnerMoves

(* The status of a task changes and nothing is sent. *)
LEMMA LinkSets ==
  ASSUME TypeOK, TypeOK', IInv', LinkInv, KnownInv, NEW r \in Runners, RunnerMoves(r),
         NEW t \in Tasks, NEW st \in TaskStatuses \ {"none"}, SetTask(r, t, st), toBroker' = toBroker,
         running[r][t] # "none", st = "aborting:cancelled" => Ended(t)
  PROVE  LinkInv' /\ KnownInv'
<1> DEFINE p == Message("rejected", t)
<1>1. running' = [running EXCEPT ![r][t] = st]
  BY DEF SetTask
<1>2. Owned(t, r)
  BY DEF LinkInv, RunningInv
<1>3. p \in Messages /\ p.type = "rejected" /\ p.task = t
  BY MessageFacts DEF Message
<1> HIDE DEF p
<1>4. ~Result(p) /\ p.type # "accepted" /\ Owned(p.task, r)
  BY <1>2, <1>3 DEF Result
<1>5. QED  BY <1>1, <1>3, <1>4, LinkSends

LEMMA LinkCancelled ==
  ASSUME TypeOK, TypeOK', IInv', LinkInv, KnownInv, NEW r \in Runners, TaskCancelled(r)
  PROVE  LinkInv' /\ KnownInv'
<1> DEFINE m == Head(toRunner[r])
           t == m.task
<1>1. Arrives(r, "cancel") /\ proc' = proc
  BY DEF TaskCancelled
<1>2. RunnerMoves(r) /\ t \in Tasks /\ Owned(t, r) /\ Ended(t) /\ m \in Messages /\ m.type = "cancel"
  BY <1>1, ArrivesFacts DEF Owned
<1>3. running[r] \in [Tasks -> TaskStatuses] /\ open[r] \in SUBSET OfferIds
  BY DEF TypeOK
<1>4. CASE running[r][t] = "waitingForSettings"
  <2>1. FinishTask(r, t, <<>>)
    BY <1>4 DEF TaskCancelled
  <2> HIDE DEF t
  <2> DEFINE status == [running[r] EXCEPT ![t] = "none"]
  <2>2. status \in [Tasks -> TaskStatuses] /\ <<>> \in Seq(Messages)
    <3>1. status \in [Tasks -> TaskStatuses]
      BY <1>3 DEF TaskStatuses
    <3>2. QED  BY <3>1
  <2>3. SendOffers(r, open[r], status, <<>>)
    BY <2>1 DEF FinishTask
  <2>4. status = [running[r] EXCEPT ![t] = "none"] /\ running[r][t] # "none"
    BY <1>4
  <2> HIDE DEF status
  <2>5. QED  BY <1>2, <1>3, <2>2, <2>3, <2>4, LinkFinishes
<1>5. CASE running[r][t] = "running"
  <2>1. SetTask(r, t, "aborting:cancelled") /\ toBroker' = toBroker
    BY <1>5 DEF TaskCancelled
  <2>2. "aborting:cancelled" \in TaskStatuses \ {"none"}
    BY DEF TaskStatuses
  <2> HIDE DEF t
  <2>3. QED  BY <1>2, <1>5, <2>1, <2>2, LinkSets
<1>6. CASE running[r][t] \notin {"waitingForSettings", "running"}
  <2>1. toBroker' = toBroker /\ running' = running
    BY <1>6 DEF TaskCancelled
  <2>2. ~Result(m) /\ m.type # "accepted" /\ Owned(m.task, r)
    BY <1>2 DEF Result
  <2>3. "running" \in TaskStatuses \ {"none"}
    BY DEF TaskStatuses
  <2> HIDE DEF m, t
  <2>4. QED  BY <1>2, <2>1, <2>2, <2>3, LinkSends
<1>7. QED  BY <1>4, <1>5, <1>6

LEMMA LinkTicks ==
  ASSUME TypeOK, TypeOK', IInv', LinkInv, KnownInv, NEW r \in Runners, OfferTick(r)
  PROVE  LinkInv' /\ KnownInv'
<1>1. PICK stale \in SUBSET open[r] : SendOffers(r, open[r] \ stale, running[r], <<>>)
  BY DEF OfferTick
<1>2. RunnerMoves(r)
  BY DEF OfferTick, RunnerMoves, Up, brokerVars
<1>3. /\ open[r] \ stale \in SUBSET OfferIds /\ running[r] \in [Tasks -> TaskStatuses]
      /\ <<>> \in Seq(Messages)
  BY DEF TypeOK
<1>4. QED  BY <1>1, <1>2, <1>3, LinkFinishes

LEMMA LinkEnds ==
  ASSUME TypeOK, TypeOK', IInv', LinkInv, KnownInv, NEW r \in Runners, NEW t \in Tasks,
         TaskTimedOut(r, t) \/ \E how \in {"done", "error"} : TaskExecutionEnds(r, t, how)
  PROVE  LinkInv' /\ KnownInv'
<1>1. RunnerMoves(r)
  BY DEF TaskTimedOut, TaskExecutionEnds, Current, RunnerMoves, brokerVars
<1>2. ASSUME NEW ms, FinishTask(r, t, ms), running[r][t] # "none",
             \/ ms = <<>> /\ Ended(t)
             \/ \E how \in {"done", "error"} : ms = <<Message(how, t)>>
      PROVE  LinkInv' /\ KnownInv'
  <2> DEFINE status == [running[r] EXCEPT ![t] = "none"]
  <2>1. status \in [Tasks -> TaskStatuses] /\ open[r] \in SUBSET OfferIds
    BY DEF TypeOK, TaskStatuses
  <2>2. SendOffers(r, open[r], status, ms)
    BY <1>2 DEF FinishTask
  <2>3. \A how \in {"done", "error"} :
          Message(how, t) \in Messages /\ Result(Message(how, t)) /\ Message(how, t).task = t
    BY MessageFacts DEF Message, Result
  <2>4. \/ ms = <<>> /\ Ended(t)
        \/ \E m \in Messages : ms = <<m>> /\ Result(m) /\ m.task = t
    BY <1>2, <2>3
  <2>5. ms \in Seq(Messages)
    <3>1. CASE ms = <<>>
      BY <3>1
    <3>2. CASE \E m \in Messages : ms = <<m>>
      BY <3>2
    <3>3. QED  BY <2>4, <3>1, <3>2
  <2>6. status = [running[r] EXCEPT ![t] = "none"]
    OBVIOUS
  <2> HIDE DEF status
  <2>7. QED  BY <1>1, <1>2, <2>1, <2>2, <2>4, <2>5, <2>6, LinkFinishes
<1>3. CASE TaskTimedOut(r, t)
  <2>1. CASE running[r][t] = "waitingForSettings" /\ FinishTask(r, t, <<Message("error", t)>>)
    BY <1>2, <2>1
  <2>2. CASE running[r][t] = "running" /\ SetTask(r, t, "aborting:timeout") /\ toBroker' = toBroker
    <3>1. "aborting:timeout" \in TaskStatuses \ {"none"}
      BY DEF TaskStatuses
    <3>2. QED  BY <1>1, <2>2, <3>1, LinkSets
  <2>3. QED  BY <1>3, <2>1, <2>2 DEF TaskTimedOut
<1>4. ASSUME NEW how \in {"done", "error"}, TaskExecutionEnds(r, t, how)
      PROVE  LinkInv' /\ KnownInv'
  <2>1. /\ running[r][t] \in {"running", "aborting:timeout", "aborting:cancelled"}
        /\ FinishTask(r, t, IF running[r][t] = "aborting:cancelled" THEN <<>> ELSE <<Message(how, t)>>)
    BY <1>4 DEF TaskExecutionEnds
  <2>2. CASE running[r][t] = "aborting:cancelled"
    <3>1. Ended(t) /\ FinishTask(r, t, <<>>)
      BY <2>1, <2>2 DEF LinkInv, RunningInv
    <3>2. QED  BY <1>2, <2>2, <3>1
  <2>3. CASE running[r][t] # "aborting:cancelled"
    <3>1. FinishTask(r, t, <<Message(how, t)>>)
      BY <2>1, <2>3
    <3>2. QED  BY <1>2, <2>1, <3>1
  <2>4. QED  BY <2>2, <2>3
<1>5. QED  BY <1>3, <1>4

LEMMA ConnRests ==
  ASSUME TypeOK, ConnInv, UNCHANGED <<conn, known>>,
         \A r \in Runners :
           /\ proc'[r] = proc[r] \/ (proc[r] \in Up /\ proc'[r] # "unborn")
           /\ toBroker'[r] = toBroker[r] \/ toBroker[r] # <<>> \/ proc[r] \in Up
  PROVE  ConnInv'
<1> SUFFICES ASSUME NEW r \in Runners
             PROVE  /\ r \in known => conn[r] \in {"up", "suspect", "closing"}
                    /\ proc'[r] = "unborn" => conn[r] = "none" /\ toBroker'[r] = <<>>
                    /\ conn[r] = "closing" => proc'[r] \notin Up \cup {"unborn"} /\ toBroker'[r] = <<>>
  BY DEF ConnInv
<1>1. QED  BY DEF ConnInv, Up

LEMMA ConnStep ==
  ASSUME TypeOK, TypeOK', LinkInv, ConnInv, [Next]_vars
  PROVE  ConnInv'
<1>1. CASE UNCHANGED vars
  BY <1>1, ConnRests DEF vars, stepVars, brokerVars
<1>2. ASSUME NEW q \in Requests, StartTask(q)  PROVE ConnInv'
  BY <1>2, ConnRests DEF StartTask
<1>3. ASSUME NEW t \in Tasks, AcceptTimeout(t)  PROVE ConnInv'
  BY <1>3, ConnRests DEF AcceptTimeout
<1>4. ASSUME ForceRestart, NEW r \in Runners
      PROVE  \/ proc'[r] = proc[r] /\ toBroker'[r] = toBroker[r]
             \/ proc[r] \in Up /\ proc'[r] = "dead"
  <2>1. CASE Current = {}
    BY <1>4, <2>1 DEF ForceRestart
  <2>2. CASE Current # {}
    <3>1. PICK s \in Current : TRUE
      BY <2>2
    <3>2. PICK k \in 0 .. Len(toBroker[s]) : Ends(s, "dead", k)
      BY <1>4 DEF ForceRestart
    <3>3. s \in Runners /\ proc[s] \in Up
      BY DEF Current
    <3>4. QED  BY <3>2, <3>3, EndsFacts
  <2>3. QED  BY <2>1, <2>2
<1>5. ASSUME NEW t \in Tasks, TaskTimeout(t)  PROVE ConnInv'
  <2>1. conn' = conn /\ known' = known
    BY <1>5 DEF TaskTimeout
  <2>2. CASE Mode = "internal"
    BY <1>4, <1>5, <2>1, <2>2, ConnRests DEF TaskTimeout
  <2>3. CASE Mode # "internal"
    BY <1>5, <2>1, <2>3, ConnRests DEF TaskTimeout
  <2>4. QED  BY <2>2, <2>3
<1>6. ASSUME NEW r \in Runners, BrokerHandles(r)  PROVE ConnInv'
  <2>1. Received(r)
    BY <1>6 DEF BrokerHandles, TaskOffered, HandleRunnerAccept, HandleRunnerReject, TaskDone
  <2>2. /\ conn' = conn /\ known' = known /\ proc' = proc /\ toBroker[r] # <<>>
        /\ \A s \in Runners \ {r} : toBroker'[s] = toBroker[s]
    BY <2>1 DEF Received, TypeOK
  <2>3. QED  BY <2>2, ConnRests
<1>7. ASSUME NEW r \in Runners, RunnerMoves(r), conn' = conn,
             \A s \in Runners \ {r} : toBroker'[s] = toBroker[s]
      PROVE  ConnInv'
  <2>1. /\ known' = known /\ proc[r] \in Up /\ proc'[r] # "unborn"
        /\ \A s \in Runners \ {r} : proc'[s] = proc[s]
    BY <1>7 DEF RunnerMoves, Up
  <2>2. QED  BY <1>7, <2>1, ConnRests
<1>8. ASSUME NEW r \in Runners, NEW held, NEW status, NEW ms, SendOffers(r, held, status, ms)
      PROVE  \A s \in Runners \ {r} : toBroker'[s] = toBroker[s]
  BY <1>8 DEF SendOffers, TypeOK
<1>9. ASSUME NEW r \in Runners, RunnerHandles(r) \/ LauncherHandles(r)  PROVE ConnInv'
  <2>1. PICK type : Arrives(r, type)
    BY <1>9 DEF RunnerHandles, LauncherHandles, Registered, OfferAccepted, TaskCancelled,
       ReceivedSettings, LauncherOffers, LauncherDefers
  <2>2. \/ proc' = proc \/ proc' = [proc EXCEPT ![r] = IF @ = "starting" THEN "offering" ELSE @]
        \/ proc' = [proc EXCEPT ![r] = "offering"]
    BY <1>9 DEF RunnerHandles, LauncherHandles, Registered, OfferAccepted, TaskCancelled,
       ReceivedSettings, LauncherOffers, LauncherDefers
  <2>3. RunnerMoves(r) /\ conn' = conn
    BY <2>1, <2>2, ArrivesFacts DEF Arrives
  <2>4. \A s \in Runners \ {r} : toBroker'[s] = toBroker[s]
    <3>1. CASE TaskCancelled(r)
      BY <1>8, <3>1 DEF TaskCancelled, FinishTask
    <3>2. CASE ~TaskCancelled(r)
      BY <1>9, <3>2 DEF RunnerHandles, LauncherHandles, Registered, OfferAccepted,
         ReceivedSettings, LauncherOffers, LauncherDefers, Send, TypeOK
    <3>3. QED  BY <3>1, <3>2
  <2>5. QED  BY <1>7, <2>3, <2>4
<1>10. ASSUME NEW r \in Runners, OfferTick(r)  PROVE ConnInv'
  <2>1. RunnerMoves(r) /\ conn' = conn
    BY <1>10 DEF OfferTick, RunnerMoves, Up, brokerVars
  <2>2. QED  BY <1>7, <1>8, <1>10, <2>1 DEF OfferTick
<1>11. ASSUME NEW r \in Runners, NEW t \in Tasks,
              TaskTimedOut(r, t) \/ \E how \in {"done", "error"} : TaskExecutionEnds(r, t, how)
       PROVE  ConnInv'
  <2>1. RunnerMoves(r) /\ conn' = conn
    BY <1>11 DEF TaskTimedOut, TaskExecutionEnds, Current, RunnerMoves, brokerVars
  <2>2. \A s \in Runners \ {r} : toBroker'[s] = toBroker[s]
    BY <1>8, <1>11 DEF TaskTimedOut, TaskExecutionEnds, FinishTask
  <2>3. QED  BY <1>7, <2>1, <2>2
<1>12. ASSUME NEW r \in Runners, Crash(r) \/ Leave(r)  PROVE ConnInv'
  <2>1. /\ conn' = conn /\ known' = known /\ proc[r] \in Up
    BY <1>12 DEF Crash, Leave, Current, Up, brokerVars
  <2>2. PICK how \in {"dead", "left"}, k \in 0 .. Len(toBroker[r]) : Ends(r, how, k)
    BY <1>12, LinkTypes DEF Crash, Leave
  <2>3. proc'[r] # "unborn" /\ \A s \in Runners \ {r} : proc'[s] = proc[s] /\ toBroker'[s] = toBroker[s]
    BY <2>2, EndsFacts
  <2>4. QED  BY <2>1, <2>3, ConnRests
<1>13. ASSUME NEW r \in Runners, DeregisterRunner(r)  PROVE ConnInv'
  <2> DEFINE how == IF proc[r] \in Up THEN "dead" ELSE proc[r]
  <2>1. 0 \in 0 .. Len(toBroker[r]) /\ Ends(r, how, 0)
    BY <1>13, LinkTypes DEF DeregisterRunner
  <2>2. /\ proc'[r] = how /\ \A s \in Runners \ {r} : proc'[s] = proc[s] /\ toBroker'[s] = toBroker[s]
    BY <2>1, EndsFacts
  <2>3. /\ conn[r] # "none" /\ conn'[r] = "gone" /\ known' = known \ {r}
        /\ \A s \in Runners \ {r} : conn'[s] = conn[s]
    BY <1>13 DEF DeregisterRunner, TypeOK
  <2>4. proc'[r] # "unborn"
    BY <2>2, <2>3 DEF ConnInv
  <2>5. QED  BY <2>2, <2>3, <2>4 DEF ConnInv
<1>14. ASSUME NEW r \in Runners, HeartbeatFails(r)  PROVE ConnInv'
  <2>1. /\ conn[r] = "up" /\ proc[r] \in Up /\ conn'[r] = "suspect" /\ known' = known
        /\ \A s \in Runners \ {r} : conn'[s] = conn[s]
    BY <1>14 DEF HeartbeatFails, Current, TypeOK, brokerVars
  <2>2. ASSUME NEW s \in Runners
        PROVE  \/ proc'[s] = proc[s] /\ toBroker'[s] = toBroker[s]
               \/ proc[s] \in Up /\ proc'[s] = "dead"
    BY <1>4, <1>14 DEF HeartbeatFails
  <2> SUFFICES ASSUME NEW s \in Runners
               PROVE  /\ s \in known => conn'[s] \in {"up", "suspect", "closing"}
                      /\ proc'[s] = "unborn" => conn'[s] = "none" /\ toBroker'[s] = <<>>
                      /\ conn'[s] = "closing" => proc'[s] \notin Up \cup {"unborn"} /\ toBroker'[s] = <<>>
    BY <2>1 DEF ConnInv
  <2>3. proc'[s] = "unborn" => proc[s] = "unborn" /\ toBroker'[s] = toBroker[s]
    BY <2>2
  <2>4. conn'[s] = "closing" => conn[s] = "closing" /\ s # r
    BY <2>1
  <2>5. QED  BY <2>1, <2>2, <2>3, <2>4 DEF ConnInv, Up
<1>15. ASSUME NEW r \in Runners, ConnectionCloses(r)  PROVE ConnInv'
  <2>1. /\ conn[r] = "up" /\ proc[r] \in {"left", "dead"} /\ toBroker[r] = <<>>
        /\ conn' = [conn EXCEPT ![r] = "closing"]
        /\ proc' = proc /\ toBroker' = toBroker /\ known' = known
    BY <1>15 DEF ConnectionCloses, brokerVars
  <2>2. QED  BY <2>1 DEF ConnInv, TypeOK, Up
<1>16. ASSUME NEW r \in Runners, StartRunner(r)  PROVE ConnInv'
  <2>1. /\ proc[r] = "unborn" /\ proc' = [proc EXCEPT ![r] = "starting"]
        /\ conn' = conn /\ toBroker' = toBroker /\ known' = known
    BY <1>16 DEF StartRunner, brokerVars
  <2>2. QED  BY <2>1 DEF ConnInv, TypeOK, Up
<1>17. ASSUME NEW r \in Runners, RegisterRunner(r)  PROVE ConnInv'
  <2>1. /\ proc[r] = "starting" /\ conn' = [conn EXCEPT ![r] = "up"]
        /\ proc' = proc /\ toBroker' = toBroker /\ known' = known \cup {r}
    BY <1>17 DEF RegisterRunner, brokerVars
  <2>2. QED  BY <2>1 DEF ConnInv, TypeOK, Up
<1>18. ASSUME NEW r \in Runners, StopRunner(r) \/ \E o \in OfferIds : OfferAges(r, o)  PROVE ConnInv'
  <2>1. /\ conn' = conn /\ toBroker' = toBroker /\ known' = known
        /\ proc' = proc \/ (proc[r] \in Up /\ proc' = [proc EXCEPT ![r] = "stopping"])
    BY <1>18 DEF StopRunner, OfferAges, brokerVars, Up
  <2>2. QED  BY <2>1, ConnRests DEF TypeOK
<1>19. QED
  BY <1>1, <1>2, <1>3, <1>5, <1>6, <1>9, <1>10, <1>11, <1>12, <1>13, <1>14, <1>15, <1>16, <1>17, <1>18
     DEF Next, Step

LEMMA LinkStep ==
  ASSUME TypeOK, TypeOK', IInv', MatchInv, LinkInv, ConnInv, KnownInv, [Next]_vars
  PROVE  LinkInv' /\ KnownInv'
<1>1. ASSUME NEW r \in Runners, BrokerHandles(r)  PROVE LinkInv' /\ KnownInv'
  BY <1>1, LinkOffered, LinkAccepts, LinkRejects, LinkDone DEF BrokerHandles
<1>2. ASSUME NEW t \in Tasks, TaskTimeout(t)  PROVE LinkInv' /\ KnownInv'
  <2>1. CASE Mode = "internal"
    <3>1. /\ ForceRestart /\ accept' = accept /\ issued' = issued /\ known' = known
          /\ tasks' \subseteq tasks
      BY <1>2, <2>1 DEF TaskTimeout
    <3>2. QED  BY <3>1, LinkRestarts
  <2>2. CASE Mode # "internal"
    BY <1>2, <2>2, LinkCancels
  <2>3. QED  BY <2>1, <2>2
<1>3. ASSUME NEW r \in Runners, HeartbeatFails(r), Mode = "internal"  PROVE LinkInv' /\ KnownInv'
  <2>1. /\ ForceRestart /\ accept' = accept /\ issued' = issued /\ known' = known
        /\ tasks' \subseteq tasks
    BY <1>3 DEF HeartbeatFails, brokerVars
  <2>2. QED  BY <2>1, LinkRestarts
<1>4. ASSUME NEW r \in Runners, RunnerHandles(r) \/ LauncherHandles(r)  PROVE LinkInv' /\ KnownInv'
  BY <1>4, LinkHandles, LinkAccepted, LinkCancelled DEF RunnerHandles, LauncherHandles
<1>5. ASSUME UNCHANGED vars PROVE LinkInv' /\ KnownInv'
  <2>1. CASE Runners = {}
    BY <1>5, <2>1 DEF vars, stepVars, brokerVars, runnerVars, LinkInv, ToRunnerInv, ToBrokerInv,
       RunningInv, HeldInv, KnownInv, TypeOK
  <2>2. CASE Runners # {}
    <3>1. PICK r \in Runners : TRUE
      BY <2>2
    <3>2. QED  BY <1>5, <3>1, LinkRests
  <2>3. QED  BY <2>1, <2>2
<1>6. ASSUME NEW q \in Requests, StartTask(q)  PROVE LinkInv' /\ KnownInv'
  BY <1>6, LinkStarts
<1>7. ASSUME NEW t \in Tasks, AcceptTimeout(t)  PROVE LinkInv' /\ KnownInv'
  BY <1>7, LinkTimesOut
<1>8. ASSUME NEW r \in Runners, Crash(r) \/ DeregisterRunner(r) \/ Leave(r)  PROVE LinkInv' /\ KnownInv'
  BY <1>8, LinkCrashes, LinkDeregisters, LinkLeaves
<1>9. ASSUME NEW r \in Runners,
             \/ ConnectionCloses(r) \/ StartRunner(r) \/ RegisterRunner(r) \/ StopRunner(r)
             \/ \E o \in OfferIds : OfferAges(r, o)
             \/ HeartbeatFails(r) /\ Mode # "internal"
      PROVE  LinkInv' /\ KnownInv'
  BY <1>9, LinkRests
<1>10. ASSUME NEW r \in Runners, OfferTick(r)  PROVE LinkInv' /\ KnownInv'
  BY <1>10, LinkTicks
<1>11. ASSUME NEW r \in Runners, NEW t \in Tasks,
              TaskTimedOut(r, t) \/ \E how \in {"done", "error"} : TaskExecutionEnds(r, t, how)
       PROVE  LinkInv' /\ KnownInv'
  BY <1>11, LinkEnds
<1>12. QED
  BY <1>1, <1>2, <1>3, <1>4, <1>5, <1>6, <1>7, <1>8, <1>9, <1>10, <1>11 DEF Next, Step

-----------------------------------------------------------------------------
BrokerInv == TypeOK /\ IInv /\ MatchInv /\ LinkInv /\ ConnInv /\ KnownInv

LEMMA BrokerStart == Init => BrokerInv
<1> SUFFICES ASSUME Init PROVE BrokerInv
  OBVIOUS
<1>1. IInv
  BY InitIInv
<1>2. TypeOK
  BY ConstantsAssumption DEF Init, TypeOK, Stages, Answers, Procs, TaskStatuses
<1>3. /\ requests = <<>> /\ tasks = {} /\ known = {}
      /\ \A t \in Tasks : accept[t].st = "none"
      /\ \A q \in Requests : request[q] = "idle" /\ inProgress[q] = FALSE
      /\ \A r \in Runners : /\ toRunner[r] = <<>> /\ toBroker[r] = <<>>
                            /\ proc[r] = "unborn" /\ conn[r] = "none"
                            /\ \A t \in Tasks : running[r][t] = "none"
  BY DEF Init
<1>4. \A q : ~Contains(requests, q)
  BY <1>3 DEF Contains
<1>5. MatchInv
  BY <1>3, <1>4 DEF MatchInv, IssuedInv, RequestsInv, WaitingInv, TasksInv, ClaimedIsOffered,
     TasksAreAwaited, AcceptedIsWanted
<1>6. ToRunnerInv /\ ToBrokerInv /\ RunningInv
  <2>1. \A r \in Runners : Len(toRunner[r]) = 0 /\ Len(toBroker[r]) = 0
    BY <1>3
  <2>2. QED  BY <1>3, <2>1 DEF ToRunnerInv, ToBrokerInv, RunningInv
<1>7. HeldInv
  <2>1. \A r \in Runners : Len(toBroker[r]) = 0 /\ proc[r] \notin Up /\ proc[r] # "left"
    BY <1>3 DEF Up
  <2>2. \A r \in Runners : Held(r, 0) = {}
    BY <1>3 DEF Held
  <2>3. Cardinality({}) = 0 /\ MaxConcurrency \in Nat
    BY FS_EmptySet, ConstantsAssumption
  <2>4. ASSUME NEW r \in Runners, NEW k \in 0 .. Len(toBroker[r])
        PROVE  Cardinality(Held(r, k)) <= MaxConcurrency
    <3>1. k = 0
      BY <2>1, <2>4
    <3>2. Cardinality(Held(r, k)) = 0
      BY <2>2, <2>3, <3>1
    <3>3. QED  BY <2>3, <3>2
  <2>5. QED  BY <2>1, <2>4 DEF HeldInv
<1>8. ConnInv /\ KnownInv
  BY <1>3 DEF ConnInv, KnownInv, Up
<1>9. QED  BY <1>1, <1>2, <1>5, <1>6, <1>7, <1>8 DEF BrokerInv, LinkInv

LEMMA BrokerKeeps == BrokerInv /\ [Next]_vars => BrokerInv'
<1> SUFFICES ASSUME BrokerInv, [Next]_vars PROVE BrokerInv'
  OBVIOUS
<1>1. TypeOK /\ IInv /\ MatchInv /\ LinkInv /\ ConnInv /\ KnownInv
  BY DEF BrokerInv
<1>2. IInv'
  BY <1>1, NextStep
<1>3. TypeOK'
  BY <1>1, TypeStep DEF MatchInv
<1>4. MatchInv'
  BY <1>1, MatchStep
<1>5. ConnInv'
  BY <1>1, <1>3, ConnStep
<1>6. LinkInv' /\ KnownInv'
  BY <1>1, <1>2, <1>3, LinkStep
<1>7. QED  BY <1>2, <1>3, <1>4, <1>5, <1>6 DEF BrokerInv

LEMMA BrokerInvariant == Spec => []BrokerInv
BY BrokerStart, BrokerKeeps, PTL DEF Spec

(* sendOffers counts open offers and running tasks; whatever comes between  *)
(* two of its calls (an acceptance, a cancel, a timeout, an expired offer,  *)
(* the end of the process), both together stay within the concurrency.      *)
THEOREM OffersFitRunner == Spec => []OffersWithinCapacity
<1>1. IInv => OffersWithinCapacity
  BY DEF IInv, LoadInv, Load, Busy, OffersWithinCapacity, RunningTasks
<1>2. QED  BY <1>1, InitIInv, NextStep, PTL DEF Spec

(* Lists, maps and messages of broker, requester and runner keep their      *)
(* types, whatever is lost, expires or restarts.                            *)
THEOREM BrokerTypes == Spec => []TypeOK
<1>1. BrokerInv => TypeOK
  BY DEF BrokerInv
<1>2. QED  BY <1>1, BrokerInvariant, PTL

(* acceptOffer finds the request of an acceptance in the list, and the      *)
(* requester still waits for it: the race its comment speaks of cannot be.  *)
THEOREM AcceptsWanted == Spec => []AcceptedIsWanted
<1>1. BrokerInv => AcceptedIsWanted
  BY DEF BrokerInv, MatchInv
<1>2. QED  BY <1>1, BrokerInvariant, PTL

(* taskDoneHandler, taskErrorHandler, handleTaskTimeout and deregisterRunner *)
(* answer a requester that waits, once, and leave none without its task.    *)
THEOREM AwaitsTasks == Spec => []TasksAreAwaited
<1>1. BrokerInv => TasksAreAwaited
  BY DEF BrokerInv, MatchInv
<1>2. QED  BY <1>1, BrokerInvariant, PTL

(* acceptInProgress is set exactly while acceptOffer waits for the answer   *)
(* of a runner: every way out of it resets the mark.                        *)
THEOREM OffersClaimed == Spec => []ClaimedIsOffered
<1>1. BrokerInv => ClaimedIsOffered
  BY DEF BrokerInv, MatchInv
<1>2. QED  BY <1>1, BrokerInvariant, PTL

(* The broker's tasks belong to registered runners, none of which has more  *)
(* of them than its concurrency, as Held bounds what is still on its way.   *)
THEOREM CarriesTasks == Spec => []RunnersCarryTasks
<1>1. BrokerInv => RunnersCarryTasks
  <2> SUFFICES ASSUME BrokerInv PROVE RunnersCarryTasks
    OBVIOUS
  <2>1. tasks \subseteq Tasks /\ KnownInv /\ HeldInv
    BY DEF BrokerInv, TypeOK, LinkInv
  <2>2. ASSUME NEW r \in Runners
        PROVE  Cardinality({t \in tasks : accept[t].runner = r}) <= MaxConcurrency
    <3>1. 0 \in 0 .. Len(toBroker[r])
      BY LinkTypes DEF BrokerInv
    <3>2. Cardinality(Held(r, 0)) <= MaxConcurrency
      BY <2>1, <3>1 DEF HeldInv
    <3>3. {t \in tasks : accept[t].runner = r} \subseteq Held(r, 0) /\ Held(r, 0) \in SUBSET Tasks
      BY <2>1 DEF Held
    <3>4. QED  BY <3>2, <3>3, HeldShrinks
  <2>3. QED  BY <2>1, <2>2 DEF RunnersCarryTasks, KnownInv
<1>2. QED  BY <1>1, BrokerInvariant, PTL

(* stop waits until no task runs and close comes after every message of the *)
(* runner: deregisterRunner then finds no task of it to fail.               *)
THEOREM StopsGracefully == Spec => GracefulStop
<1>1. ASSUME BrokerInv, NEW r \in Runners, DeregisterRunner(r), conn[r] = "closing", proc[r] = "left"
      PROVE  UNCHANGED answer
  <2>1. TypeOK /\ HeldInv /\ ConnInv
    BY <1>1 DEF BrokerInv, LinkInv
  <2>2. Held(r, Len(toBroker[r])) = {} /\ toBroker[r] = <<>>
    BY <1>1, <2>1 DEF HeldInv, ConnInv
  <2>3. Len(toBroker[r]) = 0
    BY <2>2
  <2>4. \A t \in tasks : accept[t].runner # r
    BY <2>1, <2>2, <2>3 DEF Held, TypeOK
  <2>5. {t \in tasks : accept[t].runner = r} = {}
    BY <2>4
  <2>6. Answered({}, "disconnected")
    BY <1>1, <2>5 DEF DeregisterRunner
  <2>7. answer' = [q \in Requests |-> answer[q]]
    BY <2>6 DEF Answered
  <2>8. QED  BY <2>1, <2>7 DEF TypeOK
<1>2. BrokerInv =>
        [\A r \in Runners : DeregisterRunner(r) /\ conn[r] = "closing" /\ proc[r] = "left"
                              => UNCHANGED answer]_vars
  BY <1>1
<1>3. QED  BY <1>2, BrokerInvariant, PTL DEF GracefulStop
=============================================================================
