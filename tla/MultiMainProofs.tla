--------------------------- MODULE MultiMainProofs ---------------------------
(***************************************************************************)
(* For any number of mains, waits and faults.  First the election: as long *)
(* as no main that was up let its key expire, a main that leads is the     *)
(* holder of the key; and whoever holds the key leads, always.  Then the   *)
(* services of a main, which follow the role that the election gives it: a *)
(* step of the composition is a step of the election or none, so what is   *)
(* proved of the election holds of the composition as well.                *)
(***************************************************************************)
EXTENDS MultiMain, FiniteSetTheorems, TLAPS

(* Where a main can be in its check, by its process and its role. *)
CheckInv ==
  \A m \in Mains :
    /\ up[m] = "off" => role[m] = "unset" /\ check[m] = "idle"
    /\ up[m] = "init" => check[m] \in {"claim", "won"}
    /\ check[m] = "claim" => ~IsLeader(m)
    /\ check[m] = "won" => IsLeader(m)

(* The holder of the key runs, leads, and does not ask for the key. *)
HolderInv == \A m \in Mains : key.holder = m => up[m] # "off" /\ IsLeader(m)

ElectionInv == ElectionTypeOK /\ CheckInv /\ HolderInv /\ LeaderHoldsKey

LEMMA ElectionInit == Init => ElectionInv
<1> SUFFICES ASSUME Init PROVE ElectionInv
  OBVIOUS
<1> USE ElectionAssumption DEF Init
<1>1. ElectionTypeOK
  <2>1. key \in [holder : Mains \cup {None, Gone}, ttl : BOOLEAN]
    OBVIOUS
  <2>2. /\ up \in [Mains -> {"off", "init", "up", "leaving"}]
        /\ check \in [Mains -> {"idle", "renew", "claim", "won"}]
        /\ role \in [Mains -> {"unset", "leader", "follower"}]
    OBVIOUS
  <2>3. faults \in 0 .. MaxFaults
    OBVIOUS
  <2>4. late \in BOOLEAN
    BY Zenon
  <2>5. QED  BY <2>1, <2>2, <2>3, <2>4 DEF ElectionTypeOK
<1>2. CheckInv
  BY DEF CheckInv, IsLeader
<1>3. HolderInv
  BY DEF HolderInv
<1>4. LeaderHoldsKey
  BY DEF LeaderHoldsKey, IsLeader
<1>5. QED  BY <1>1, <1>2, <1>3, <1>4 DEF ElectionInv

LEMMA ElectionStep == ElectionInv /\ [Next]_electionVars => ElectionInv'
<1> SUFFICES ASSUME ElectionInv, [Next]_electionVars PROVE ElectionInv'
  OBVIOUS
<1> USE ElectionAssumption
<1> USE DEF ElectionInv, ElectionTypeOK, CheckInv, HolderInv, LeaderHoldsKey, IsLeader, Running
<1>1. CASE Expire
  <2>1. CASE key.holder = Gone
    BY <1>1, <2>1 DEF Expire
  <2>2. CASE key.holder # Gone
    BY <1>1, <2>2 DEF Expire
  <2>3. QED  BY <2>1, <2>2
<1>2. ASSUME NEW m \in Mains, Boot(m) PROVE ElectionInv'
  BY <1>2 DEF Boot
<1>3. ASSUME NEW m \in Mains, KeyIsMine(m) PROVE ElectionInv'
  BY <1>3 DEF KeyIsMine, Checks
<1>4. ASSUME NEW m \in Mains, KeyIsTaken(m) PROVE ElectionInv'
  BY <1>4 DEF KeyIsTaken, Checks
<1>5. ASSUME NEW m \in Mains, KeyIsVacant(m) PROVE ElectionInv'
  BY <1>5 DEF KeyIsVacant, Checks
<1>6. ASSUME NEW m \in Mains, Renew(m) PROVE ElectionInv'
  BY <1>6 DEF Renew, Prolonged
<1>7. ASSUME NEW m \in Mains, Claim(m) PROVE ElectionInv'
  BY <1>7 DEF Claim
<1>8. ASSUME NEW m \in Mains, ClaimFails(m) PROVE ElectionInv'
  BY <1>8 DEF ClaimFails, Initialised
<1>9. ASSUME NEW m \in Mains, TakeOver(m) PROVE ElectionInv'
  BY <1>9 DEF TakeOver, Prolonged, Initialised
<1>10. ASSUME NEW m \in Mains, Crash(m) PROVE ElectionInv'
  BY <1>10 DEF Crash, Exit, Abandoned
<1>11. ASSUME NEW m \in Mains, Shutdown(m) PROVE ElectionInv'
  BY <1>11 DEF Shutdown
<1>12. ASSUME NEW m \in Mains, Leave(m) PROVE ElectionInv'
  BY <1>12 DEF Leave, Exit, Abandoned
<1>13. CASE UNCHANGED electionVars
  BY <1>13 DEF electionVars
<1>14. QED
  BY <1>1, <1>2, <1>3, <1>4, <1>5, <1>6, <1>7, <1>8, <1>9, <1>10, <1>11, <1>12, <1>13 DEF Next, Check

(* The invariant of the election. *)
THEOREM ElectionInvariant == Spec => []ElectionInv
<1>1. QED  BY ElectionInit, ElectionStep, PTL DEF Spec

(* Every variable of the election has its type. *)
THEOREM ElectionTypeCorrect == Spec => []ElectionTypeOK
<1>1. ElectionInv => ElectionTypeOK  BY DEF ElectionInv
<1>2. QED  BY <1>1, ElectionInvariant, PTL

(* A main that leads holds the key, unless a key expired under a main that *)
(* was up: not two mains lead (checkLeader, tryBecomeLeader, shutdown).    *)
THEOREM LeaderIsHolder == Spec => []LeaderHoldsKey
<1>1. ElectionInv => LeaderHoldsKey  BY DEF ElectionInv
<1>2. QED  BY <1>1, ElectionInvariant, PTL

(* Whoever holds the key leads, even after keys expired (tryBecomeLeader). *)
THEOREM HolderIsLeader == Spec => []HolderLeads
<1>1. ElectionInv => HolderLeads  BY DEF ElectionInv, HolderInv, HolderLeads
<1>2. QED  BY <1>1, ElectionInvariant, PTL

-----------------------------------------------------------------------------
(* The services of the mains *)

(* The types of the services; finitely many triggers run. *)
TrackerTypes ==
  /\ stage \in [Mains -> {"boot", "tracker", "ready"}]
  /\ tracking \in [Mains -> BOOLEAN]
  /\ found \in [Mains -> SUBSET Waits]
  /\ timers \in [Mains -> SUBSET Waits]
  /\ stale \in [Mains -> SUBSET Waits]
  /\ row \in [Waits -> {"waiting", "resumed"}]

OwnCounts == removals \in Nat /\ adds \in Nat /\ starting \in Nat

TriggerTypes ==
  /\ entry \in Nat
  /\ live \in SUBSET (Nat \ {NoTrigger}) /\ IsFiniteSet(live)
  /\ closing \in Seq(Nat \ {NoTrigger})

(* A main that is not up has not started its services. *)
StageInv ==
  \A m \in Mains :
    /\ up[m] \in {"off", "init"} => stage[m] = "boot"
    /\ stage[m] = "boot" => ~tracking[m]

RoleInv == StageInv /\ TrackingFollowsRole

-----------------------------------------------------------------------------
(* A step of the composition is one of the election, or leaves it alone. *)
LEMMA StepsOfElection == [MultiMainNext]_vars => [Next]_electionVars
<1> SUFFICES ASSUME [MultiMainNext]_vars PROVE [Next]_electionVars
  OBVIOUS
<1>1. ASSUME NEW m \in Mains, CheckLeader(m) PROVE Next
  BY <1>1 DEF CheckLeader, Next, Check
<1>2. ASSUME NEW m \in Mains, InitWaitTracker(m) \/ Tracker(m) PROVE UNCHANGED electionVars
  BY <1>2 DEF InitWaitTracker, Tracker, PollQuery, PollApply, StartExecution
<1>3. CASE Own
  BY <1>3 DEF Own, InitServices, SweepBegins, SweepEnds, RemoveBegins, RemoveEnds, AddBegins, AddEnds
<1>4. CASE UNCHANGED vars
  BY <1>4 DEF vars
<1>5. QED  BY <1>1, <1>2, <1>3, <1>4 DEF MultiMainNext, Next

(* The mains with their services implement the election. *)
THEOREM MultiMainElects == MultiMainSpec => Spec
<1>1. MultiMainInit => Init  BY DEF MultiMainInit
<1>2. QED  BY <1>1, StepsOfElection, PTL DEF MultiMainSpec, Spec

LEMMA ElectionHolds == MultiMainSpec => []ElectionInv
BY MultiMainElects, ElectionInvariant, PTL

(* With services, too, a leader holds the key unless a key expired. *)
THEOREM ServingLeaderIsHolder == MultiMainSpec => []LeaderHoldsKey
BY MultiMainElects, LeaderIsHolder, PTL

(* With services, too, whoever holds the key leads. *)
THEOREM HolderServes == MultiMainSpec => []HolderLeads
BY MultiMainElects, HolderIsLeader, PTL

-----------------------------------------------------------------------------
(* The services and the role. *)

LEMMA RoleInit == MultiMainInit => TrackerTypes /\ RoleInv
BY DEF MultiMainInit, Init, ServicesInit, TrackerTypes, RoleInv, StageInv, TrackingFollowsRole

LEMMA RoleStep ==
  ElectionInv /\ TrackerTypes /\ RoleInv /\ [MultiMainNext]_vars => (TrackerTypes /\ RoleInv)'
<1> SUFFICES ASSUME ElectionInv, TrackerTypes, RoleInv, [MultiMainNext]_vars
             PROVE  (TrackerTypes /\ RoleInv)'
  OBVIOUS
<1> USE DEF ElectionInv, ElectionTypeOK, CheckInv, TrackerTypes, RoleInv, StageInv,
            TrackingFollowsRole, IsLeader, Running, serviceVars, trackerVars
<1>1. CASE Expire /\ UNCHANGED serviceVars
  BY <1>1 DEF Expire
<1>2. ASSUME NEW m \in Mains, Boot(m), UNCHANGED serviceVars PROVE (TrackerTypes /\ RoleInv)'
  BY <1>2 DEF Boot
<1>3. ASSUME NEW m \in Mains, Crash(m) \/ Leave(m), Reset(m) PROVE (TrackerTypes /\ RoleInv)'
  BY <1>3 DEF Crash, Leave, Exit, Reset
<1>4. ASSUME NEW m \in Mains, Shutdown(m), ShutdownServices(m) PROVE (TrackerTypes /\ RoleInv)'
  BY <1>4 DEF Shutdown, ShutdownServices, StopTracking
<1>5. ASSUME NEW m \in Mains, CheckLeader(m) PROVE (TrackerTypes /\ RoleInv)'
  <2>1. CASE (KeyIsMine(m) \/ Renew(m) \/ Claim(m) \/ ClaimFails(m)) /\ UNCHANGED serviceVars
    BY <2>1 DEF KeyIsMine, Checks, Renew, Claim, ClaimFails, Initialised
  <2>2. CASE KeyIsTaken(m) /\ StepsDown(m) /\ OnStepdown(m)
    <3>1. CASE stage[m] = "boot"
      BY <2>2, <3>1 DEF KeyIsTaken, Checks, StepsDown, OnStepdown
    <3>2. CASE stage[m] # "boot"
      <4>1. /\ tracking' = [tracking EXCEPT ![m] = FALSE]
            /\ stale' = [stale EXCEPT ![m] = @ \cup timers[m]]
            /\ timers' = [timers EXCEPT ![m] = {}]
            /\ UNCHANGED <<stage, found, row>>
        BY <2>2, <3>2 DEF OnStepdown, StopTracking
      <4>2. TrackerTypes'
        BY <4>1
      <4>3. RoleInv'
        BY <2>2, <4>1 DEF KeyIsTaken, Checks, StepsDown
      <4>4. QED  BY <4>2, <4>3
    <3>3. QED  BY <3>1, <3>2
  <2>3. CASE KeyIsTaken(m) /\ ~StepsDown(m) /\ UNCHANGED serviceVars
    BY <2>3 DEF KeyIsTaken, Checks, StepsDown
  <2>4. CASE KeyIsVacant(m) /\ StepsDown(m) /\ OnStepdown(m)
    <3>1. CASE stage[m] = "boot"
      BY <2>4, <3>1 DEF KeyIsVacant, Checks, StepsDown, OnStepdown
    <3>2. CASE stage[m] # "boot"
      <4>1. /\ tracking' = [tracking EXCEPT ![m] = FALSE]
            /\ stale' = [stale EXCEPT ![m] = @ \cup timers[m]]
            /\ timers' = [timers EXCEPT ![m] = {}]
            /\ UNCHANGED <<stage, found, row>>
        BY <2>4, <3>2 DEF OnStepdown, StopTracking
      <4>2. TrackerTypes'
        BY <4>1
      <4>3. RoleInv'
        BY <2>4, <4>1 DEF KeyIsVacant, Checks, StepsDown
      <4>4. QED  BY <4>2, <4>3
    <3>3. QED  BY <3>1, <3>2
  <2>5. CASE KeyIsVacant(m) /\ ~StepsDown(m)
    BY <2>5 DEF KeyIsVacant, Checks, StepsDown
  <2>6. CASE TakeOver(m) /\ OnTakeover(m)
    <3>1. CASE stage[m] = "boot"
      <4>1. tracking' = [tracking EXCEPT ![m] = FALSE]
        BY <2>6, <3>1 DEF OnTakeover
      <4>2. QED  BY <2>6, <3>1, <4>1 DEF TakeOver, Initialised, OnTakeover
    <3>2. CASE stage[m] # "boot"
      <4>1. tracking' = [tracking EXCEPT ![m] = TRUE]
        BY <2>6, <3>2 DEF OnTakeover
      <4>2. QED  BY <2>6, <3>2, <4>1 DEF TakeOver, Initialised, OnTakeover
    <3>3. QED  BY <3>1, <3>2
  <2>7. QED  BY <1>5, <2>1, <2>2, <2>3, <2>4, <2>5, <2>6 DEF CheckLeader
<1>6. ASSUME NEW m \in Mains, InitWaitTracker(m) PROVE (TrackerTypes /\ RoleInv)'
  BY <1>6 DEF InitWaitTracker, electionVars
<1>7. ASSUME NEW m \in Mains, Tracker(m) PROVE (TrackerTypes /\ RoleInv)'
  BY <1>7 DEF Tracker, PollQuery, PollApply, StartExecution, electionVars
<1>8. CASE InitServices
  BY <1>8, MeAssumption DEF InitServices, electionVars
<1>9. CASE SweepBegins \/ SweepEnds \/ RemoveBegins \/ RemoveEnds \/ AddBegins \/ AddEnds
  BY <1>9 DEF SweepBegins, SweepEnds, RemoveBegins, RemoveEnds, AddBegins, AddEnds, electionVars
<1>10. CASE UNCHANGED vars
  BY <1>10 DEF vars, electionVars
<1>11. QED
  BY <1>1, <1>2, <1>3, <1>4, <1>5, <1>6, <1>7, <1>8, <1>9, <1>10 DEF MultiMainNext, Own

LEMMA RoleInvariant == MultiMainSpec => [](TrackerTypes /\ RoleInv)
BY ElectionHolds, RoleInit, RoleStep, PTL DEF MultiMainSpec

(* A main polls for waits while it leads, and only then (start.ts and the  *)
(* wait tracker's init, startTracking and stopTracking).                   *)
THEOREM TrackingIsTheLeaders == MultiMainSpec => []TrackingFollowsRole
<1>1. RoleInv => TrackingFollowsRole  BY DEF RoleInv
<1>2. QED  BY <1>1, RoleInvariant, PTL

-----------------------------------------------------------------------------
(* The recovery and the pruning of Me. *)

Serving(m) == up[m] = "up" /\ stage[m] = "ready" /\ IsLeader(m) /\ check[m] # "won"

SweepInv ==
  /\ sweep \in [armed : BOOLEAN, others : Nat]
  /\ Serving(Me) => sweep.armed \/ sweep.others > 0

PruningInv ==
  /\ pruning \in BOOLEAN
  /\ Serving(Me) => pruning

LEMMA SweepStep ==
  ElectionInv /\ RoleInv /\ SweepInv /\ [MultiMainNext]_vars => SweepInv'
<1> SUFFICES ASSUME ElectionInv, RoleInv, SweepInv, [MultiMainNext]_vars
             PROVE  SweepInv'
  OBVIOUS
<1> USE MeAssumption
<1> USE DEF ElectionInv, ElectionTypeOK, CheckInv, SweepInv, Serving, IsLeader,
            Running, serviceVars, ownVars
<1>1. CASE Expire /\ UNCHANGED serviceVars
  BY <1>1 DEF Expire
<1>2. ASSUME NEW m \in Mains, Boot(m), UNCHANGED serviceVars PROVE SweepInv'
  BY <1>2 DEF Boot
<1>3. ASSUME NEW m \in Mains, Crash(m) \/ Leave(m), Reset(m) PROVE SweepInv'
  <2>1. CASE m = Me
    <3>1. sweep' = [armed |-> FALSE, others |-> 0] /\ pruning' = FALSE
      BY <1>3, <2>1 DEF Reset, NoSweep
    <3>2. ~Serving(Me)'
      BY <1>3, <2>1 DEF Crash, Leave, Exit
    <3>3. QED  BY <3>1, <3>2
  <2>2. CASE m # Me
    BY <1>3, <2>2 DEF Crash, Leave, Exit, Reset
  <2>3. QED  BY <2>1, <2>2
<1>4. ASSUME NEW m \in Mains, Shutdown(m), ShutdownServices(m) PROVE SweepInv'
  BY <1>4 DEF Shutdown, ShutdownServices
<1>5. ASSUME NEW m \in Mains, CheckLeader(m) PROVE SweepInv'
  <2>1. CASE (KeyIsMine(m) \/ Renew(m) \/ Claim(m) \/ ClaimFails(m)) /\ UNCHANGED serviceVars
    BY <2>1 DEF KeyIsMine, Checks, Renew, Claim, ClaimFails, Initialised
  <2>2. CASE KeyIsTaken(m) /\ StepsDown(m) /\ OnStepdown(m)
    BY <2>2 DEF KeyIsTaken, Checks, StepsDown, OnStepdown
  <2>3. CASE KeyIsTaken(m) /\ ~StepsDown(m) /\ UNCHANGED serviceVars
    BY <2>3 DEF KeyIsTaken, Checks, StepsDown
  <2>4. CASE KeyIsVacant(m) /\ StepsDown(m) /\ OnStepdown(m)
    BY <2>4 DEF KeyIsVacant, Checks, StepsDown, OnStepdown
  <2>5. CASE KeyIsVacant(m) /\ ~StepsDown(m)
    BY <2>5 DEF KeyIsVacant, Checks, StepsDown
  <2>6. CASE TakeOver(m) /\ OnTakeover(m)
    BY <2>6 DEF RoleInv, StageInv, TakeOver, Initialised, OnTakeover, Scheduled
  <2>7. QED  BY <1>5, <2>1, <2>2, <2>3, <2>4, <2>5, <2>6 DEF CheckLeader
<1>6. ASSUME NEW m \in Mains, InitWaitTracker(m) PROVE SweepInv'
  BY <1>6 DEF InitWaitTracker, electionVars
<1>7. ASSUME NEW m \in Mains, Tracker(m) PROVE SweepInv'
  BY <1>7 DEF Tracker, PollQuery, PollApply, StartExecution, electionVars
<1>8. CASE InitServices
  BY <1>8 DEF InitServices, Scheduled, electionVars
<1>9. CASE SweepBegins \/ SweepEnds
  <2>1. (Serving(Me)' <=> Serving(Me)) /\ pruning' = pruning
    BY <1>9 DEF SweepBegins, SweepEnds, electionVars
  <2>2. CASE SweepBegins
    BY <2>1, <2>2 DEF SweepBegins
  <2>3. CASE SweepEnds
    BY <2>1, <2>3 DEF SweepEnds
  <2>4. QED  BY <1>9, <2>2, <2>3
<1>10. CASE RemoveBegins \/ RemoveEnds \/ AddBegins \/ AddEnds
  BY <1>10 DEF RemoveBegins, RemoveEnds, AddBegins, AddEnds, electionVars
<1>11. CASE UNCHANGED vars
  BY <1>11 DEF vars, electionVars
<1>12. QED
  BY <1>1, <1>2, <1>3, <1>4, <1>5, <1>6, <1>7, <1>8, <1>9, <1>10, <1>11 DEF MultiMainNext, Own

LEMMA PruningStep ==
  ElectionInv /\ RoleInv /\ PruningInv /\ [MultiMainNext]_vars => PruningInv'
<1> SUFFICES ASSUME ElectionInv, RoleInv, PruningInv, [MultiMainNext]_vars
             PROVE  PruningInv'
  OBVIOUS
<1> USE MeAssumption
<1> USE DEF ElectionInv, ElectionTypeOK, CheckInv, PruningInv, Serving, IsLeader,
            Running, serviceVars, ownVars
<1>1. CASE Expire /\ UNCHANGED serviceVars
  BY <1>1 DEF Expire
<1>2. ASSUME NEW m \in Mains, Boot(m), UNCHANGED serviceVars PROVE PruningInv'
  BY <1>2 DEF Boot
<1>3. ASSUME NEW m \in Mains, Crash(m) \/ Leave(m), Reset(m) PROVE PruningInv'
  <2>1. CASE m = Me
    <3>1. sweep' = [armed |-> FALSE, others |-> 0] /\ pruning' = FALSE
      BY <1>3, <2>1 DEF Reset, NoSweep
    <3>2. ~Serving(Me)'
      BY <1>3, <2>1 DEF Crash, Leave, Exit
    <3>3. QED  BY <3>1, <3>2
  <2>2. CASE m # Me
    BY <1>3, <2>2 DEF Crash, Leave, Exit, Reset
  <2>3. QED  BY <2>1, <2>2
<1>4. ASSUME NEW m \in Mains, Shutdown(m), ShutdownServices(m) PROVE PruningInv'
  BY <1>4 DEF Shutdown, ShutdownServices
<1>5. ASSUME NEW m \in Mains, CheckLeader(m) PROVE PruningInv'
  <2>1. CASE (KeyIsMine(m) \/ Renew(m) \/ Claim(m) \/ ClaimFails(m)) /\ UNCHANGED serviceVars
    BY <2>1 DEF KeyIsMine, Checks, Renew, Claim, ClaimFails, Initialised
  <2>2. CASE KeyIsTaken(m) /\ StepsDown(m) /\ OnStepdown(m)
    BY <2>2 DEF KeyIsTaken, Checks, StepsDown, OnStepdown
  <2>3. CASE KeyIsTaken(m) /\ ~StepsDown(m) /\ UNCHANGED serviceVars
    BY <2>3 DEF KeyIsTaken, Checks, StepsDown
  <2>4. CASE KeyIsVacant(m) /\ StepsDown(m) /\ OnStepdown(m)
    BY <2>4 DEF KeyIsVacant, Checks, StepsDown, OnStepdown
  <2>5. CASE KeyIsVacant(m) /\ ~StepsDown(m)
    BY <2>5 DEF KeyIsVacant, Checks, StepsDown
  <2>6. CASE TakeOver(m) /\ OnTakeover(m)
    BY <2>6 DEF RoleInv, StageInv, TakeOver, Initialised, OnTakeover, Scheduled
  <2>7. QED  BY <1>5, <2>1, <2>2, <2>3, <2>4, <2>5, <2>6 DEF CheckLeader
<1>6. ASSUME NEW m \in Mains, InitWaitTracker(m) PROVE PruningInv'
  BY <1>6 DEF InitWaitTracker, electionVars
<1>7. ASSUME NEW m \in Mains, Tracker(m) PROVE PruningInv'
  BY <1>7 DEF Tracker, PollQuery, PollApply, StartExecution, electionVars
<1>8. CASE InitServices
  BY <1>8 DEF InitServices, Scheduled, electionVars
<1>9. CASE SweepBegins \/ SweepEnds
  BY <1>9 DEF SweepBegins, SweepEnds, electionVars
<1>10. CASE RemoveBegins \/ RemoveEnds \/ AddBegins \/ AddEnds
  BY <1>10 DEF RemoveBegins, RemoveEnds, AddBegins, AddEnds, electionVars
<1>11. CASE UNCHANGED vars
  BY <1>11 DEF vars, electionVars
<1>12. QED
  BY <1>1, <1>2, <1>3, <1>4, <1>5, <1>6, <1>7, <1>8, <1>9, <1>10, <1>11 DEF MultiMainNext, Own

LEMMA CountStep == OwnCounts /\ [MultiMainNext]_vars => OwnCounts'
<1> SUFFICES ASSUME OwnCounts, [MultiMainNext]_vars PROVE OwnCounts'
  OBVIOUS
<1> USE DEF OwnCounts, triggerVars
<1>1. CASE UNCHANGED ownVars
  BY <1>1 DEF ownVars
<1>2. ASSUME NEW m \in Mains, Reset(m) \/ ShutdownServices(m) PROVE OwnCounts'
  BY <1>1, <1>2 DEF Reset, ShutdownServices
<1>3. ASSUME NEW m \in Mains, CheckLeader(m) PROVE OwnCounts'
  BY <1>1, <1>3 DEF CheckLeader, OnStepdown, OnTakeover, serviceVars
<1>4. CASE Own
  BY <1>4
  DEF Own, InitServices, SweepBegins, SweepEnds, RemoveBegins, RemoveEnds, AddBegins, AddEnds
<1>5. QED
  BY <1>1, <1>2, <1>3, <1>4
  DEF MultiMainNext, vars, serviceVars, InitWaitTracker, Tracker, PollQuery, PollApply, StartExecution

OwnInv == SweepInv /\ PruningInv /\ OwnCounts

LEMMA OwnStep == ElectionInv /\ RoleInv /\ OwnInv /\ [MultiMainNext]_vars => OwnInv'
BY SweepStep, PruningStep, CountStep DEF OwnInv

LEMMA OwnInvariant == MultiMainSpec => []OwnInv
<1>1. MultiMainInit => OwnInv
  <2> SUFFICES ASSUME MultiMainInit PROVE OwnInv
    OBVIOUS
  <2>1. sweep = [armed |-> FALSE, others |-> 0] /\ stage[Me] = "boot"
    BY MeAssumption DEF MultiMainInit, ServicesInit, NoSweep
  <2>2. SweepInv
    BY <2>1 DEF SweepInv, Serving
  <2>3. pruning \in BOOLEAN
    BY Zenon DEF MultiMainInit, ServicesInit
  <2>4. OwnCounts
    BY DEF MultiMainInit, ServicesInit, OwnCounts
  <2>5. QED  BY <2>1, <2>2, <2>3, <2>4 DEF OwnInv, PruningInv, Serving
<1>2. QED  BY <1>1, ElectionHolds, RoleInvariant, OwnStep, PTL DEF MultiMainSpec

(* The leader recovers and prunes executions, whatever role it had before  *)
(* (scheduleQueueRecovery, stopQueueRecovery, startPruning, stopPruning).  *)
THEOREM LeadersServe == MultiMainSpec => []LeaderServes
<1>1. OwnInv => LeaderServes
  BY DEF OwnInv, SweepInv, PruningInv, Serving, LeaderServes
<1>2. QED  BY <1>1, OwnInvariant, PTL

-----------------------------------------------------------------------------
(* The triggers of Me. *)

TriggerInv == TriggerTypes /\ ActiveHasTrigger

(* There is a new number for a trigger. *)
LEMMA FreshTrigger == TriggerTypes => Fresh \in Nat \ {NoTrigger}
<1> SUFFICES ASSUME TriggerTypes PROVE Fresh \in Nat \ {NoTrigger}
  OBVIOUS
<1>1. IsFiniteSet(ToSet(closing))
  <2>1. Len(closing) \in Nat /\ DOMAIN closing = 1 .. Len(closing)
    BY DEF TriggerTypes
  <2>2. closing \in [1 .. Len(closing) -> ToSet(closing)]
    BY <2>1 DEF TriggerTypes, ToSet
  <2>3. closing \in Surjection(1 .. Len(closing), ToSet(closing))
    BY <2>1, <2>2 DEF ToSet, Surjection
  <2>4. QED  BY <2>1, <2>3, FS_Interval, FS_Surjection
<1>2. IsFiniteSet(Used)
  BY <1>1, FS_Union DEF Used, TriggerTypes
<1> DEFINE n == Cardinality(Used)
           Numbers == 1 .. n + 1
<1>3. n \in Nat
  BY <1>2, FS_CardinalityType
<1>4. Cardinality(Numbers) = n + 1
  BY <1>3, FS_Interval
<1>5. ~(Numbers \subseteq Used)
  BY <1>2, <1>3, <1>4, FS_Subset
<1>6. \E i \in Numbers : i \notin Used
  BY <1>5
<1>7. Fresh \in Numbers
  BY <1>6 DEF Fresh
<1>8. QED  BY <1>3, <1>7 DEF NoTrigger

LEMMA TriggerStep == TriggerInv /\ [MultiMainNext]_vars => TriggerInv'
<1> SUFFICES ASSUME TriggerInv, [MultiMainNext]_vars PROVE TriggerInv'
  OBVIOUS
<1> USE DEF TriggerInv, TriggerTypes, ActiveHasTrigger, triggerVars
<1>1. CASE UNCHANGED triggerVars
  BY <1>1
<1>2. ASSUME NEW m \in Mains, Reset(m) \/ ShutdownServices(m) PROVE TriggerInv'
  <2>1. CASE Reset(m) /\ m = Me
    <3>1. entry' = 0 /\ live' = {} /\ closing' = << >>
      BY <2>1 DEF Reset, NoTrigger
    <3>2. closing' \in Seq(Nat \ {NoTrigger})
      BY <3>1
    <3>3. QED  BY <3>1, <3>2, FS_EmptySet DEF NoTrigger
  <2>2. CASE ShutdownServices(m) /\ m = Me
    <3>1. entry' = NoTrigger /\ live' = live \ {entry} /\ closing' = closing
      BY <2>2 DEF ShutdownServices
    <3>2. IsFiniteSet(live')
      BY <3>1, FS_RemoveElement
    <3>3. QED  BY <3>1, <3>2 DEF NoTrigger
  <2>3. CASE m # Me
    BY <1>1, <1>2, <2>3 DEF Reset, ShutdownServices, ownVars
  <2>4. QED  BY <1>2, <2>1, <2>2, <2>3
<1>3. CASE RemoveBegins
  BY <1>3 DEF RemoveBegins
<1>4. CASE RemoveEnds
  <2>1. PICK i \in 1 .. Len(closing) :
          live' = live \ {closing[i]} /\ entry' = NoTrigger /\ closing' = RemoveAt(closing, i)
    BY <1>4 DEF RemoveEnds
  <2>2. closing' \in Seq(Nat \ {NoTrigger})
    BY <2>1 DEF RemoveAt
  <2>3. IsFiniteSet(live')
    BY <2>1, FS_RemoveElement
  <2>4. QED  BY <2>1, <2>2, <2>3 DEF NoTrigger
<1>5. CASE AddEnds
  <2>1. live' = live \cup {Fresh} /\ entry' = Fresh /\ closing' = closing
    BY <1>5 DEF AddEnds
  <2>2. IsFiniteSet(live')
    BY <2>1, FS_AddElement
  <2>3. QED  BY <2>1, <2>2, FreshTrigger
<1>6. CASE SweepBegins \/ SweepEnds \/ InitServices \/ AddBegins
  <2>1. UNCHANGED <<entry, live, closing>>
    BY <1>6 DEF SweepBegins, SweepEnds, InitServices, AddBegins
  <2>2. QED  BY <2>1
<1>7. ASSUME NEW m \in Mains, CheckLeader(m) \/ InitWaitTracker(m) \/ Tracker(m)
      PROVE  TriggerInv'
  BY <1>1, <1>7
  DEF CheckLeader, OnStepdown, OnTakeover, InitWaitTracker, Tracker, PollQuery, PollApply,
      StartExecution, serviceVars, ownVars
<1>8. QED
  BY <1>1, <1>2, <1>3, <1>4, <1>5, <1>6, <1>7 DEF MultiMainNext, Own, vars, serviceVars, ownVars

LEMMA TriggerInvariant == MultiMainSpec => []TriggerInv
<1>1. MultiMainInit => TriggerInv
  BY FS_EmptySet DEF MultiMainInit, ServicesInit, TriggerInv, TriggerTypes, ActiveHasTrigger, NoTrigger
<1>2. QED  BY <1>1, TriggerStep, PTL DEF MultiMainSpec

(* A workflow that is active in memory has its trigger running, however    *)
(* removals and additions overtake each other (ActiveWorkflows).           *)
THEOREM ActiveWorkflowsRun == MultiMainSpec => []ActiveHasTrigger
<1>1. TriggerInv => ActiveHasTrigger  BY DEF TriggerInv
<1>2. QED  BY <1>1, TriggerInvariant, PTL

(* Every variable has its type. *)
THEOREM MultiMainTypeCorrect == MultiMainSpec => []MultiMainTypeOK
<1>1. ElectionInv /\ TrackerTypes /\ OwnInv /\ TriggerInv => MultiMainTypeOK
  BY DEF ElectionInv, TrackerTypes, OwnInv, SweepInv, PruningInv, OwnCounts, TriggerInv, TriggerTypes, MultiMainTypeOK
<1>2. QED  BY <1>1, ElectionHolds, RoleInvariant, OwnInvariant, TriggerInvariant, PTL
=============================================================================
