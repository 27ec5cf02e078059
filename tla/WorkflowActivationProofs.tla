----------------------- MODULE WorkflowActivationProofs -----------------------
(***************************************************************************)
(* For every number of triggers, polls, users, calls and failures: an      *)
(* active workflow that is down is tried again and shows an error, unless  *)
(* a trigger failed during an activation; and when one thing happens after *)
(* the other, what runs is what is stored.                                 *)
(***************************************************************************)
EXTENDS WorkflowActivation, FiniteSetTheorems, WellFoundedInduction, TLAPS

(* Finitely many triggers and polls run, so there is a number for the next. *)
FiniteInv ==
  /\ IsFiniteSet(live) /\ IsFiniteSet(crons) /\ IsFiniteSet(entry.triggers)
  /\ \A j \in Jobs : IsFiniteSet(job[j].open)

(* What the jobs of users and those of the process can be. *)
KindInv ==
  /\ \A u \in Users :
       /\ job[u].kind \notin {"boot", "retry"}
       /\ job[u].at # "idle" => job[u].kind # "none"
  /\ \A t \in Tasks :
       /\ job[t].at \in {"idle", "closing", "starting"}
       /\ job[t].at = "starting" => job[t].kind \in {"boot", "retry"}

-----------------------------------------------------------------------------
(* A workflow that is down *)

(* A node runs, and no removal is about to close what runs it. *)
Safe(x) == \A j \in Jobs : job[j].at = "closing" => x \notin job[j].open
Firm(n) == \E x \in live \cup crons : x.node = n /\ Safe(x)
AllFirm == \A n \in Nodes : Firm(n)

(* An activation of which nothing was removed. *)
Intact(j) == \A n \in 1 .. job[j].next - 1 : Firm(n)

(* A call of a user goes on to activate the workflow or to make it inactive; *)
(* the boot and a retry that is still queued do so or are tried again.       *)
UserRepairs == \E u \in Users : job[u].at # "idle" /\ (job[u].at = "starting" => Intact(u))
TaskRepairs ==
  \E t \in Tasks : job[t].at = "starting" /\ Intact(t) /\ (job[t].kind = "retry" => queue # None)
RetryShown == error /\ (refused \/ (queue # None /\ queue.armed))

(* An activation of which something was removed ends as if all were well,   *)
(* and drops the queued retry: so somebody else must be there.              *)
DownInv ==
  row.active /\ ~crossed =>
    /\ AllFirm \/ UserRepairs \/ TaskRepairs \/ RetryShown
    /\ \A j \in Jobs : job[j].at = "starting" /\ ~Intact(j) => AllFirm \/ UserRepairs

-----------------------------------------------------------------------------
(* One thing after the other *)

(* The first k nodes run, each once, and memory knows them when all triggers do. *)
Up(k) ==
  /\ RunsOnce(live, {n \in 1 .. wf.triggers : n <= k})
  /\ RunsOnce(crons, {n \in Nodes \ (1 .. wf.triggers) : n <= k})
  /\ entry = IF wf.triggers <= k THEN EntryOf(live) ELSE NoEntry

Empty == live = {} /\ crons = {} /\ entry = NoEntry

Rest ==
  \/ Empty /\ (queue # None => queue.armed)
  \/ row.active /\ queue = None /\ Up(wf.triggers + wf.polls)

StageInv(j) ==
  /\ job[j].at = "removing" => row.active /\ Rest
  /\ job[j].at = "closing" =>
       /\ live \subseteq job[j].open /\ crons = {}
       /\ IF j \in Users THEN queue = None ELSE queue # None => queue.armed
  /\ job[j].at \in {"writing", "deciding", "loading", "reverting"} => Empty /\ queue = None
  /\ job[j].at = "loading" => row.active
  /\ job[j].at = "starting" =>
       /\ row.active /\ job[j].version = row.version /\ job[j].open = live
       /\ Up(job[j].next - 1)
       /\ IF job[j].kind = "retry" THEN queue # None /\ ~queue.armed ELSE queue = None

CleanInv ==
  clean =>
    /\ \A i, j \in Jobs : job[i].at # "idle" /\ job[j].at # "idle" => i = j
    /\ \A v \in Versions : lost[v] = 0
    /\ queue # None => row.active /\ queue.version = row.version
    /\ \A j \in Jobs : StageInv(j)
    /\ ~Busy => Rest

ActivationInv == TypeOK /\ FiniteInv /\ KindInv /\ DownInv /\ CleanInv

-----------------------------------------------------------------------------
(* Types *)

(* The sets of TypeOK that the proofs name. *)
Stages == {"idle", "removing", "closing", "writing", "deciding", "loading", "starting", "reverting"}
Wishes == {"none", "save", "activate", "deactivate", "boot", "retry"}
JobRecords ==
  [at : Stages, kind : Wishes, version : Versions, next : Nodes, open : SUBSET Instances]
Timers == [armed : BOOLEAN, version : Versions]
Entries == [there : BOOLEAN, triggers : SUBSET Instances]

JobTypes == job \in [Jobs -> JobRecords]
MemoryTypes == entry \in Entries /\ live \subseteq Instances /\ crons \subseteq Instances
QueueTypes == (queue = None \/ queue \in Timers) /\ lost \in [Versions -> Nat]
FlagTypes == error \in BOOLEAN /\ refused \in BOOLEAN /\ clean \in BOOLEAN /\ crossed \in BOOLEAN
CountTypes ==
  /\ wf \in Workflows /\ row \in [active : BOOLEAN, version : Versions]
  /\ failures \in 0 .. wf.failures /\ calls \in 0 .. wf.calls

LEMMA TypeParts == TypeOK <=> JobTypes /\ MemoryTypes /\ QueueTypes /\ FlagTypes /\ CountTypes
BY Zenon DEF TypeOK, JobTypes, MemoryTypes, QueueTypes, FlagTypes, CountTypes,
             JobRecords, Stages, Wishes, Timers, Entries

LEMMA WorkflowFacts ==
  ASSUME wf \in Workflows
  PROVE  /\ wf.triggers \in Nat /\ wf.polls \in Nat /\ wf.triggers + wf.polls \in Nat \ {0}
         /\ Nodes = 1 .. wf.triggers + wf.polls /\ 1 \in Nodes
         /\ wf.versions \in Nat /\ 1 \in Versions /\ Versions \subseteq Nat
         /\ wf.failures \in Nat /\ wf.calls \in Nat /\ wf.active \in BOOLEAN
         /\ Users \cap Tasks = {} /\ None \notin Timers
BY ActivationAssumption, NoneAssumption DEF Nodes, Versions, Tasks, Timers

LEMMA JobsFinite == IsFiniteSet(Jobs)
<1>1. 2 * MaxFailures + 1 \in Int
  BY ActivationAssumption
<1>2. IsFiniteSet(Tasks)
  BY <1>1, FS_Interval DEF Tasks
<1> QED  BY <1>2, ActivationAssumption, FS_Union DEF Jobs

(* A number that no trigger or poll has that memory may still name. *)
LEMMA FreshIsNew ==
  ASSUME TypeOK, FiniteInv
  PROVE  FreshId \in Nat \ {0} /\ \A x \in Known : x.id # FreshId
<1> DEFINE opens == {job[j].open : j \in Jobs}
           ids == {x.id : x \in Known}
           n == Cardinality(Known)
           Numbers == 1 .. n + 1
<1>1. IsFiniteSet(UNION opens)
  <2> DEFINE f == [j \in Jobs |-> job[j].open]
  <2>1. f \in Surjection(Jobs, opens)
    BY DEF Surjection
  <2>2. IsFiniteSet(opens)
    BY <2>1, JobsFinite, FS_Surjection
  <2>3. \A S \in opens : IsFiniteSet(S)
    BY DEF FiniteInv
  <2> QED  BY <2>2, <2>3, FS_UNION
<1>2. IsFiniteSet(Known)
  BY <1>1, FS_Union DEF Known, FiniteInv
<1>3. IsFiniteSet(ids) /\ Cardinality(ids) <= n
  <2> DEFINE f == [x \in Known |-> x.id]
  <2>1. f \in Surjection(Known, ids)
    BY DEF Surjection
  <2> HIDE DEF f, ids
  <2> QED  BY <2>1, <1>2, FS_Surjection
<1>4. n \in Nat /\ Cardinality(ids) \in Nat
  <2> HIDE DEF ids
  <2> QED  BY <1>2, <1>3, FS_CardinalityType
<1>5. IsFiniteSet(Numbers) /\ Cardinality(Numbers) = n + 1
  <2> HIDE DEF n
  <2> QED  BY <1>4, FS_Interval
<1>6. ~(Numbers \subseteq ids)
  <2> HIDE DEF n, ids, Numbers
  <2> QED  BY <1>3, <1>4, <1>5, FS_Subset
<1>7. \E i \in Numbers : \A x \in Known : x.id # i
  BY <1>6
<1>8. FreshId \in Numbers /\ \A x \in Known : x.id # FreshId
  BY <1>7 DEF FreshId
<1> QED  BY <1>4, <1>8

LEMMA ActivationInit == Init => ActivationInv
<1> SUFFICES ASSUME Init PROVE ActivationInv
  OBVIOUS
<1> USE WorkflowFacts DEF Init
<1>1. TypeOK
  <2>1. JobTypes
    BY DEF JobTypes, JobRecords, Stages, Wishes, Starting, Idle
  <2>2. MemoryTypes /\ QueueTypes /\ CountTypes
    BY DEF MemoryTypes, Entries, NoEntry, EntryOf, QueueTypes, CountTypes
  <2>3. FlagTypes
    BY Zenon DEF FlagTypes
  <2> QED  BY <2>1, <2>2, <2>3, TypeParts
<1>2. FiniteInv
  BY FS_EmptySet DEF FiniteInv, NoEntry, EntryOf, Starting, Idle
<1>3. KindInv
  <2>1. \A u \in Users : u # 1
    BY ActivationAssumption
  <2>2. \A t \in Tasks : job[t].at = "idle" \/ (job[t].at = "starting" /\ job[t].kind = "boot")
    BY DEF Jobs, Starting, Idle
  <2>3. \A u \in Users : job[u].kind = "none" /\ job[u].at = "idle"
    BY <2>1 DEF Jobs, Idle
  <2> QED  BY <2>2, <2>3 DEF KindInv
<1>4. DownInv
  <2> SUFFICES ASSUME row.active PROVE DownInv
    BY DEF DownInv
  <2>1. 1 \in Tasks
    BY ActivationAssumption DEF Tasks
  <2>2. \A j \in Jobs : job[j].at = "starting" => Intact(j)
    BY DEF Intact, Starting, Idle
  <2>3. job[1].at = "starting" /\ job[1].kind = "boot"
    BY <2>1 DEF Jobs, Starting, Idle
  <2>4. TaskRepairs
    BY <2>1, <2>2, <2>3 DEF TaskRepairs, Jobs
  <2> QED  BY <2>2, <2>4 DEF DownInv
<1>5. CleanInv
  <2>1. \A j \in Jobs : job[j].at # "idle" => j = 1 /\ wf.active /\ job[j] = Starting("boot", 1)
    BY DEF Idle
  <2>2. wf.active => 1 \in Jobs /\ Busy
    BY ActivationAssumption DEF Tasks, Jobs, Busy, Starting, Idle
  <2>3. ~wf.active => Empty
    BY DEF Empty
  <2>4. wf.active => Up(0)
    BY DEF Up, RunsOnce
  <2>5. \A j \in Jobs : StageInv(j)
    BY <2>1, <2>4 DEF StageInv, Starting, Idle
  <2>6. \A v \in Versions : lost[v] = 0
    OBVIOUS
  <2> QED  BY <2>1, <2>2, <2>3, <2>5, <2>6 DEF CleanInv, Rest
<1> QED  BY <1>1, <1>2, <1>3, <1>4, <1>5 DEF ActivationInv

LEMMA WorkflowStays ==
  ASSUME [Next]_vars
  PROVE  wf' = wf /\ Nodes' = Nodes /\ Versions' = Versions /\ Instances' = Instances
<1>1. wf' = wf
  BY DEF Next, vars, Update, Read, Remove, Write, Decide, Load, Revert, CloseEnds, StartNode,
         StartFails, Fire, TriggerFails
<1> QED  BY <1>1 DEF Nodes, Versions, Instances

(* What a step leaves of the flags is a truth value. *)
LEMMA FlagStep ==
  ASSUME FlagTypes, [Next]_vars
  PROVE  FlagTypes'
<1> USE DEF FlagTypes
<1>1. ASSUME NEW u \in Users, NEW want \in {"save", "activate", "deactivate"}, Read(u, want)
      PROVE  FlagTypes'
  BY <1>1, Zenon DEF Read, Begins
<1>2. ASSUME NEW u \in Users, Update(u)
      PROVE  FlagTypes'
  BY <1>2, Zenon DEF Update, Remove, Write, Decide, Load, Revert
<1>3. ASSUME NEW j \in Jobs, CloseEnds(j) \/ StartNode(j)
      PROVE  FlagTypes'
  BY <1>3, Zenon DEF CloseEnds, StartNode
<1>4. ASSUME NEW j \in Jobs, StartFails(j)
      PROVE  FlagTypes'
  BY <1>4, Zenon DEF StartFails
<1>5. ASSUME Fire
      PROVE  FlagTypes'
  BY <1>5, Zenon DEF Fire, Begins
<1>6. ASSUME TriggerFails
      PROVE  FlagTypes'
  BY <1>6, Zenon DEF TriggerFails, Begins
<1>7. CASE UNCHANGED vars
  BY <1>7, Zenon DEF vars
<1> QED  BY <1>1, <1>2, <1>3, <1>4, <1>5, <1>6, <1>7 DEF Next

LEMMA JobFacts ==
  ASSUME JobTypes, NEW j \in Jobs
  PROVE  /\ job[j].at \in Stages /\ job[j].kind \in Wishes /\ job[j].version \in Versions
         /\ job[j].next \in Nodes /\ job[j].open \subseteq Instances /\ DOMAIN job = Jobs
BY DEF JobTypes, JobRecords

(* A job that moves on stays a job. *)
LEMMA JobMoves ==
  ASSUME JobTypes, FiniteInv, JobRecords' = JobRecords, NEW j \in Jobs, NEW r \in JobRecords,
         IsFiniteSet(r.open), job' = [job EXCEPT ![j] = r]
  PROVE  JobTypes' /\ \A i \in Jobs : IsFiniteSet(job'[i].open)
BY DEF JobTypes, FiniteInv

LEMMA JobSteps ==
  ASSUME JobTypes, FiniteInv, JobRecords' = JobRecords, NEW j \in Jobs, NEW at \in Stages, Step(j, at)
  PROVE  JobTypes' /\ \A i \in Jobs : IsFiniteSet(job'[i].open)
<1> DEFINE r == [job[j] EXCEPT !.at = at]
<1>1. r \in JobRecords /\ r.open = job[j].open
  BY DEF JobTypes, JobRecords
<1>2. job' = [job EXCEPT ![j] = r]
  BY DEF Step, JobTypes
<1>3. IsFiniteSet(r.open)
  BY <1>1 DEF FiniteInv
<1> QED  BY <1>1, <1>2, <1>3, JobMoves

LEMMA IdleFacts ==
  ASSUME wf \in Workflows
  PROVE  /\ Idle \in JobRecords /\ Idle.open = {} /\ Idle.at = "idle" /\ Idle.next = 1
         /\ \A at \in Stages, kind \in Wishes : [Idle EXCEPT !.kind = kind, !.at = at] \in JobRecords
         /\ \A kind \in Wishes, v \in Versions : Starting(kind, v) \in JobRecords
BY WorkflowFacts DEF Idle, Starting, JobRecords, Stages, Wishes

(* Every set of numbers has a least one. *)
LEMMA Least ==
  ASSUME NEW T \in SUBSET Nat, T # {}
  PROVE  \E n \in T : \A m \in T : n <= m
<1> DEFINE R == OpToRel(<, Nat)
<1>1. IsWellFoundedOn(R, Nat)
  BY NatLessThanWellFounded
<1>2. ASSUME NEW m \in Nat, NEW n \in Nat, m < n
      PROVE  <<m, n>> \in R
  BY <1>2 DEF OpToRel
<1> HIDE DEF R
<1>3. PICK n \in T : \A m \in T : <<m, n>> \notin R
  BY <1>1, WFMin
<1>4. ASSUME NEW m \in T
      PROVE  n <= m
  <2>1. m \in Nat /\ n \in Nat /\ ~(m < n)
    BY <1>2, <1>3
  <2> QED  BY <2>1
<1> QED  BY <1>4

LEMMA FreeTaskFacts ==
  ASSUME FreeTasks # {}
  PROVE  FreeTask \in Tasks /\ job[FreeTask].at = "idle"
<1>1. FreeTasks \subseteq Nat
  BY DEF FreeTasks, Tasks
<1>2. \E t \in FreeTasks : \A s \in FreeTasks : t <= s
  BY <1>1, Least
<1>3. FreeTask \in FreeTasks
  BY <1>2 DEF FreeTask
<1> QED  BY <1>3 DEF FreeTasks

LEMMA ActivationTypes ==
  ASSUME TypeOK, FiniteInv, KindInv, [Next]_vars
  PROVE  TypeOK' /\ FiniteInv'
<1> DEFINE Goal == JobTypes' /\ MemoryTypes' /\ QueueTypes' /\ CountTypes' /\ FiniteInv'
<1> USE WorkflowFacts, WorkflowStays, FS_EmptySet
<1>1. JobTypes /\ MemoryTypes /\ QueueTypes /\ FlagTypes /\ CountTypes /\ wf \in Workflows
  BY TypeParts DEF CountTypes
<1>2. JobRecords' = JobRecords /\ Timers' = Timers /\ Entries' = Entries
  BY DEF JobRecords, Stages, Wishes, Timers, Entries
<1> USE <1>1, <1>2
<1> DEFINE Jobs2 == JobTypes' /\ \A i \in Jobs : IsFiniteSet(job'[i].open)
<1>3. ASSUME NEW u \in Users, NEW want \in {"save", "activate", "deactivate"}, Read(u, want)
      PROVE  Goal
  <2> DEFINE r == [Idle EXCEPT !.kind = want, !.at = IF row.active THEN "removing" ELSE "writing"]
  <2>1. r \in JobRecords /\ r.open = {}
    BY IdleFacts DEF Idle, Stages, Wishes
  <2>2. job' = [job EXCEPT ![u] = r]
    BY <1>3 DEF Read
  <2>3. Jobs2
    <3> HIDE DEF r
    <3> QED  BY <2>1, <2>2, JobMoves DEF Jobs
  <2>4. UNCHANGED <<row, entry, live, crons, queue, lost, failures>> /\ calls' \in 0 .. wf.calls
    BY <1>3 DEF Read, CountTypes
  <2> QED  BY <2>3, <2>4 DEF FiniteInv, MemoryTypes, QueueTypes, CountTypes
<1>4. ASSUME NEW u \in Users, Remove(u)
      PROVE  Goal
  <2>1. CASE ~entry.there
    <3>1. Step(u, "writing") /\ UNCHANGED <<row, entry, live, crons, lost, failures, calls>> /\ queue' = None
      BY <1>4, <2>1 DEF Remove
    <3>2. Jobs2
      BY <3>1, JobSteps DEF Stages, Jobs
    <3> QED  BY <3>1, <3>2 DEF FiniteInv, MemoryTypes, QueueTypes, CountTypes
  <2>2. CASE entry.there
    <3> DEFINE r == [job[u] EXCEPT !.at = "closing", !.open = entry.triggers]
    <3>1. /\ job' = [job EXCEPT ![u] = r] /\ crons' = {}
          /\ UNCHANGED <<row, entry, live, lost, failures, calls>> /\ queue' = None
      BY <1>4, <2>2 DEF Remove, JobTypes, Jobs
    <3>2. r \in JobRecords /\ r.open = entry.triggers
      <4>1. entry.triggers \subseteq Instances /\ u \in Jobs
        BY DEF MemoryTypes, Entries, Jobs
      <4> QED  BY <4>1 DEF JobTypes, JobRecords, Stages
    <3>3. Jobs2
      <4> HIDE DEF r
      <4> QED  BY <3>1, <3>2, JobMoves DEF Jobs, FiniteInv
    <3> QED  BY <3>1, <3>3 DEF FiniteInv, MemoryTypes, QueueTypes, CountTypes
  <2> QED  BY <2>1, <2>2
<1>5. ASSUME NEW j \in Jobs, CloseEnds(j)
      PROVE  Goal
  <2> DEFINE r == [job[j] EXCEPT !.at = IF j \in Users THEN "writing" ELSE "idle", !.open = {}]
  <2>1. /\ job' = [job EXCEPT ![j] = r] /\ entry' = NoEntry /\ live' = live \ job[j].open
        /\ UNCHANGED <<row, crons, queue, lost, failures, calls>>
    BY <1>5 DEF CloseEnds, JobTypes
  <2>2. r \in JobRecords /\ r.open = {}
    BY DEF JobTypes, JobRecords, Stages
  <2>3. Jobs2
    <3> HIDE DEF r
    <3> QED  BY <2>1, <2>2, JobMoves
  <2>4. IsFiniteSet(live')
    BY <2>1, FS_Difference DEF FiniteInv
  <2> QED  BY <2>1, <2>3, <2>4 DEF FiniteInv, MemoryTypes, QueueTypes, CountTypes, NoEntry, Entries
<1>6. ASSUME NEW u \in Users, Write(u)
      PROVE  Goal
  <2>1. Jobs2
    BY <1>6, JobSteps DEF Write, Jobs, Stages
  <2>2. UNCHANGED <<entry, live, crons, queue, lost, failures, calls>>
    BY <1>6 DEF Write
  <2>3. job[u].kind \in {"save", "activate", "deactivate"}
    BY <1>6, JobFacts DEF Write, KindInv, Jobs, Wishes
  <2>4. row' \in [active : BOOLEAN, version : Versions]
    <3>1. CASE job[u].kind = "save"
      <4>1. row' = [row EXCEPT !.version = IF @ < wf.versions THEN @ + 1 ELSE @]
        BY <1>6, <3>1 DEF Write
      <4>2. row.version \in 1 .. wf.versions
        BY DEF CountTypes, Versions
      <4> QED  BY <4>1, <4>2 DEF CountTypes, Versions
    <3>2. CASE job[u].kind # "save"
      BY <1>6, <2>3, <3>2 DEF Write, CountTypes
    <3> QED  BY <3>1, <3>2
  <2> QED  BY <2>1, <2>2, <2>4 DEF FiniteInv, MemoryTypes, QueueTypes, CountTypes
<1>7. ASSUME NEW u \in Users, Decide(u) \/ Revert(u)
      PROVE  Goal
  <2>1. Jobs2
    BY <1>7, JobSteps DEF Decide, Revert, Jobs, Stages
  <2>2. UNCHANGED <<entry, live, crons, queue, lost, failures, calls>>
    BY <1>7 DEF Decide, Revert
  <2>3. row' \in [active : BOOLEAN, version : Versions]
    BY <1>7 DEF Decide, Revert, CountTypes
  <2> QED  BY <2>1, <2>2, <2>3 DEF FiniteInv, MemoryTypes, QueueTypes, CountTypes
<1>8. ASSUME NEW u \in Users, Load(u)
      PROVE  Goal
  <2>1. Starting(job[u].kind, row.version) \in JobRecords /\ Starting(job[u].kind, row.version).open = {}
    BY IdleFacts, JobFacts DEF Jobs, CountTypes, Starting, Idle
  <2>2. /\ job' = [job EXCEPT ![u] = Starting(job[u].kind, row.version)] /\ entry' = Entered
        /\ UNCHANGED <<row, live, crons, queue, lost, failures, calls>>
    BY <1>8 DEF Load
  <2>3. Jobs2
    BY <2>1, <2>2, JobMoves DEF Jobs
  <2> QED  BY <2>2, <2>3 DEF FiniteInv, MemoryTypes, QueueTypes, CountTypes, Entered, EntryOf, Entries
<1>9. ASSUME NEW j \in Jobs, StartNode(j)
      PROVE  Goal
  <2> DEFINE n == job[j].next
             x == [node |-> n, version |-> job[j].version, id |-> FreshId]
             mine == IF n <= wf.triggers THEN job[j].open \cup {x} ELSE job[j].open
             r == IF n + 1 \in Nodes THEN [job[j] EXCEPT !.next = n + 1, !.open = mine] ELSE Idle
  <2>1. x \in Instances
    BY FreshIsNew, JobFacts DEF Instances
  <2> HIDE DEF x
  <2>2. mine \subseteq Instances /\ IsFiniteSet(mine)
    <3>1. job[j].open \subseteq Instances /\ IsFiniteSet(job[j].open)
      BY JobFacts DEF FiniteInv
    <3>2. IsFiniteSet(job[j].open \cup {x})
      BY <3>1, FS_AddElement
    <3> QED  BY <2>1, <3>1, <3>2
  <2>3. /\ live' \in {live, live \cup {x}} /\ crons' \in {crons, crons \cup {x}}
        /\ entry' \in {entry, EntryOf(mine)} /\ UNCHANGED <<row, lost, failures, calls>>
        /\ queue' \in {queue, None}
    BY <1>9 DEF StartNode, x
  <2>4. job' = [job EXCEPT ![j] = r]
    BY <1>9 DEF StartNode, JobTypes, x
  <2> HIDE DEF mine
  <2>5. r \in JobRecords /\ IsFiniteSet(r.open)
    <3>1. CASE n + 1 \in Nodes
      BY <2>2, <3>1 DEF JobTypes, JobRecords
    <3>2. CASE n + 1 \notin Nodes
      BY <3>2, IdleFacts
    <3> QED  BY <3>1, <3>2
  <2>6. Jobs2
    <3> HIDE DEF r
    <3> QED  BY <2>4, <2>5, JobMoves
  <2>7. IsFiniteSet(live') /\ IsFiniteSet(crons') /\ IsFiniteSet(entry'.triggers)
    <3>1. IsFiniteSet(live \cup {x}) /\ IsFiniteSet(crons \cup {x})
      BY FS_AddElement DEF FiniteInv
    <3>2. IsFiniteSet(live') /\ IsFiniteSet(crons')
      BY <2>3, <3>1 DEF FiniteInv
    <3>3. entry'.triggers \in {entry.triggers, mine}
      BY <2>3 DEF EntryOf
    <3> QED  BY <2>2, <3>2, <3>3 DEF FiniteInv
  <2>8. MemoryTypes'
    BY <2>1, <2>2, <2>3 DEF MemoryTypes, EntryOf, Entries
  <2> QED  BY <2>3, <2>6, <2>7, <2>8 DEF FiniteInv, QueueTypes, CountTypes
<1>10. ASSUME NEW j \in Jobs, StartFails(j)
      PROVE  Goal
  <2>1. UNCHANGED <<row, live, crons, calls>> /\ failures' \in 0 .. wf.failures
    BY <1>10 DEF StartFails, CountTypes
  <2>2. MemoryTypes' /\ IsFiniteSet(entry'.triggers)
    BY <1>10, <2>1 DEF StartFails, MemoryTypes, NoEntry, Entries, FiniteInv
  <2>3. Jobs2
    <3>1. Step(j, "reverting") \/ job' = [job EXCEPT ![j] = Idle]
      BY <1>10 DEF StartFails
    <3>2. CASE Step(j, "reverting")
      BY <3>2, JobSteps DEF Stages
    <3>3. CASE job' = [job EXCEPT ![j] = Idle]
      BY <3>3, IdleFacts, JobMoves
    <3> QED  BY <3>1, <3>2, <3>3
  <2>4. QueueTypes'
    <3>1. Retry(job[j].version) \in Timers
      BY JobFacts DEF Retry, Timers
    <3>2. UNCHANGED <<queue, lost>> \/ (queue' = Retry(job[j].version) /\ UNCHANGED lost)
            \/ RetryAgain(job[j].version)
      BY <1>10 DEF StartFails
    <3>3. CASE RetryAgain(job[j].version)
      <4>1. UNCHANGED queue \/ queue' = Retry(job[j].version)
        BY <3>3 DEF RetryAgain
      <4>2. lost' \in [Versions -> Nat]
        BY <3>3 DEF RetryAgain, QueueTypes, Timers
      <4> QED  BY <3>1, <4>1, <4>2 DEF QueueTypes
    <3> QED  BY <3>1, <3>2, <3>3 DEF QueueTypes
  <2> QED  BY <2>1, <2>2, <2>3, <2>4 DEF FiniteInv, CountTypes, MemoryTypes
<1>11. ASSUME Fire
      PROVE  Goal
  <2>1. FreeTask \in Jobs
    BY <1>11, FreeTaskFacts DEF Fire, Jobs
  <2>2. UNCHANGED <<row, live, crons, failures, calls>> /\ entry' = Entered
    BY <1>11 DEF Fire
  <2>3. PICK v \in Versions : job' = [job EXCEPT ![FreeTask] = Starting("retry", v)]
    BY <1>11 DEF Fire, QueueTypes, Timers
  <2>4. Jobs2
    <3>1. Starting("retry", v) \in JobRecords /\ Starting("retry", v).open = {}
      BY IdleFacts DEF Wishes, Starting, Idle
    <3> QED  BY <2>1, <2>3, <3>1, JobMoves
  <2>5. QueueTypes'
    <3>1. UNCHANGED queue \/ (queue # None /\ queue' = [queue EXCEPT !.armed = FALSE])
      BY <1>11 DEF Fire
    <3>2. queue' = None \/ queue' \in Timers
      BY <3>1 DEF QueueTypes, Timers
    <3>3. UNCHANGED lost \/ \E w \in Versions : lost[w] > 0 /\ lost' = [lost EXCEPT ![w] = @ - 1]
      BY <1>11 DEF Fire
    <3>4. lost' \in [Versions -> Nat]
      BY <3>3 DEF QueueTypes
    <3> QED  BY <3>2, <3>4 DEF QueueTypes
  <2>6. MemoryTypes' /\ IsFiniteSet(entry'.triggers)
    BY <2>2 DEF MemoryTypes, Entered, EntryOf, Entries, FiniteInv
  <2> QED  BY <2>2, <2>4, <2>5, <2>6 DEF FiniteInv, CountTypes
<1>12. ASSUME TriggerFails
      PROVE  Goal
  <2>1. FreeTask \in Jobs
    BY <1>12, FreeTaskFacts DEF TriggerFails, Jobs
  <2>2. PICK x \in live : live' = live \ {x} /\ queue' = Retry(x.version)
    BY <1>12 DEF TriggerFails
  <2>3. UNCHANGED <<row, entry, lost, calls>> /\ crons' \in {crons, {}} /\ failures' \in 0 .. wf.failures
    BY <1>12 DEF TriggerFails, CountTypes
  <2>4. x.version \in Versions
    BY DEF MemoryTypes, Instances
  <2>5. Jobs2
    <3> DEFINE r == [Idle EXCEPT !.at = "closing", !.open = entry.triggers]
    <3>1. UNCHANGED job \/ job' = [job EXCEPT ![FreeTask] = r]
      BY <1>12 DEF TriggerFails
    <3>2. entry.triggers \subseteq Instances
      BY DEF MemoryTypes, Entries
    <3>3. r \in JobRecords /\ r.open = entry.triggers
      BY <3>2 DEF Idle, JobRecords, Stages, Wishes
    <3> HIDE DEF r
    <3>4. CASE UNCHANGED job
      BY <3>4 DEF JobTypes, FiniteInv
    <3> QED  BY <2>1, <3>1, <3>3, <3>4, JobMoves DEF FiniteInv
  <2>6. IsFiniteSet(live') /\ IsFiniteSet(crons')
    BY <2>2, <2>3, FS_RemoveElement DEF FiniteInv
  <2>7. QueueTypes'
    BY <2>2, <2>3, <2>4 DEF QueueTypes, Retry, Timers
  <2> QED  BY <2>2, <2>3, <2>5, <2>6, <2>7 DEF FiniteInv, CountTypes, MemoryTypes
<1>13. ASSUME UNCHANGED vars
       PROVE  Goal
  <2>1. JobTypes' /\ FiniteInv'
    BY <1>13 DEF vars, JobTypes, FiniteInv
  <2>2. MemoryTypes' /\ QueueTypes' /\ CountTypes'
    BY <1>13 DEF vars, MemoryTypes, QueueTypes, CountTypes
  <2> QED  BY <2>1, <2>2
<1> HIDE DEF Goal
<1>14. Goal
  BY <1>3, <1>4, <1>5, <1>6, <1>7, <1>8, <1>9, <1>10, <1>11, <1>12, <1>13 DEF Next, Update
<1>15. JobTypes' /\ MemoryTypes' /\ QueueTypes' /\ CountTypes' /\ FiniteInv'
  BY <1>14 DEF Goal
<1>16. FlagTypes'
  BY FlagStep
<1>17. TypeOK' <=> (JobTypes /\ MemoryTypes /\ QueueTypes /\ FlagTypes /\ CountTypes)'
  BY TypeParts, PTL
<1> QED  BY <1>15, <1>16, <1>17

(* What each action does to the job it is about, and that it is about one. *)
OthersStay(j) == \A i \in Jobs \ {j} : job'[i] = job[i]

LEMMA StepChanges ==
  ASSUME JobTypes, NEW j \in Jobs, NEW at, Step(j, at)
  PROVE  /\ OthersStay(j) /\ job'[j].at = at /\ job'[j].kind = job[j].kind
         /\ job'[j].next = job[j].next /\ job'[j].open = job[j].open
         /\ job'[j].version = job[j].version
BY DEF Step, OthersStay, JobTypes, JobRecords

LEMMA UpdateChanges ==
  ASSUME JobTypes, NEW u \in Users, Update(u)
  PROVE  /\ OthersStay(u) /\ job[u].at # "idle" /\ job'[u].kind = job[u].kind
         /\ job'[u].at \in {"closing", "writing", "deciding", "loading", "starting", "idle"}
<1>0. u \in Jobs /\ job[u] \in JobRecords
  BY DEF Jobs, JobTypes
<1>1. CASE Remove(u)
  <2>1. CASE ~entry.there
    BY <1>0, <1>1, <2>1, StepChanges DEF Remove
  <2>2. CASE entry.there
    BY <1>0, <1>1, <2>2 DEF Remove, OthersStay, JobTypes, JobRecords
  <2> QED  BY <2>1, <2>2
<1>2. CASE Write(u)
  BY <1>0, <1>2, StepChanges DEF Write
<1>3. CASE Decide(u)
  BY <1>0, <1>3, StepChanges DEF Decide
<1>4. CASE Load(u)
  BY <1>0, <1>4 DEF Load, OthersStay, JobTypes, Starting, Idle
<1>5. CASE Revert(u)
  BY <1>0, <1>5, StepChanges DEF Revert
<1> QED  BY <1>1, <1>2, <1>3, <1>4, <1>5 DEF Update

LEMMA CloseChanges ==
  ASSUME JobTypes, NEW j \in Jobs, CloseEnds(j)
  PROVE  /\ OthersStay(j) /\ job[j].at = "closing" /\ job'[j].kind = job[j].kind
         /\ j \in Users => job'[j].at = "writing"
         /\ j \notin Users => job'[j].at = "idle"
BY DEF CloseEnds, OthersStay, JobTypes, JobRecords

LEMMA StartChanges ==
  ASSUME JobTypes, NEW j \in Jobs, StartNode(j)
  PROVE  \E n, x, mine :
           /\ n = job[j].next /\ x = [node |-> n, version |-> job[j].version, id |-> FreshId]
           /\ OthersStay(j) /\ job[j].at = "starting"
           /\ \/ /\ n + 1 \in Nodes
                 /\ job'[j].at = "starting" /\ job'[j].kind = job[j].kind
                 /\ job'[j].next = n + 1 /\ job'[j].version = job[j].version
                 /\ job'[j].open = mine /\ UNCHANGED <<queue, error>>
              \/ n + 1 \notin Nodes /\ job'[j] = Idle /\ queue' = None /\ error' = FALSE
           /\ \/ /\ n <= wf.triggers /\ mine = job[j].open \cup {x}
                 /\ live' = live \cup {x} /\ UNCHANGED crons
              \/ /\ ~(n <= wf.triggers) /\ mine = job[j].open
                 /\ crons' = crons \cup {x} /\ UNCHANGED live
           /\ entry' = IF n = wf.triggers THEN EntryOf(mine) ELSE entry
           /\ UNCHANGED <<wf, crossed, row, lost, refused, clean, failures, calls>>
<1>0. PICK n : n = job[j].next
  OBVIOUS
<1>1. PICK x : x = [node |-> n, version |-> job[j].version, id |-> FreshId]
  OBVIOUS
<1>2. PICK mine : mine = IF n <= wf.triggers THEN job[j].open \cup {x} ELSE job[j].open
  OBVIOUS
<1>3. /\ job[j].at = "starting"
      /\ IF n <= wf.triggers THEN live' = live \cup {x} /\ UNCHANGED crons
                           ELSE crons' = crons \cup {x} /\ UNCHANGED live
      /\ entry' = IF n = wf.triggers THEN EntryOf(mine) ELSE entry
      /\ UNCHANGED <<wf, crossed, row, lost, refused, clean, failures, calls>>
  BY <1>0, <1>1, <1>2 DEF StartNode
<1>4. IF n + 1 \in Nodes
        THEN job' = [job EXCEPT ![j].next = n + 1, ![j].open = mine] /\ UNCHANGED <<queue, error>>
        ELSE job' = [job EXCEPT ![j] = Idle] /\ queue' = None /\ error' = FALSE
  BY <1>0, <1>1, <1>2 DEF StartNode
<1>5. job[j] \in JobRecords
  BY DEF JobTypes
<1>6. n + 1 \in Nodes =>
        /\ OthersStay(j) /\ job'[j].at = job[j].at /\ job'[j].kind = job[j].kind
        /\ job'[j].next = n + 1 /\ job'[j].version = job[j].version
        /\ job'[j].open = mine
  BY <1>4, <1>5 DEF OthersStay, JobTypes, JobRecords
<1>7. n + 1 \notin Nodes => OthersStay(j) /\ job'[j] = Idle
  BY <1>4 DEF OthersStay, JobTypes
<1> QED  BY <1>0, <1>1, <1>2, <1>3, <1>4, <1>6, <1>7

LEMMA FailChanges ==
  ASSUME JobTypes, NEW j \in Jobs, StartFails(j)
  PROVE  /\ OthersStay(j) /\ job[j].at = "starting"
         /\ \/ j \in Users /\ job'[j].at = "reverting" /\ job'[j].kind = job[j].kind
            \/ job[j].kind \in {"boot", "retry"} /\ job'[j] = Idle
<1>1. CASE j \in Users /\ Step(j, "reverting")
  BY <1>1, StepChanges DEF StartFails
<1>2. CASE job[j].kind \in {"boot", "retry"} /\ job' = [job EXCEPT ![j] = Idle]
  BY <1>2 DEF StartFails, OthersStay, JobTypes
<1> QED  BY <1>1, <1>2 DEF StartFails

LEMMA FireChanges ==
  ASSUME JobTypes, QueueTypes, Fire
  PROVE  \E v \in Versions :
           /\ FreeTask \in Tasks /\ OthersStay(FreeTask) /\ job[FreeTask].at = "idle"
           /\ job'[FreeTask] = Starting("retry", v)
           /\ \/ /\ queue # None /\ queue.armed /\ queue' = [queue EXCEPT !.armed = FALSE]
                 /\ v = queue.version /\ UNCHANGED lost
              \/ lost[v] > 0 /\ UNCHANGED queue
<1>1. FreeTask \in Tasks /\ job[FreeTask].at = "idle" /\ FreeTask \in Jobs
  BY FreeTaskFacts DEF Fire, Jobs
<1>2. \E v \in Versions :
         /\ job' = [job EXCEPT ![FreeTask] = Starting("retry", v)]
         /\ \/ /\ queue # None /\ queue.armed /\ queue' = [queue EXCEPT !.armed = FALSE]
               /\ v = queue.version /\ UNCHANGED lost
            \/ lost[v] > 0 /\ UNCHANGED queue
  <2>1. CASE /\ queue # None /\ queue.armed /\ queue' = [queue EXCEPT !.armed = FALSE] /\ UNCHANGED lost
             /\ job' = [job EXCEPT ![FreeTask] = Starting("retry", queue.version)]
    BY <2>1, TypeParts DEF QueueTypes, Timers
  <2> QED  BY <2>1 DEF Fire
<1> QED  BY <1>1, <1>2 DEF OthersStay, JobTypes

LEMMA FailureChanges ==
  ASSUME JobTypes, TriggerFails
  PROVE  /\ FreeTask \in Tasks /\ OthersStay(FreeTask) /\ job[FreeTask].at = "idle"
         /\ IF entry.there
              THEN job'[FreeTask] = [Idle EXCEPT !.at = "closing", !.open = entry.triggers] /\ crons' = {}
              ELSE UNCHANGED <<job, crons>>
         /\ \E x \in live : live' = live \ {x} /\ queue' = Retry(x.version)
<1>1. FreeTask \in Tasks /\ job[FreeTask].at = "idle" /\ FreeTask \in Jobs
  BY FreeTaskFacts DEF TriggerFails, Jobs
<1>2. \/ ~entry.there /\ UNCHANGED <<job, crons>>
      \/ /\ entry.there /\ crons' = {}
         /\ job' = [job EXCEPT ![FreeTask] = [Idle EXCEPT !.at = "closing", !.open = entry.triggers]]
  BY DEF TriggerFails
<1>3. \E x \in live : live' = live \ {x} /\ queue' = Retry(x.version)
  BY DEF TriggerFails
<1>4. OthersStay(FreeTask)
  BY <1>1, <1>2 DEF OthersStay, JobTypes
<1> QED  BY <1>1, <1>2, <1>3, <1>4 DEF JobTypes

LEMMA ActivationKinds ==
  ASSUME TypeOK, KindInv, [Next]_vars
  PROVE  KindInv'
<1> USE WorkflowFacts DEF KindInv, Jobs
<1>1. JobTypes /\ wf \in Workflows
  BY TypeParts DEF CountTypes
<1>2. ASSUME NEW u \in Users, NEW want \in {"save", "activate", "deactivate"}, Read(u, want)
      PROVE  KindInv'
  BY <1>1, <1>2 DEF Read, Idle, JobTypes
<1>3. ASSUME NEW u \in Users, Update(u)
      PROVE  KindInv'
  BY <1>1, <1>3, UpdateChanges DEF OthersStay
<1>4. ASSUME NEW j \in Jobs, CloseEnds(j) \/ StartNode(j) \/ StartFails(j)
      PROVE  KindInv'
  <2>1. OthersStay(j)
    BY <1>1, <1>4, CloseChanges, StartChanges, FailChanges
  <2>2. CASE CloseEnds(j)
    BY <1>1, <2>1, <2>2, CloseChanges DEF OthersStay
  <2>3. CASE StartNode(j)
    <3>1. Idle.at = "idle" /\ Idle.kind = "none"
      BY DEF Idle
    <3>2. job[j].at = "starting" /\ (job'[j] = Idle \/ (job'[j].at = "starting" /\ job'[j].kind = job[j].kind))
      BY <1>1, <2>3, StartChanges
    <3> QED  BY <1>1, <2>1, <3>1, <3>2 DEF OthersStay
  <2>4. CASE StartFails(j)
    BY <1>1, <2>1, <2>4, FailChanges DEF OthersStay, Idle
  <2> QED  BY <1>4, <2>2, <2>3, <2>4
<1>5. ASSUME Fire \/ TriggerFails
      PROVE  KindInv'
  <2>1. CASE Fire
    <3>1. QueueTypes
      BY TypeParts
    <3>2. \A v : Starting("retry", v).at = "starting" /\ Starting("retry", v).kind = "retry"
      BY DEF Starting, Idle
    <3>3. /\ FreeTask \in Tasks /\ OthersStay(FreeTask)
          /\ job'[FreeTask].at = "starting" /\ job'[FreeTask].kind = "retry"
      BY <1>1, <2>1, <3>1, <3>2, FireChanges
    <3> QED  BY <1>1, <3>3 DEF OthersStay
  <2>2. CASE TriggerFails
    BY <1>1, <2>2, FailureChanges DEF OthersStay, Idle
  <2> QED  BY <1>5, <2>1, <2>2
<1>6. CASE UNCHANGED vars
  BY <1>6 DEF vars
<1> QED  BY <1>2, <1>3, <1>4, <1>5, <1>6 DEF Next

-----------------------------------------------------------------------------
(* A workflow that is down *)

(* What runs and is not about to be closed stays so while no removal begins. *)
LEMMA FirmStays ==
  ASSUME NEW j \in Jobs, OthersStay(j), job'[j].at # "closing",
         \A x \in live \cup crons : Safe(x) => x \in live' \cup crons'
  PROVE  /\ \A n : Firm(n) => Firm(n)'
         /\ \A i \in Jobs \ {j} : Intact(i) => Intact(i)'
<1>1. \A x : Safe(x) => Safe(x)'
  BY DEF Safe, OthersStay
<1>2. \A n : Firm(n) => Firm(n)'
  BY <1>1 DEF Firm
<1> QED  BY <1>2 DEF Intact, OthersStay

(* A call of a user that is not about to start a node repairs what is down. *)
LEMMA UserGoesOn ==
  ASSUME NEW u \in Users, job'[u].at \notin {"idle", "starting"}
  PROVE  DownInv'
BY DEF DownInv, UserRepairs

(* The node that is started next is firm. *)
LEMMA StartedIsFirm ==
  ASSUME TypeOK, FiniteInv, NEW j \in Jobs, StartNode(j), NEW n, n = job[j].next
  PROVE  Firm(n)'
<1>1. JobTypes
  BY TypeParts
<1>2. PICK x : x.node = n /\ x.id = FreshId /\ x \in live' \cup crons'
  BY <1>1, StartChanges
<1>3. \A i \in Jobs : x \notin job[i].open
  BY <1>2, FreshIsNew DEF Known
<1>4. \A i \in Jobs : job'[i].at = "closing" => job'[i] = job[i]
  <2>1. Idle.at = "idle"
    BY DEF Idle
  <2>2. OthersStay(j) /\ job'[j].at # "closing"
    BY <1>1, <2>1, StartChanges
  <2> QED  BY <2>2 DEF OthersStay
<1>5. Safe(x)'
  BY <1>3, <1>4 DEF Safe
<1> QED  BY <1>2, <1>5 DEF Firm

LEMMA DownStart ==
  ASSUME ActivationInv, NEW j \in Jobs, StartNode(j)
  PROVE  DownInv'
<1>1. TypeOK /\ FiniteInv /\ JobTypes /\ wf \in Workflows
  BY TypeParts DEF ActivationInv, CountTypes
<1>0. PICK n : n = job[j].next
  OBVIOUS
<1>2. /\ OthersStay(j) /\ job[j].at = "starting" /\ UNCHANGED <<wf, crossed, row, refused>>
      /\ live \subseteq live' /\ crons \subseteq crons'
      /\ \/ /\ n + 1 \in Nodes
            /\ job'[j].at = "starting" /\ job'[j].next = n + 1 /\ job'[j].kind = job[j].kind
            /\ UNCHANGED <<queue, error>>
         \/ n + 1 \notin Nodes /\ job'[j].at = "idle"
  <2>1. Idle.at = "idle"
    BY DEF Idle
  <2> QED  BY <1>0, <1>1, <2>1, StartChanges
<1> SUFFICES ASSUME row.active, ~crossed
             PROVE  /\ (AllFirm \/ UserRepairs \/ TaskRepairs \/ RetryShown)'
                    /\ \A i \in Jobs : job'[i].at = "starting" /\ ~Intact(i)' => (AllFirm \/ UserRepairs)'
  BY <1>2 DEF DownInv
<1>3. n \in Nat /\ n \in Nodes /\ Nodes' = Nodes /\ Nodes = 1 .. wf.triggers + wf.polls
        /\ wf.triggers + wf.polls \in Nat
  BY <1>0, <1>1, <1>2, WorkflowFacts, JobFacts DEF Nodes
<1>4. Firm(n)'
  BY <1>0, <1>1, StartedIsFirm
<1>5. /\ \A m : Firm(m) => Firm(m)'
      /\ \A i \in Jobs \ {j} : job'[i] = job[i] /\ (Intact(i) => Intact(i)')
  BY <1>2, FirmStays DEF OthersStay
<1>6. /\ AllFirm \/ UserRepairs \/ TaskRepairs \/ RetryShown
      /\ \A i \in Jobs : job[i].at = "starting" /\ ~Intact(i) => AllFirm \/ UserRepairs
  BY DEF ActivationInv, DownInv
<1>7. AllFirm => AllFirm'
  BY <1>3, <1>5 DEF AllFirm
<1>8. CASE n + 1 \in Nodes
  <2>1. Intact(j) => Intact(j)'
    <3>1. job'[j].next - 1 = n
      BY <1>2, <1>3, <1>8
    <3>2. ASSUME Intact(j), NEW m \in 1 .. n
          PROVE  Firm(m)'
      <4>1. m = n \/ m \in 1 .. n - 1
        BY <1>3
      <4> QED  BY <1>0, <1>4, <1>5, <3>2, <4>1 DEF Intact
    <3> QED  BY <3>1, <3>2 DEF Intact
  <2>2. UserRepairs => UserRepairs'
    BY <1>2, <1>5, <1>8, <2>1 DEF UserRepairs, Jobs
  <2>3. TaskRepairs => TaskRepairs'
    BY <1>2, <1>5, <1>8, <2>1 DEF TaskRepairs, Jobs
  <2>4. RetryShown => RetryShown'
    BY <1>2, <1>8 DEF RetryShown
  <2> QED  BY <1>2, <1>5, <1>6, <1>7, <2>1, <2>2, <2>3, <2>4
<1>9. CASE n + 1 \notin Nodes
  <2>1. CASE Intact(j)
    <3> SUFFICES ASSUME NEW m \in Nodes PROVE Firm(m)'
      BY <1>3 DEF AllFirm
    <3>1. m = n \/ m \in 1 .. n - 1
      BY <1>3, <1>9
    <3> QED  BY <1>0, <1>4, <1>5, <2>1, <3>1 DEF Intact
  <2>2. CASE ~Intact(j)
    <3>1. UserRepairs => UserRepairs'
      BY <1>2, <1>5, <2>2 DEF UserRepairs, Jobs
    <3> QED  BY <1>2, <1>6, <1>7, <2>2, <3>1
  <2> QED  BY <2>1, <2>2
<1> QED  BY <1>8, <1>9

(* Timers of retries are told from their absence. *)
LEMMA TimerFacts ==
  ASSUME wf \in Workflows
  PROVE  /\ \A v \in Versions : Retry(v) # None /\ Retry(v) \in Timers /\ Retry(v).armed /\ Retry(v).version = v
         /\ \A q \in Timers : [q EXCEPT !.armed = FALSE] # None
<1>1. \A v \in Versions : Retry(v) \in Timers /\ Retry(v).armed /\ Retry(v).version = v
  BY DEF Retry, Timers
<1>2. \A q \in Timers : [q EXCEPT !.armed = FALSE] \in Timers
  BY DEF Timers
<1> QED  BY <1>1, <1>2, WorkflowFacts

(* An activation of which no node is started yet is intact. *)
LEMMA FreshIsIntact ==
  ASSUME NEW j, job'[j].next = 1
  PROVE  Intact(j)'
BY DEF Intact

LEMMA DownUpdate ==
  ASSUME ActivationInv, NEW u \in Users, Update(u)
  PROVE  DownInv'
<1>1. JobTypes /\ u \in Jobs
  BY TypeParts DEF ActivationInv, Jobs
<1>2. CASE Remove(u)
  <2>1. job'[u].at \in {"closing", "writing"}
    <3>1. CASE ~entry.there
      BY <1>1, <1>2, <3>1, StepChanges DEF Remove
    <3>2. CASE entry.there
      BY <1>1, <1>2, <3>2 DEF Remove, JobTypes, JobRecords
    <3> QED  BY <3>1, <3>2
  <2> QED  BY <2>1, UserGoesOn
<1>3. CASE Write(u)
  BY <1>1, <1>3, StepChanges, UserGoesOn DEF Write
<1>4. CASE Decide(u)
  <2>1. CASE row.active
    BY <1>1, <1>4, <2>1, StepChanges, UserGoesOn DEF Decide
  <2>2. CASE ~row.active
    BY <1>4, <2>2 DEF Decide, DownInv
  <2> QED  BY <2>1, <2>2
<1>5. CASE Load(u)
  <2>1. job'[u].at = "starting" /\ job'[u].next = 1
    BY <1>1, <1>5 DEF Load, JobTypes, Starting, Idle
  <2>2. UserRepairs'
    BY <2>1, FreshIsIntact DEF UserRepairs
  <2> QED  BY <2>2 DEF DownInv
<1>6. CASE Revert(u)
  <2>1. ~row'.active
    BY <1>6, TypeParts DEF Revert, ActivationInv, CountTypes
  <2> QED  BY <2>1 DEF DownInv
<1> QED  BY <1>2, <1>3, <1>4, <1>5, <1>6 DEF Update

LEMMA DownClose ==
  ASSUME ActivationInv, NEW t \in Tasks, CloseEnds(t)
  PROVE  DownInv'
<1>1. JobTypes /\ t \in Jobs /\ t \notin Users /\ wf \in Workflows
  BY TypeParts, WorkflowFacts DEF ActivationInv, CountTypes, Jobs
<1>2. OthersStay(t) /\ job[t].at = "closing" /\ job'[t].at = "idle"
  BY <1>1, CloseChanges
<1>3. UNCHANGED <<wf, row, crossed, queue, error, refused>> /\ Nodes' = Nodes
  BY DEF CloseEnds, Nodes
<1>4. \A x \in live \cup crons : Safe(x) => x \in live' \cup crons'
  BY <1>1, <1>2 DEF Safe, CloseEnds
<1>5. /\ \A n : Firm(n) => Firm(n)'
      /\ \A i \in Jobs \ {t} : job'[i] = job[i] /\ (Intact(i) => Intact(i)')
  BY <1>1, <1>2, <1>4, FirmStays DEF OthersStay
<1>6. AllFirm => AllFirm'
  BY <1>3, <1>5 DEF AllFirm
<1>7. UserRepairs => UserRepairs'
  BY <1>1, <1>5 DEF UserRepairs, Jobs
<1>8. TaskRepairs => TaskRepairs'
  BY <1>2, <1>3, <1>5 DEF TaskRepairs, Jobs
<1>9. RetryShown => RetryShown'
  BY <1>3 DEF RetryShown
<1> QED  BY <1>2, <1>3, <1>5, <1>6, <1>7, <1>8, <1>9 DEF DownInv, ActivationInv

LEMMA DownFail ==
  ASSUME ActivationInv, NEW j \in Jobs, StartFails(j)
  PROVE  DownInv'
<1>1. JobTypes /\ QueueTypes /\ wf \in Workflows /\ KindInv
  BY TypeParts DEF ActivationInv, CountTypes
<1>2. CASE j \in Users /\ job'[j].at = "reverting"
  BY <1>2, UserGoesOn
<1>3. CASE job[j].kind \in {"boot", "retry"} /\ job'[j] = Idle
  <2>1. OthersStay(j) /\ job[j].at = "starting" /\ job'[j].at = "idle" /\ j \notin Users
    BY <1>1, <1>3, FailChanges DEF Idle, KindInv
  <2>2. UNCHANGED <<wf, row, crossed, live, crons>> /\ error' = TRUE /\ Nodes' = Nodes
    BY DEF StartFails, Nodes
  <2>3. /\ \A n : Firm(n) => Firm(n)'
        /\ \A i \in Jobs \ {j} : job'[i] = job[i] /\ (Intact(i) => Intact(i)')
    BY <2>1, <2>2, FirmStays DEF OthersStay
  <2>4. AllFirm => AllFirm'
    BY <2>2, <2>3 DEF AllFirm
  <2>5. UserRepairs => UserRepairs'
    BY <2>1, <2>3 DEF UserRepairs, Jobs
  <2>6. RetryShown' \/ (job[j].kind = "retry" /\ queue = None /\ UNCHANGED <<queue, refused>>)
    <3>1. job[j].version \in Versions
      BY <1>1, JobFacts
    <3>2. Retry(job[j].version) # None /\ Retry(job[j].version).armed
      BY <1>1, <3>1, TimerFacts
    <3>3. \/ queue' = Retry(job[j].version) \/ refused'
          \/ job[j].kind = "retry" /\ queue = None /\ UNCHANGED <<queue, refused>>
      BY <2>1 DEF StartFails, RetryAgain
    <3> QED  BY <2>2, <3>2, <3>3 DEF RetryShown
  <2>7. RetryShown' \/ (TaskRepairs => TaskRepairs')
    BY <2>3, <2>6 DEF TaskRepairs, Jobs
  <2>8. RetryShown' \/ ~RetryShown \/ UNCHANGED queue
    BY <2>6
  <2>9. RetryShown => RetryShown'
    BY <2>2, <2>6 DEF RetryShown
  <2> QED  BY <2>1, <2>2, <2>3, <2>4, <2>5, <2>7, <2>9 DEF DownInv, ActivationInv
<1> QED  BY <1>1, <1>2, <1>3, FailChanges

LEMMA DownFire ==
  ASSUME ActivationInv, Fire
  PROVE  DownInv'
<1>1. JobTypes /\ QueueTypes /\ wf \in Workflows
  BY TypeParts DEF ActivationInv, CountTypes
<1>0. PICK f : f = FreeTask
  OBVIOUS
<1>2. /\ f \in Tasks /\ f \in Jobs /\ OthersStay(f) /\ job[f].at = "idle" /\ f \notin Users
      /\ job'[f].at = "starting" /\ job'[f].kind = "retry" /\ job'[f].next = 1
      /\ (queue # None /\ queue.armed /\ queue' = [queue EXCEPT !.armed = FALSE]) \/ UNCHANGED queue
  <2>1. \A v : LET r == Starting("retry", v) IN r.at = "starting" /\ r.kind = "retry" /\ r.next = 1
    BY DEF Starting, Idle
  <2> QED  BY <1>0, <1>1, <2>1, FireChanges, WorkflowFacts DEF Jobs
<1>3. UNCHANGED <<wf, row, crossed, live, crons, error, refused>> /\ Nodes' = Nodes
  BY DEF Fire, Nodes
<1>4. /\ \A n : Firm(n) => Firm(n)'
      /\ \A i \in Jobs \ {f} : job'[i] = job[i] /\ (Intact(i) => Intact(i)')
  BY <1>2, <1>3, FirmStays DEF OthersStay
<1>5. Intact(f)'
  BY <1>2, FreshIsIntact
<1>6. AllFirm => AllFirm'
  BY <1>3, <1>4 DEF AllFirm
<1>7. UserRepairs => UserRepairs'
  BY <1>2, <1>4 DEF UserRepairs, Jobs
<1>8. TaskRepairs' \/ UNCHANGED queue
  <2>1. queue # None /\ queue' = [queue EXCEPT !.armed = FALSE] => queue' # None
    BY <1>1, TimerFacts DEF QueueTypes
  <2> QED  BY <1>2, <1>5, <2>1 DEF TaskRepairs
<1>9. TaskRepairs => TaskRepairs'
  BY <1>2, <1>4, <1>8 DEF TaskRepairs, Jobs
<1>10. RetryShown => RetryShown' \/ TaskRepairs'
  BY <1>3, <1>8 DEF RetryShown
<1> QED  BY <1>3, <1>4, <1>5, <1>6, <1>7, <1>9, <1>10 DEF DownInv, ActivationInv

LEMMA DownTriggerFails ==
  ASSUME ActivationInv, TriggerFails
  PROVE  DownInv'
<1>1. JobTypes /\ wf \in Workflows /\ MemoryTypes /\ FlagTypes
  BY TypeParts DEF ActivationInv, CountTypes
<1>2. PICK x \in live : queue' = Retry(x.version)
  BY <1>1, FailureChanges
<1>3. x.version \in Versions
  BY <1>1 DEF MemoryTypes, Instances
<1>4. RetryShown'
  BY <1>1, <1>2, <1>3, TimerFacts DEF RetryShown, TriggerFails
<1>5. ASSUME ~crossed', NEW i \in Jobs, job'[i].at = "starting"
      PROVE  Intact(i)'
  <2>1. ~UnderWay
    BY <1>1, <1>5, Zenon DEF TriggerFails, FlagTypes
  <2>2. job'[i] = job[i]
    BY <1>1, <1>5, FailureChanges DEF OthersStay, Idle
  <2>3. job[i].next \in Nat \ {0}
    BY <1>1, JobFacts DEF Nodes
  <2>4. job'[i].next = 1
    BY <1>5, <2>1, <2>2, <2>3 DEF UnderWay
  <2> QED  BY <2>4, FreshIsIntact
<1> QED  BY <1>4, <1>5 DEF DownInv

LEMMA DownStep ==
  ASSUME ActivationInv, [Next]_vars
  PROVE  DownInv'
<1>1. ASSUME NEW u \in Users, NEW want \in {"save", "activate", "deactivate"}, Read(u, want)
      PROVE  DownInv'
  <2>1. JobTypes /\ u \in Jobs
    BY TypeParts DEF ActivationInv, Jobs
  <2>2. job'[u].at \in {"removing", "writing"}
    BY <1>1, <2>1 DEF Read, JobTypes, Idle
  <2> QED  BY <2>2, UserGoesOn
<1>2. ASSUME NEW j \in Jobs, CloseEnds(j)
      PROVE  DownInv'
  <2>1. CASE j \in Users
    BY <1>2, <2>1, CloseChanges, UserGoesOn, TypeParts DEF ActivationInv
  <2>2. CASE j \in Tasks
    BY <1>2, <2>2, DownClose
  <2> QED  BY <2>1, <2>2 DEF Jobs
<1>3. CASE UNCHANGED vars
  <2>1. /\ \A n : Firm(n)' = Firm(n)
        /\ \A i : Intact(i)' = Intact(i)
        /\ Nodes' = Nodes
    BY <1>3 DEF vars, Firm, Safe, Intact, Nodes
  <2>2. /\ AllFirm' = AllFirm /\ UserRepairs' = UserRepairs
        /\ TaskRepairs' = TaskRepairs /\ RetryShown' = RetryShown
    BY <1>3, <2>1 DEF vars, AllFirm, UserRepairs, TaskRepairs, RetryShown
  <2> QED  BY <1>3, <2>1, <2>2 DEF vars, DownInv, ActivationInv
<1> QED  BY <1>1, <1>2, <1>3, DownUpdate, DownStart, DownFail, DownFire, DownTriggerFails DEF Next

-----------------------------------------------------------------------------
(* One thing after the other *)

(* One job is in progress, or none is and the workflow is at rest. *)
LEMMA OneJob ==
  ASSUME NEW j \in Jobs, \A i \in Jobs \ {j} : job'[i].at = "idle",
         \A v \in Versions' : lost'[v] = 0,
         queue' # None => row'.active /\ queue'.version = row'.version,
         job'[j].at # "idle" => StageInv(j)',
         job'[j].at = "idle" => Rest'
  PROVE  CleanInv'
<1>1. \A i \in Jobs : StageInv(i)'
  <2>1. \A i \in Jobs : job'[i].at = "idle" => StageInv(i)'
    BY DEF StageInv
  <2> QED  BY <2>1
<1>2. ~Busy' => Rest'
  BY DEF Busy
<1>3. \A i, k \in Jobs : job'[i].at # "idle" /\ job'[k].at # "idle" => i = k
  OBVIOUS
<1> QED  BY <1>1, <1>2, <1>3 DEF CleanInv

LEMMA CleanFacts ==
  ASSUME CleanInv, clean, NEW j \in Jobs, job[j].at # "idle", OthersStay(j)
  PROVE  /\ \A i \in Jobs \ {j} : job'[i].at = "idle"
         /\ \A v \in Versions : lost[v] = 0
         /\ queue # None => row.active /\ queue.version = row.version
         /\ StageInv(j)
<1>1. \A i \in Jobs : job[i].at # "idle" => i = j
  BY DEF CleanInv
<1>2. \A i \in Jobs \ {j} : job'[i].at = "idle"
  BY <1>1 DEF OthersStay
<1> QED  BY <1>2 DEF CleanInv

(* Before the first node is started nothing runs. *)
LEMMA UpNothing ==
  ASSUME wf \in Workflows
  PROVE  Up(0) => live = {} /\ crons = {} /\ entry = IF wf.triggers = 0 THEN EntryOf({}) ELSE NoEntry
<1> SUFFICES ASSUME Up(0)
             PROVE  live = {} /\ crons = {} /\ entry = IF wf.triggers = 0 THEN EntryOf({}) ELSE NoEntry
  OBVIOUS
<1>1. wf.triggers \in Nat /\ \A n \in Nodes : ~(n <= 0)
  BY WorkflowFacts DEF Nodes
<1>2. \A x \in live : x.node \in {n \in 1 .. wf.triggers : n <= 0}
  BY DEF Up, RunsOnce
<1>3. \A x \in crons : x.node \in {n \in Nodes \ (1 .. wf.triggers) : n <= 0}
  BY DEF Up, RunsOnce
<1>4. live = {} /\ crons = {}
  BY <1>1, <1>2, <1>3
<1>5. entry = IF wf.triggers <= 0 THEN EntryOf(live) ELSE NoEntry
  BY DEF Up
<1> QED  BY <1>1, <1>4, <1>5

LEMMA NothingUp ==
  ASSUME wf \in Workflows, wf' = wf, live' = {}, crons' = {},
         entry' = IF wf.triggers = 0 THEN EntryOf({}) ELSE NoEntry
  PROVE  Up(0)'
<1>1. wf.triggers \in Nat
  BY WorkflowFacts
<1>2. RunsOnce(live, {n \in 1 .. wf.triggers : n <= 0})'
  BY <1>1 DEF RunsOnce
<1>3. RunsOnce(crons, {n \in Nodes \ (1 .. wf.triggers) : n <= 0})'
  BY <1>1, WorkflowFacts DEF RunsOnce, Nodes
<1> QED  BY <1>1, <1>2, <1>3 DEF Up

LEMMA UpSoFar ==
  ASSUME NEW j, NEW k, job'[j].next - 1 = k, Up(k)'
  PROVE  Up(job[j].next - 1)'
BY DEF Up, RunsOnce

(* Another node runs. *)
LEMMA RunsAnother ==
  ASSUME NEW S, NEW N, RunsOnce(S, N), NEW n, n \notin N,
         NEW x, x.node = n, x.version = row.version
  PROVE  RunsOnce(S \cup {x}, N \cup {n})
<1> DEFINE At(T, m) == {y \in T : y.node = m}
<1>1. \A y \in S : y.node \in N /\ y.version = row.version
  BY DEF RunsOnce
<1>2. At(S \cup {x}, n) = {x}
  BY <1>1
<1>3. ASSUME NEW m \in N
      PROVE  At(S \cup {x}, m) = At(S, m)
  BY <1>3
<1>4. \A m \in N \cup {n} : Cardinality(At(S \cup {x}, m)) = 1
  <2>1. Cardinality({x}) = 1
    BY FS_Singleton
  <2>2. \A m \in N : Cardinality(At(S, m)) = 1
    BY DEF RunsOnce
  <2> HIDE DEF At
  <2> QED  BY <1>2, <1>3, <2>1, <2>2
<1> QED  BY <1>1, <1>4 DEF RunsOnce

(* At rest with an entry, the whole workflow runs. *)
LEMMA RestFacts ==
  ASSUME wf \in Workflows, Rest
  PROVE  /\ ~entry.there => Empty
         /\ entry.there => queue = None /\ row.active /\ entry = EntryOf(live)
         /\ live # {} => entry.there
<1>1. wf.triggers <= wf.triggers + wf.polls
  BY WorkflowFacts
<1>2. ~NoEntry.there /\ EntryOf(live).there
  BY DEF NoEntry, EntryOf
<1> QED  BY <1>1, <1>2 DEF Rest, Empty, Up

LEMMA CleanRead ==
  ASSUME ActivationInv, NEW u \in Users, NEW want \in {"save", "activate", "deactivate"}, Read(u, want)
  PROVE  CleanInv'
<1> SUFFICES ASSUME clean' PROVE CleanInv'
  BY Zenon DEF CleanInv
<1>1. JobTypes /\ u \in Jobs /\ FlagTypes /\ CountTypes
  BY TypeParts DEF ActivationInv, Jobs
<1>2. clean /\ ~Busy
  BY <1>1, Zenon DEF Read, Begins, FlagTypes
<1>3. CleanInv /\ Rest
  BY <1>2 DEF ActivationInv, CleanInv
<1>4. UNCHANGED <<wf, row, entry, live, crons, queue, lost>> /\ Versions' = Versions
  BY DEF Read, Versions
<1>5. /\ \A i \in Jobs \ {u} : job'[i].at = "idle"
      /\ job'[u].at = IF row.active THEN "removing" ELSE "writing"
  BY <1>1, <1>2 DEF Read, JobTypes, Busy, Idle
<1>6. Rest' = Rest /\ Empty' = Empty
  BY <1>4 DEF Rest, Empty, Up, RunsOnce, Nodes
<1>7. ~row.active => Empty /\ queue = None
  BY <1>2, <1>3 DEF CleanInv, Rest
<1>8. StageInv(u)'
  BY <1>3, <1>4, <1>5, <1>6, <1>7 DEF StageInv
<1> QED  BY <1>1, <1>2, <1>3, <1>4, <1>5, <1>8, OneJob DEF CleanInv

LEMMA CleanUpdate ==
  ASSUME ActivationInv, NEW u \in Users, Update(u)
  PROVE  CleanInv'
<1> SUFFICES ASSUME clean' PROVE CleanInv'
  BY Zenon DEF CleanInv
<1>1. JobTypes /\ u \in Jobs /\ CountTypes /\ KindInv /\ wf \in Workflows
  BY TypeParts DEF ActivationInv, CountTypes, Jobs
<1>2. clean /\ UNCHANGED <<wf, lost>> /\ Versions' = Versions
  BY DEF Update, Remove, Write, Decide, Load, Revert, Versions
<1>3. OthersStay(u) /\ job[u].at # "idle"
  BY <1>1, UpdateChanges
<1>4. /\ \A i \in Jobs \ {u} : job'[i].at = "idle"
      /\ \A v \in Versions : lost[v] = 0
      /\ queue # None => row.active /\ queue.version = row.version
      /\ StageInv(u)
  BY <1>1, <1>2, <1>3, CleanFacts DEF ActivationInv
<1>5. CASE Remove(u)
  <2>1. Rest /\ queue' = None /\ UNCHANGED <<row, entry, live>>
    BY <1>4, <1>5 DEF StageInv, Remove
  <2>2. CASE ~entry.there
    <3>1. job'[u].at = "writing" /\ UNCHANGED crons
      BY <1>1, <1>5, <2>2, StepChanges DEF Remove
    <3>2. Empty'
      BY <1>1, <2>1, <2>2, <3>1, RestFacts DEF Empty
    <3> QED  BY <1>1, <1>2, <1>4, <2>1, <3>1, <3>2, OneJob DEF StageInv
  <2>3. CASE entry.there
    <3>1. job'[u].at = "closing" /\ job'[u].open = entry.triggers /\ crons' = {}
      BY <1>1, <1>5, <2>3 DEF Remove, JobTypes, JobRecords
    <3>2. entry.triggers = live
      BY <1>1, <2>1, <2>3, RestFacts DEF EntryOf
    <3> QED  BY <1>1, <1>2, <1>4, <2>1, <3>1, <3>2, OneJob DEF StageInv
  <2> QED  BY <2>2, <2>3
<1>6. CASE Write(u)
  <2>1. job'[u].at = "deciding" /\ UNCHANGED <<entry, live, crons, queue>>
    BY <1>1, <1>6, StepChanges DEF Write
  <2>2. Empty /\ queue = None
    BY <1>4, <1>6 DEF StageInv, Write
  <2> QED  BY <1>1, <1>2, <1>4, <2>1, <2>2, OneJob DEF StageInv, Empty
<1>7. CASE Decide(u)
  <2>1. job'[u].at = (IF row.active THEN "loading" ELSE "idle") /\ UNCHANGED <<row, entry, live, crons, queue>>
    BY <1>1, <1>7, StepChanges DEF Decide
  <2>2. Empty /\ queue = None
    BY <1>4, <1>7 DEF StageInv, Decide
  <2>3. Empty' /\ queue' = None
    BY <2>1, <2>2 DEF Empty
  <2> QED  BY <1>1, <1>2, <1>4, <2>1, <2>3, OneJob DEF StageInv, Rest
<1>8. CASE Load(u)
  <2>1. /\ job'[u].at = "starting" /\ job'[u].kind = job[u].kind /\ job'[u].version = row.version
        /\ job'[u].next = 1 /\ job'[u].open = {}
    BY <1>1, <1>8 DEF Load, JobTypes, Starting, Idle
  <2>2. Empty /\ queue = None /\ row.active
    BY <1>4, <1>8 DEF StageInv, Load
  <2>3. UNCHANGED <<row, live, crons, queue>> /\ entry' = Entered
    BY <1>8 DEF Load
  <2>4. Up(job[u].next - 1)'
    <3>1. Up(0)'
      BY <1>1, <1>2, <2>2, <2>3, NothingUp DEF Empty, Entered
    <3> QED  BY <2>1, <3>1, UpSoFar
  <2>5. job[u].kind # "retry"
    BY <1>1 DEF KindInv
  <2>6. StageInv(u)'
    BY <2>1, <2>2, <2>3, <2>4, <2>5 DEF StageInv, Empty
  <2> QED  BY <1>1, <1>2, <1>4, <2>1, <2>2, <2>3, <2>6, OneJob
<1>9. CASE Revert(u)
  <2>1. job'[u].at = "idle" /\ UNCHANGED <<entry, live, crons, queue>>
    BY <1>1, <1>9, StepChanges DEF Revert
  <2>2. Empty /\ queue = None
    BY <1>4, <1>9 DEF StageInv, Revert
  <2>3. Empty' /\ queue' = None
    BY <2>1, <2>2 DEF Empty
  <2> QED  BY <1>1, <1>2, <1>4, <2>1, <2>3, OneJob DEF Rest
<1> QED  BY <1>5, <1>6, <1>7, <1>8, <1>9 DEF Update

LEMMA CleanClose ==
  ASSUME ActivationInv, NEW j \in Jobs, CloseEnds(j)
  PROVE  CleanInv'
<1> SUFFICES ASSUME clean' PROVE CleanInv'
  BY Zenon DEF CleanInv
<1>1. JobTypes /\ wf \in Workflows
  BY TypeParts DEF ActivationInv, CountTypes
<1>2. clean /\ UNCHANGED <<row, crons, queue, lost>> /\ Versions' = Versions
  BY DEF CloseEnds, Versions
<1>3. /\ OthersStay(j) /\ job[j].at = "closing"
      /\ job'[j].at = IF j \in Users THEN "writing" ELSE "idle"
  BY <1>1, CloseChanges
<1>4. /\ \A i \in Jobs \ {j} : job'[i].at = "idle"
      /\ \A v \in Versions : lost[v] = 0
      /\ queue # None => row.active /\ queue.version = row.version
      /\ StageInv(j)
  BY <1>1, <1>2, <1>3, CleanFacts DEF ActivationInv
<1>5. /\ live \subseteq job[j].open /\ crons = {}
      /\ IF j \in Users THEN queue = None ELSE queue # None => queue.armed
  BY <1>3, <1>4 DEF StageInv
<1>6. Empty'
  BY <1>2, <1>5 DEF CloseEnds, Empty
<1>7. StageInv(j)' \/ job'[j].at = "idle"
  BY <1>2, <1>3, <1>5, <1>6 DEF StageInv
<1>8. job'[j].at = "idle" => Rest'
  BY <1>2, <1>3, <1>5, <1>6 DEF Rest
<1> QED  BY <1>2, <1>4, <1>7, <1>8, OneJob

LEMMA CleanStart ==
  ASSUME ActivationInv, NEW j \in Jobs, StartNode(j)
  PROVE  CleanInv'
<1> SUFFICES ASSUME clean' PROVE CleanInv'
  BY Zenon DEF CleanInv
<1>1. JobTypes /\ wf \in Workflows
  BY TypeParts DEF ActivationInv, CountTypes
<1>2. PICK n, x, mine :
           /\ n = job[j].next /\ x = [node |-> n, version |-> job[j].version, id |-> FreshId]
           /\ OthersStay(j) /\ job[j].at = "starting"
           /\ \/ /\ n + 1 \in Nodes
                 /\ job'[j].at = "starting" /\ job'[j].kind = job[j].kind
                 /\ job'[j].next = n + 1 /\ job'[j].version = job[j].version
                 /\ job'[j].open = mine /\ UNCHANGED <<queue, error>>
              \/ n + 1 \notin Nodes /\ job'[j] = Idle /\ queue' = None /\ error' = FALSE
           /\ \/ /\ n <= wf.triggers /\ mine = job[j].open \cup {x}
                 /\ live' = live \cup {x} /\ UNCHANGED crons
              \/ /\ ~(n <= wf.triggers) /\ mine = job[j].open
                 /\ crons' = crons \cup {x} /\ UNCHANGED live
           /\ entry' = IF n = wf.triggers THEN EntryOf(mine) ELSE entry
           /\ UNCHANGED <<wf, crossed, row, lost, refused, clean, failures, calls>>
  BY <1>1, StartChanges
<1>3. /\ \A i \in Jobs \ {j} : job'[i].at = "idle"
      /\ \A v \in Versions : lost[v] = 0
      /\ queue # None => row.active /\ queue.version = row.version
      /\ StageInv(j)
  BY <1>1, <1>2, CleanFacts DEF ActivationInv
<1>4. /\ row.active /\ job[j].version = row.version /\ job[j].open = live
      /\ IF job[j].kind = "retry" THEN queue # None /\ ~queue.armed ELSE queue = None
  BY <1>2, <1>3 DEF StageInv
<1>5. PICK N, M, P, Q :
        /\ N = {m \in 1 .. wf.triggers : m <= n - 1}
        /\ M = {m \in 1 .. wf.triggers : m <= n}
        /\ P = {m \in Nodes \ (1 .. wf.triggers) : m <= n - 1}
        /\ Q = {m \in Nodes \ (1 .. wf.triggers) : m <= n}
  OBVIOUS
<1>6. RunsOnce(live, N) /\ RunsOnce(crons, P) /\ entry = IF wf.triggers <= n - 1 THEN EntryOf(live) ELSE NoEntry
  BY <1>2, <1>3, <1>5 DEF StageInv, Up
<1>7. /\ n \in Nat \ {0} /\ n <= wf.triggers + wf.polls /\ Nodes = 1 .. wf.triggers + wf.polls
      /\ wf.triggers \in Nat /\ wf.polls \in Nat /\ Nodes' = Nodes /\ Versions' = Versions
  BY <1>1, <1>2, JobFacts, WorkflowFacts DEF Nodes, Versions
<1>8. x.node = n /\ x.version = row.version
  BY <1>2, <1>4
<1>9. RunsOnce(live', M) /\ RunsOnce(crons', Q) /\ mine = live'
  <2>1. CASE n <= wf.triggers
    <3>1. M = N \cup {n} /\ n \notin N /\ Q = P
      BY <1>5, <1>7, <2>1
    <3>2. live' = live \cup {x} /\ crons' = crons /\ mine = live'
      BY <1>2, <1>4, <2>1
    <3>3. RunsOnce(live \cup {x}, N \cup {n})
      BY <1>6, <1>8, <3>1, RunsAnother
    <3> QED  BY <1>6, <3>1, <3>2, <3>3
  <2>2. CASE ~(n <= wf.triggers)
    <3>1. Q = P \cup {n} /\ n \notin P /\ M = N
      BY <1>5, <1>7, <2>2
    <3>2. crons' = crons \cup {x} /\ live' = live /\ mine = live'
      BY <1>2, <1>4, <2>2
    <3>3. RunsOnce(crons \cup {x}, P \cup {n})
      BY <1>6, <1>8, <3>1, RunsAnother
    <3> QED  BY <1>6, <3>1, <3>2, <3>3
  <2> QED  BY <2>1, <2>2
<1>10. Up(n)'
  <2>1. RunsOnce(live, {m \in 1 .. wf.triggers : m <= n})'
    BY <1>2, <1>5, <1>9 DEF RunsOnce
  <2>2. RunsOnce(crons, {m \in Nodes \ (1 .. wf.triggers) : m <= n})'
    BY <1>2, <1>5, <1>7, <1>9 DEF RunsOnce
  <2>3. entry' = IF wf'.triggers <= n THEN EntryOf(live') ELSE NoEntry
    BY <1>2, <1>6, <1>7, <1>9
  <2> QED  BY <2>1, <2>2, <2>3 DEF Up
<1>11. CASE n + 1 \in Nodes
  <2>1. Up(job[j].next - 1)'
    <3>1. job'[j].next - 1 = n
      BY <1>2, <1>7, <1>11
    <3> QED  BY <1>10, <3>1, UpSoFar
  <2>2. StageInv(j)'
    BY <1>2, <1>4, <1>9, <1>11, <2>1 DEF StageInv
  <2> QED  BY <1>2, <1>3, <1>7, <1>11, <2>2, OneJob
<1>12. CASE n + 1 \notin Nodes
  <2>1. n = wf.triggers + wf.polls /\ job'[j].at = "idle" /\ queue' = None
    BY <1>2, <1>7, <1>12 DEF Idle
  <2>2. Up(wf.triggers + wf.polls)'
    BY <1>2, <1>10, <2>1 DEF Up, RunsOnce
  <2>3. Rest'
    BY <1>2, <1>4, <2>1, <2>2 DEF Rest
  <2> QED  BY <1>2, <1>3, <1>7, <2>1, <2>3, OneJob
<1> QED  BY <1>11, <1>12

LEMMA CleanFail ==
  ASSUME ActivationInv, NEW j \in Jobs, StartFails(j)
  PROVE  CleanInv'
<1> SUFFICES ASSUME clean' PROVE CleanInv'
  BY Zenon DEF CleanInv
<1>1. JobTypes /\ QueueTypes /\ FlagTypes /\ KindInv /\ wf \in Workflows
  BY TypeParts DEF ActivationInv, CountTypes
<1>2. clean /\ job[j].next = 1
  BY <1>1, Zenon DEF StartFails, FlagTypes
<1>3. OthersStay(j) /\ job[j].at = "starting"
  BY <1>1, FailChanges
<1>4. /\ \A i \in Jobs \ {j} : job'[i].at = "idle"
      /\ \A v \in Versions : lost[v] = 0
      /\ queue # None => row.active /\ queue.version = row.version
      /\ StageInv(j)
  BY <1>1, <1>2, <1>3, CleanFacts DEF ActivationInv
<1>5. /\ row.active /\ job[j].version = row.version
      /\ IF job[j].kind = "retry" THEN queue # None /\ ~queue.armed ELSE queue = None
  BY <1>3, <1>4 DEF StageInv
<1>6. UNCHANGED <<row, live, crons>> /\ Versions' = Versions
  BY DEF StartFails, Versions
<1>7. Empty'
  <2>1. Up(0)
    <3>1. job[j].next - 1 = 0
      BY <1>2
    <3> QED  BY <1>3, <1>4, <3>1 DEF StageInv, Up
  <2> QED  BY <1>1, <1>6, <2>1, UpNothing DEF Empty, StartFails
<1>8. job[j].version \in Versions
  BY <1>1, JobFacts
<1>9. \/ j \in Users /\ job'[j].at = "reverting" /\ UNCHANGED <<queue, lost>>
      \/ /\ job'[j].at = "idle" /\ UNCHANGED lost
         /\ queue' = Retry(row.version) \/ (queue = None /\ queue' = None)
  <2>1. CASE j \in Users /\ Step(j, "reverting") /\ UNCHANGED <<queue, lost>>
    BY <1>1, <2>1, StepChanges
  <2>2. CASE job[j].kind \in {"boot", "retry"} /\ job' = [job EXCEPT ![j] = Idle]
    <3>1. job'[j].at = "idle"
      BY <1>1, <2>2 DEF JobTypes, Idle
    <3>2. job[j].kind # "retry" => UNCHANGED lost /\ (queue' = Retry(row.version) \/ UNCHANGED queue)
      BY <1>3, <1>5, <2>2, <3>1, Zenon DEF StartFails, Step
    <3>3. job[j].kind = "retry" => UNCHANGED lost /\ queue' = Retry(row.version)
      <4>1. j \notin Users
        BY <1>1, <2>2 DEF KindInv
      <4> QED  BY <1>5, <4>1 DEF StartFails, RetryAgain
    <3> QED  BY <1>5, <3>1, <3>2, <3>3
  <2> QED  BY <2>1, <2>2 DEF StartFails
<1>10. Retry(row.version) # None /\ Retry(row.version).armed /\ Retry(row.version).version = row.version
  BY <1>1, <1>5, <1>8, TimerFacts
<1>11. job'[j].at # "idle" => StageInv(j)'
  <2>1. j \in Users => job[j].kind # "retry"
    BY <1>1 DEF KindInv
  <2> QED  BY <1>5, <1>7, <1>9, <2>1 DEF StageInv
<1>12. job'[j].at = "idle" => Rest'
  BY <1>7, <1>9, <1>10 DEF Rest
<1> QED  BY <1>4, <1>5, <1>6, <1>9, <1>10, <1>11, <1>12, OneJob

LEMMA CleanFire ==
  ASSUME ActivationInv, Fire
  PROVE  CleanInv'
<1> SUFFICES ASSUME clean' PROVE CleanInv'
  BY Zenon DEF CleanInv
<1>1. JobTypes /\ QueueTypes /\ FlagTypes /\ wf \in Workflows
  BY TypeParts DEF ActivationInv, CountTypes
<1>2. clean /\ ~Busy
  BY <1>1, Zenon DEF Fire, Begins, FlagTypes
<1>3. CleanInv /\ Rest
  BY <1>2 DEF ActivationInv, CleanInv
<1>4. UNCHANGED <<wf, row, live, crons>> /\ Versions' = Versions /\ entry' = Entered
  BY DEF Fire, Versions
<1>5. PICK f, v : f = FreeTask /\ v \in Versions /\
           /\ f \in Tasks /\ OthersStay(f) /\ job[f].at = "idle"
           /\ job'[f] = Starting("retry", v)
           /\ \/ /\ queue # None /\ queue.armed /\ queue' = [queue EXCEPT !.armed = FALSE]
                 /\ v = queue.version /\ UNCHANGED lost
              \/ lost[v] > 0 /\ UNCHANGED queue
  BY <1>1, FireChanges
<1>6. \A w \in Versions : lost[w] = 0
  BY <1>2, <1>3 DEF CleanInv
<1>7. /\ queue # None /\ queue.armed /\ queue' = [queue EXCEPT !.armed = FALSE]
      /\ v = queue.version /\ UNCHANGED lost
  <2>1. ~(lost[v] > 0)
    BY <1>5, <1>6
  <2> QED  BY <1>5, <2>1
<1>8. Empty /\ row.active /\ v = row.version
  BY <1>2, <1>3, <1>7 DEF CleanInv, Rest
<1>9. queue' # None /\ ~queue'.armed /\ queue'.version = row.version
  <2>1. queue \in Timers
    BY <1>1, <1>7 DEF QueueTypes
  <2>2. queue' # None
    BY <1>1, <1>7, <2>1, TimerFacts
  <2>3. ~queue'.armed /\ queue'.version = queue.version
    BY <1>7, <2>1 DEF Timers
  <2> QED  BY <1>7, <1>8, <2>2, <2>3
<1>10. /\ job'[f].at = "starting" /\ job'[f].kind = "retry" /\ job'[f].version = v
       /\ job'[f].next = 1 /\ job'[f].open = {}
  BY <1>5 DEF Starting, Idle
<1>11. Up(job[f].next - 1)'
  <2>1. Up(0)'
    BY <1>1, <1>4, <1>8, NothingUp DEF Empty, Entered
  <2>2. job'[f].next - 1 = 0
    BY <1>10
  <2> QED  BY <2>1, <2>2, UpSoFar
<1>12. StageInv(f)'
  BY <1>4, <1>8, <1>9, <1>10, <1>11 DEF StageInv, Empty
<1>13. f \in Jobs /\ \A i \in Jobs \ {f} : job'[i].at = "idle"
  BY <1>2, <1>5 DEF Jobs, Busy, OthersStay
<1> QED  BY <1>4, <1>6, <1>7, <1>8, <1>9, <1>10, <1>12, <1>13, OneJob

LEMMA CleanTriggerFails ==
  ASSUME ActivationInv, TriggerFails
  PROVE  CleanInv'
<1> SUFFICES ASSUME clean' PROVE CleanInv'
  BY Zenon DEF CleanInv
<1>1. JobTypes /\ FlagTypes /\ MemoryTypes /\ wf \in Workflows
  BY TypeParts DEF ActivationInv, CountTypes
<1>2. clean /\ ~Busy
  BY <1>1, Zenon DEF TriggerFails, Begins, FlagTypes
<1>3. CleanInv /\ Rest
  BY <1>2 DEF ActivationInv, CleanInv
<1>4. UNCHANGED <<wf, row, entry, lost>> /\ Versions' = Versions
  BY DEF TriggerFails, Versions
<1>5. PICK f, x : f = FreeTask /\ x \in live /\ live' = live \ {x} /\ queue' = Retry(x.version)
  BY <1>1, FailureChanges
<1>6. row.active /\ entry = EntryOf(live) /\ entry.there
  BY <1>1, <1>3, <1>5, RestFacts
<1>7. /\ f \in Jobs /\ f \notin Users /\ OthersStay(f) /\ crons' = {}
      /\ job'[f].at = "closing" /\ job'[f].open = live
  BY <1>1, <1>5, <1>6, FailureChanges, WorkflowFacts DEF Jobs, EntryOf, Idle
<1>8. x.version = row.version
  <2>1. Up(wf.triggers + wf.polls)
    BY <1>3, <1>5 DEF Rest, Empty
  <2> QED  BY <1>5, <2>1 DEF Up, RunsOnce
<1>9. x.version \in Versions
  BY <1>1, <1>5 DEF MemoryTypes, Instances
<1>10. queue'.armed /\ queue'.version = row.version
  BY <1>1, <1>5, <1>8, <1>9, TimerFacts
<1>11. StageInv(f)'
  BY <1>5, <1>7, <1>10 DEF StageInv
<1>12. \A i \in Jobs \ {f} : job'[i].at = "idle"
  BY <1>2, <1>7 DEF Busy, OthersStay
<1>13. \A v \in Versions : lost[v] = 0
  BY <1>2, <1>3 DEF CleanInv
<1> QED  BY <1>4, <1>6, <1>7, <1>10, <1>11, <1>12, <1>13, OneJob

LEMMA CleanStep ==
  ASSUME ActivationInv, [Next]_vars
  PROVE  CleanInv'
<1>1. CASE UNCHANGED vars
  <2>1. Rest' = Rest /\ Busy' = Busy /\ \A j : StageInv(j)' = StageInv(j)
    BY <1>1 DEF vars, Rest, Busy, StageInv, Empty, Up, RunsOnce, Nodes
  <2> QED  BY <1>1, <2>1 DEF vars, CleanInv, ActivationInv, Versions
<1> QED  BY <1>1, CleanRead, CleanUpdate, CleanClose, CleanStart, CleanFail, CleanFire,
            CleanTriggerFails DEF Next

-----------------------------------------------------------------------------
(* Theorems *)

LEMMA ActivationStep == ActivationInv /\ [Next]_vars => ActivationInv'
BY ActivationTypes, ActivationKinds, DownStep, CleanStep DEF ActivationInv

THEOREM ActivationInvariant == Spec => []ActivationInv
BY ActivationInit, ActivationStep, PTL DEF Spec

(* Every variable of the activation keeps its type, whatever interleaves.   *)
THEOREM ActivationTypeCorrect == Spec => []TypeOK
<1>1. ActivationInv => TypeOK
  BY DEF ActivationInv
<1> QED  BY <1>1, ActivationInvariant, PTL

(* What is firm runs. *)
LEMMA FirmRuns == AllFirm => Running
BY DEF AllFirm, Firm, Running

(* An active workflow is up, is being brought up, or will be tried again by *)
(* the process, unless the boot gave it up or a trigger failed during an    *)
(* activation: add, emitError and addQueuedWorkflowActivation, and the      *)
(* removals of updates, in whatever order.                                  *)
THEOREM ActivationDownIsRetried == Spec => []DownIsRetried
<1>1. ActivationInv => DownIsRetried
  <2> SUFFICES ASSUME ActivationInv, row.active, ~crossed
               PROVE  Running \/ Busy \/ RetryDue \/ refused
    BY DEF DownIsRetried
  <2>1. AllFirm \/ UserRepairs \/ TaskRepairs \/ RetryShown
    BY DEF ActivationInv, DownInv
  <2>2. UserRepairs \/ TaskRepairs => Busy
    BY DEF UserRepairs, TaskRepairs, Busy, Jobs
  <2> QED  BY <2>1, <2>2, FirmRuns DEF RetryShown, RetryDue
<1> QED  BY <1>1, ActivationInvariant, PTL

(* An active workflow that is down while nothing is in progress shows an    *)
(* activation error: no register, deregister or removal hides it.           *)
THEOREM ActivationDownIsShown == Spec => []DownIsShown
<1>1. ActivationInv => DownIsShown
  <2> SUFFICES ASSUME ActivationInv, row.active, ~crossed, ~Running, ~Busy
               PROVE  error
    BY DEF DownIsShown
  <2>1. AllFirm \/ UserRepairs \/ TaskRepairs \/ RetryShown
    BY DEF ActivationInv, DownInv
  <2>2. UserRepairs \/ TaskRepairs => Busy
    BY DEF UserRepairs, TaskRepairs, Busy, Jobs
  <2> QED  BY <2>1, <2>2, FirmRuns DEF RetryShown
<1> QED  BY <1>1, ActivationInvariant, PTL

(* When calls, failures and retries come one after the other, what runs is  *)
(* the stored workflow, each trigger and each poll once, and memory knows   *)
(* it; or nothing of it runs.                                               *)
THEOREM ActivationRunsAsStored == Spec => []RunsAsStored
<1>1. ActivationInv => RunsAsStored
  <2> SUFFICES ASSUME ActivationInv, clean, ~Busy, ~Empty
               PROVE  /\ row.active /\ entry = EntryOf(live)
                      /\ RunsOnce(live, 1 .. wf.triggers) /\ RunsOnce(crons, Nodes \ (1 .. wf.triggers))
    BY DEF RunsAsStored, Empty, NoEntry
  <2>1. wf \in Workflows
    BY TypeParts DEF ActivationInv, CountTypes
  <2>2. row.active /\ Up(wf.triggers + wf.polls)
    BY DEF ActivationInv, CleanInv, Rest
  <2>3. /\ wf.triggers <= wf.triggers + wf.polls
        /\ {n \in 1 .. wf.triggers : n <= wf.triggers + wf.polls} = 1 .. wf.triggers
        /\ {n \in Nodes \ (1 .. wf.triggers) : n <= wf.triggers + wf.polls} = Nodes \ (1 .. wf.triggers)
    BY <2>1, WorkflowFacts
  <2> QED  BY <2>2, <2>3 DEF Up
<1> QED  BY <1>1, ActivationInvariant, PTL
=============================================================================
