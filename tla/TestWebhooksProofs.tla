-------------------------- MODULE TestWebhooksProofs --------------------------
(***************************************************************************)
(* For every number of workflows, webhooks and calls: a registered test    *)
(* webhook has somebody who will end the wait for it.                      *)
(***************************************************************************)
EXTENDS TestWebhooks, TLAPS

(* A call that goes on has a workflow and one of its webhooks at hand, and  *)
(* its timer was at most cut; a call that has not begun has no timer.       *)
CallInv ==
  \A c \in Calls :
    /\ call[c].at = "none" => timer[c] = "none"
    /\ call[c].at # "none" => call[c].wf \in Workflows /\ call[c].next \in 1 .. Hooks[call[c].wf]
    /\ call[c].at \in {"registering", "creating"} => timer[c] \in {"set", "cut"}

(* A webhook's timer belongs to a call for its workflow that has begun.     *)
TimeoutInv ==
  \A k \in Keys, c \in Calls : timeouts[k] = c => call[c].wf = k[1] /\ call[c].at # "none"

WaitInv == TypeOK /\ CallInv /\ TimeoutInv /\ WaitIsWatched

-----------------------------------------------------------------------------
(* The sets that TypeOK names. *)
Stages == {"none", "registering", "creating", "done"}
CallRecords == [at : Stages, wf : Workflows \cup {None}, next : Nat \ {0}]
TimerStates == {"none", "set", "cleared", "cut", "fired"}

CallTypes ==
  /\ call \in [Calls -> CallRecords]
  /\ \A c \in Calls : call[c].wf # None => call[c].next <= Hooks[call[c].wf]
TimerTypes == timer \in [Calls -> TimerStates] /\ timeouts \in [Keys -> Calls \cup {None}]
RegTypes == regs \subseteq Keys /\ jobs \in [Kinds -> Nat]
FaultTypes == stuck \in BOOLEAN /\ faults \in 0 .. MaxFaults

LEMMA TypeParts == TypeOK <=> CallTypes /\ TimerTypes /\ RegTypes /\ FaultTypes
BY Zenon DEF TypeOK, CallTypes, TimerTypes, RegTypes, FaultTypes, CallRecords, Stages, TimerStates

LEMMA KeyFacts ==
  /\ \A w \in Workflows : \A i \in 1 .. Hooks[w] : <<w, i>> \in Keys
  /\ \A k \in Keys : k[1] \in Workflows /\ k[2] \in 1 .. Hooks[k[1]] /\ k = <<k[1], k[2]>>
BY DEF Keys

LEMMA KindFacts ==
  /\ \A k \in Keys : <<"running", k>> \in Kinds
  /\ \A at \in {"reading", "deleting", "wiping"}, w \in Workflows : <<at, w>> \in Kinds
BY DEF Kinds, Running, Deactivating

(* What the counters of jobs do. *)
LEMMA JobCounts ==
  ASSUME RegTypes, NEW a \in Kinds
  PROVE  /\ Begin(a) =>
              /\ jobs' \in [Kinds -> Nat] /\ jobs'[a] > 0
              /\ \A b \in Kinds : jobs'[b] >= jobs[b]
         /\ jobs[a] > 0 /\ End(a) =>
              /\ jobs' \in [Kinds -> Nat]
              /\ \A b \in Kinds \ {a} : jobs'[b] = jobs[b]
         /\ \A b \in Kinds \ {a} : jobs[a] > 0 /\ Goes(a, b) =>
              /\ jobs' \in [Kinds -> Nat] /\ jobs'[b] > 0
              /\ \A d \in Kinds \ {a} : jobs'[d] >= jobs[d]
BY DEF RegTypes, Begin, End, Goes

LEMMA WaitInit == Init => WaitInv
<1> SUFFICES ASSUME Init PROVE WaitInv
  OBVIOUS
<1>1. CallTypes /\ TimerTypes
  BY HooksAssumption DEF Init, CallTypes, CallRecords, Stages, TimerTypes, TimerStates
<1>2. RegTypes
  BY DEF Init, RegTypes
<1>3. FaultTypes
  <2>1. stuck \in BOOLEAN
    BY Zenon DEF Init
  <2> QED  BY <2>1, HooksAssumption DEF Init, FaultTypes
<1>4. CallInv /\ TimeoutInv /\ WaitIsWatched
  BY NoneAssumption DEF Init, CallInv, TimeoutInv, WaitIsWatched
<1> QED  BY <1>1, <1>2, <1>3, <1>4, TypeParts DEF WaitInv

-----------------------------------------------------------------------------
(* Steps *)

(* Who watches a workflow goes on doing so. *)
LEMMA WatchersStay ==
  ASSUME RegTypes, RegTypes', NEW w \in Workflows, Watched(w),
         \A c \in Calls : call[c].wf = w /\ timer[c] \in {"set", "cut"} =>
                            call'[c].wf = w /\ timer'[c] \in {"set", "cut"},
         \A at \in {"reading", "deleting", "wiping"} : jobs'[<<at, w>>] >= jobs[<<at, w>>],
         stuck => stuck'
  PROVE  Watched(w)'
<1>1. CASE stuck
  BY <1>1, Zenon DEF Watched
<1>2. CASE \E c \in Calls : call[c].wf = w /\ timer[c] \in {"set", "cut"}
  BY <1>2 DEF Watched
<1>3. CASE \E at \in {"reading", "deleting", "wiping"} : jobs[<<at, w>>] > 0
  <2>1. PICK at \in {"reading", "deleting", "wiping"} : jobs[<<at, w>>] > 0
    BY <1>3
  <2>2. jobs[<<at, w>>] \in Nat /\ jobs'[<<at, w>>] \in Nat
    BY KindFacts DEF RegTypes
  <2>3. jobs'[<<at, w>>] > 0
    BY <2>1, <2>2
  <2> QED  BY <2>3 DEF Watched
<1> QED  BY <1>1, <1>2, <1>3, Zenon DEF Watched

(* A timer that is cleared: what it was, and what it becomes. *)
LEMMA ClearFacts ==
  ASSUME TimerTypes, CallInv, NEW c \in Calls
  PROVE  /\ Clear(c) \in TimerStates
         /\ call[c].at = "none" => Clear(c) = "none"
         /\ call[c].at \in {"registering", "creating"} => Clear(c) = "cut"
BY DEF Clear, TimerTypes, TimerStates, CallInv

(* A step that is about one workflow. *)
LEMMA OthersWatched ==
  ASSUME RegTypes, RegTypes', WaitIsWatched, NEW w \in Workflows,
         \A c \in Calls : call[c].wf \in Workflows \ {w} /\ timer[c] \in {"set", "cut"} =>
                            call'[c].wf = call[c].wf /\ timer'[c] \in {"set", "cut"},
         \A v \in Workflows \ {w}, at \in {"reading", "deleting", "wiping"} :
           jobs'[<<at, v>>] >= jobs[<<at, v>>],
         stuck => stuck',
         \A k \in regs' : k \in regs \/ k[1] = w,
         \A k \in regs' : k[1] = w => Watched(w)'
  PROVE  WaitIsWatched'
<1> SUFFICES ASSUME NEW k \in regs' PROVE Watched(k[1])'
  BY DEF WaitIsWatched
<1>1. PICK v : v = k[1]
  OBVIOUS
<1>2. CASE v = w
  BY <1>1, <1>2
<1>3. CASE v # w
  <2>1. k \in regs /\ v \in Workflows \ {w} /\ Watched(v)
    BY <1>1, <1>3, KeyFacts DEF RegTypes, WaitIsWatched
  <2>2. Watched(v)'
    BY <2>1, WatchersStay
  <2> QED  BY <1>1, <2>2
<1> QED  BY <1>2, <1>3

(* What needsWebhook does keeps the types and the watchers. *)
LEMMA NeedsWebhook ==
  ASSUME WaitInv, NEW c \in Calls, Listening(c) \/ \E w \in Workflows : Listen(c, w)
  PROVE  CallTypes' /\ TimerTypes' /\ RegTypes' /\ CallInv' /\ TimeoutInv' /\ WaitIsWatched'
<1> DEFINE Goal == CallTypes' /\ TimerTypes' /\ RegTypes' /\ CallInv' /\ TimeoutInv' /\ WaitIsWatched'
<1>0. CallTypes /\ TimerTypes /\ RegTypes /\ CallInv /\ TimeoutInv /\ WaitIsWatched
  BY TypeParts DEF WaitInv
<1> USE <1>0, HooksAssumption
<1>1. ASSUME NEW w \in Workflows, Listen(c, w)
      PROVE  Goal
  <2>1. /\ call[c].at = "none" /\ timer[c] = "none" /\ timer' = [timer EXCEPT ![c] = "set"]
        /\ call' = [call EXCEPT ![c] = [at |-> "registering", wf |-> w, next |-> 1]]
        /\ UNCHANGED <<timeouts, regs, jobs, stuck>>
    BY <1>1 DEF Listen, CallInv
  <2>2. CallTypes' /\ TimerTypes' /\ RegTypes'
    BY <2>1 DEF CallTypes, CallRecords, Stages, TimerTypes, TimerStates, RegTypes
  <2>3. CallInv' /\ TimeoutInv'
    BY <2>1 DEF CallInv, TimeoutInv, CallTypes, TimerTypes
  <2>4. Watched(w)'
    BY <2>1 DEF Watched, CallTypes, TimerTypes
  <2>5. stuck => stuck'
    BY <2>1, Zenon
  <2>6. \A v \in Workflows, at \in {"reading", "deleting", "wiping"} : jobs'[<<at, v>>] >= jobs[<<at, v>>]
    BY <2>1, KindFacts DEF RegTypes
  <2>7. WaitIsWatched'
    BY <2>1, <2>2, <2>4, <2>5, <2>6, OthersWatched DEF CallTypes, TimerTypes
  <2> QED  BY <2>2, <2>3, <2>7
<1>2. ASSUME Listening(c)
      PROVE  Goal
  <2>1. /\ call[c].at \in {"registering", "creating"} /\ timer[c] \in {"set", "cut"}
        /\ call[c].wf \in Workflows /\ call[c].next \in 1 .. Hooks[call[c].wf]
    BY <1>2 DEF Listening, Decline, Register, Create, CreateFails, CallInv
  <2>2. PICK w : w = call[c].wf
    OBVIOUS
  <2>3. Key(c) \in Keys /\ Key(c)[1] = w
    BY <2>1, <2>2, KeyFacts DEF Key
  <2>4. /\ \A d \in Calls \ {c} : call'[d] = call[d]
        /\ call'[c].wf = w /\ call'[c] \in CallRecords /\ call' \in [Calls -> CallRecords]
        /\ call'[c].next \in 1 .. Hooks[w]
        /\ call'[c].at # "none" /\ UNCHANGED timer
    <3>1. CASE Decline(c) \/ Register(c) \/ CreateFails(c)
      BY <2>1, <2>2, <3>1 DEF Decline, Register, CreateFails, CallTypes, CallRecords, Stages
    <3>2. CASE Create(c)
      <4>1. Hooks[w] \in Nat /\ call[c].next \in Nat \ {0} /\ call[c] \in CallRecords
        BY <2>1, <2>2 DEF CallTypes
      <4>2. CASE call[c].next < Hooks[w]
        <5>1. call' = [call EXCEPT ![c].at = "registering", ![c].next = call[c].next + 1]
          BY <2>2, <3>2, <4>2 DEF Create, CallTypes
        <5>2. call[c].next + 1 \in 1 .. Hooks[w]
          BY <4>1, <4>2
        <5> QED  BY <2>2, <4>1, <5>1, <5>2 DEF CallTypes, CallRecords, Stages
      <4>3. CASE ~(call[c].next < Hooks[w])
        BY <2>1, <2>2, <3>2, <4>1, <4>3 DEF Create, CallTypes, CallRecords, Stages
      <4> QED  BY <4>2, <4>3
    <3> QED  BY <1>2, <3>1, <3>2 DEF Listening
  <2>5. /\ regs' \subseteq regs \cup {Key(c)}
        /\ timeouts' \in {timeouts, [timeouts EXCEPT ![Key(c)] = c], [timeouts EXCEPT ![Key(c)] = None]}
        /\ UNCHANGED jobs \/ Begin(<<"reading", w>>)
        /\ UNCHANGED stuck
    BY <1>2, <2>2, Zenon DEF Listening, Decline, Register, Create, CreateFails
  <2>6. TimerTypes' /\ CallTypes' /\ CallInv'
    <3>1. \A d \in Calls : call'[d].wf # None => call'[d].next <= Hooks[call'[d].wf]
      BY <2>1, <2>2, <2>4 DEF CallTypes
    <3> QED  BY <2>1, <2>2, <2>3, <2>4, <2>5, <3>1 DEF TimerTypes, CallTypes, CallInv
  <2>7. TimeoutInv'
    BY <2>1, <2>2, <2>3, <2>4, <2>5, NoneAssumption DEF TimeoutInv, TimerTypes
  <2>8. RegTypes' /\ \A v \in Workflows, at \in {"reading", "deleting", "wiping"} :
                       jobs'[<<at, v>>] >= jobs[<<at, v>>]
    <3>1. CASE UNCHANGED jobs
      BY <2>3, <2>5, <3>1, KindFacts DEF RegTypes
    <3>2. CASE Begin(<<"reading", w>>)
      BY <2>1, <2>2, <2>3, <2>5, <3>2, KindFacts, JobCounts DEF RegTypes
    <3> QED  BY <2>5, <3>1, <3>2
  <2>9. Watched(w)'
    BY <2>1, <2>4 DEF Watched
  <2>10. stuck => stuck'
    BY <2>5, Zenon
  <2>11. \A d \in Calls : call'[d].wf = call[d].wf /\ timer'[d] = timer[d]
    BY <2>2, <2>4
  <2>12. WaitIsWatched'
    BY <2>1, <2>2, <2>3, <2>5, <2>8, <2>9, <2>10, <2>11, OthersWatched
  <2> QED  BY <2>6, <2>7, <2>8, <2>12
<1> HIDE DEF Goal
<1>3. Goal
  BY <1>1, <1>2
<1> QED  BY <1>3 DEF Goal

(* Timers that are cleared or fire keep the invariants about calls.         *)
LEMMA TimersMove ==
  ASSUME CallTypes, TimerTypes, CallInv, TimeoutInv, UNCHANGED <<call, timeouts>>,
         \A c \in Calls : \/ timer'[c] = timer[c] \/ timer'[c] = Clear(c)
                          \/ call[c].at = "done" /\ timer'[c] = "fired",
         \E f : timer' = [c \in Calls |-> f[c]]
  PROVE  CallTypes' /\ TimerTypes' /\ CallInv' /\ TimeoutInv'
<1>1. \A c \in Calls :
        /\ timer'[c] \in TimerStates
        /\ call[c].at = "none" => timer'[c] = "none"
        /\ call[c].at \in {"registering", "creating"} => timer'[c] \in {"set", "cut"}
  BY ClearFacts DEF TimerTypes, TimerStates, CallInv
<1>2. timer' \in [Calls -> TimerStates]
  BY <1>1
<1> QED  BY <1>1, <1>2 DEF CallTypes, TimerTypes, CallInv, TimeoutInv

(* The requests of a webhook: those that run the workflow end the wait.     *)
LEMMA ExecuteWebhook ==
  ASSUME WaitInv, NEW k \in Keys, Request(k) \/ Ping(k) \/ Ran(k)
  PROVE  CallTypes' /\ TimerTypes' /\ RegTypes' /\ CallInv' /\ TimeoutInv' /\ WaitIsWatched'
<1>0. CallTypes /\ TimerTypes /\ RegTypes /\ CallInv /\ TimeoutInv /\ WaitIsWatched
  BY TypeParts DEF WaitInv
<1>1. PICK w, r : w = k[1] /\ r = <<"running", k>>
  OBVIOUS
<1>2. /\ w \in Workflows /\ r \in Kinds
      /\ \A at \in {"reading", "deleting", "wiping"}, v \in Workflows : <<at, v>> \in Kinds \ {r}
  BY <1>1, KeyFacts, KindFacts
<1>3. UNCHANGED <<call, timeouts, regs, stuck>>
  BY DEF Request, Ping, Ran
<1>4. stuck => stuck'
  BY <1>3, Zenon
<1>5. CASE Request(k) \/ Ping(k)
  <2>1. UNCHANGED timer /\ (Begin(r) \/ (jobs[r] > 0 /\ End(r)))
    BY <1>1, <1>5 DEF Request, Ping
  <2>2. /\ jobs' \in [Kinds -> Nat]
        /\ \A at \in {"reading", "deleting", "wiping"}, v \in Workflows :
             jobs'[<<at, v>>] >= jobs[<<at, v>>]
    <3>1. CASE Begin(r)
      BY <1>0, <1>2, <3>1, JobCounts
    <3>2. CASE jobs[r] > 0 /\ End(r)
      BY <1>0, <1>2, <3>2, JobCounts DEF RegTypes
    <3> QED  BY <2>1, <3>1, <3>2
  <2>3. RegTypes' /\ CallTypes' /\ TimerTypes' /\ CallInv' /\ TimeoutInv'
    BY <1>0, <1>3, <2>1, <2>2 DEF RegTypes, CallTypes, TimerTypes, CallInv, TimeoutInv
  <2>4. \A j \in regs' : j[1] = w => Watched(w)'
    BY <1>0, <1>2, <1>3, <1>4, <2>1, <2>2, <2>3, WatchersStay DEF WaitIsWatched
  <2>5. WaitIsWatched'
    BY <1>0, <1>2, <1>3, <1>4, <2>1, <2>2, <2>3, <2>4, OthersWatched
  <2> QED  BY <2>3, <2>5
<1>6. CASE Ran(k)
  <2>1. jobs[r] > 0 /\ Goes(r, <<"reading", w>>) /\ Cleared({timeouts[k]})
    BY <1>1, <1>6 DEF Ran
  <2>2. /\ jobs' \in [Kinds -> Nat] /\ jobs'[<<"reading", w>>] > 0
        /\ \A at \in {"reading", "deleting", "wiping"}, v \in Workflows :
             jobs'[<<at, v>>] >= jobs[<<at, v>>]
    BY <1>0, <1>2, <2>1, JobCounts
  <2>3. \A c \in Calls : timer'[c] = timer[c] \/ (timer'[c] = Clear(c) /\ timeouts[k] = c)
    BY <2>1 DEF Cleared
  <2>4. CallTypes' /\ TimerTypes' /\ CallInv' /\ TimeoutInv'
    <3>1. \E f : timer' = [c \in Calls |-> f[c]]
      BY <2>1 DEF Cleared
    <3> QED  BY <1>0, <1>3, <2>3, <3>1, TimersMove
  <2>5. RegTypes'
    BY <1>0, <1>3, <2>2 DEF RegTypes
  <2>6. Watched(w)'
    BY <2>2 DEF Watched
  <2>7. \A c \in Calls : call[c].wf # w => timer'[c] = timer[c]
    BY <1>0, <1>1, <2>3 DEF TimeoutInv
  <2>8. WaitIsWatched'
    BY <1>0, <1>2, <1>3, <1>4, <2>2, <2>5, <2>6, <2>7, OthersWatched
  <2> QED  BY <2>4, <2>5, <2>8
<1> QED  BY <1>5, <1>6

(* cancelWebhook clears the timers of the webhooks it finds, and what it    *)
(* finds it deactivates.                                                    *)
LEMMA Cancelled ==
  ASSUME WaitInv, NEW w \in Workflows, NEW fired \in SUBSET Calls, CancelWebhook(w, fired),
         \A c \in fired : call[c].wf = w /\ call[c].at = "done"
  PROVE  CallTypes' /\ TimerTypes' /\ RegTypes' /\ CallInv' /\ TimeoutInv' /\ WaitIsWatched'
<1>0. CallTypes /\ TimerTypes /\ RegTypes /\ CallInv /\ TimeoutInv /\ WaitIsWatched
  BY TypeParts DEF WaitInv
<1>1. PICK found : found = regs \cap KeysOf(w)
  OBVIOUS
<1>2. PICK r : r = <<"reading", w>>
  OBVIOUS
<1>3. /\ UNCHANGED <<call, timeouts, regs, stuck>>
      /\ IF found = {} THEN UNCHANGED jobs ELSE Begin(r)
      /\ timer' = [c \in Calls |-> IF c \in fired THEN "fired"
                                   ELSE IF c \in {timeouts[k] : k \in found} THEN Clear(c) ELSE timer[c]]
  BY <1>1, <1>2 DEF CancelWebhook
<1>4. stuck => stuck'
  BY <1>3, Zenon
<1>5. \A c \in Calls : call[c].wf # w => timer'[c] = timer[c]
  BY <1>0, <1>1, <1>3 DEF TimeoutInv, KeysOf, RegTypes
<1>6. CallTypes' /\ TimerTypes' /\ CallInv' /\ TimeoutInv'
  <2>1. \A c \in Calls : \/ timer'[c] = timer[c] \/ timer'[c] = Clear(c)
                         \/ call[c].at = "done" /\ timer'[c] = "fired"
    BY <1>3
  <2>2. \E f : timer' = [c \in Calls |-> f[c]]
    BY <1>3
  <2> QED  BY <1>0, <1>3, <2>1, <2>2, TimersMove
<1>7. RegTypes' /\ \A v \in Workflows, at \in {"reading", "deleting", "wiping"} :
                     jobs'[<<at, v>>] >= jobs[<<at, v>>]
  <2>1. r \in Kinds
    BY <1>2, KindFacts
  <2>2. CASE found = {}
    BY <1>0, <1>3, <2>2, KindFacts DEF RegTypes
  <2>3. CASE Begin(r)
    BY <1>0, <1>3, <2>1, <2>3, JobCounts, KindFacts DEF RegTypes
  <2> QED  BY <1>3, <2>2, <2>3
<1>8. ASSUME NEW k \in regs', k[1] = w
      PROVE  Watched(w)'
  <2>1. k \in found
    BY <1>0, <1>1, <1>3, <1>8 DEF KeysOf, RegTypes
  <2>2. jobs'[r] > 0
    BY <1>0, <1>2, <1>3, <2>1, JobCounts, KindFacts
  <2> QED  BY <1>2, <2>2 DEF Watched
<1>9. WaitIsWatched'
  BY <1>0, <1>3, <1>4, <1>5, <1>7, <1>8, OthersWatched
<1> QED  BY <1>6, <1>7, <1>9

(* A deactivation watches its workflow until the hash is dropped or a       *)
(* webhook stays behind at the third party.                                 *)
LEMMA Deactivated ==
  ASSUME WaitInv, NEW w \in Workflows, Collect(w) \/ Deactivate(w) \/ Wipe(w)
  PROVE  RegTypes' /\ WaitIsWatched'
<1>0. CallTypes /\ TimerTypes /\ RegTypes /\ CallInv /\ TimeoutInv /\ WaitIsWatched
  BY TypeParts DEF WaitInv
<1>1. PICK a, b, d : a = <<"reading", w>> /\ b = <<"deleting", w>> /\ d = <<"wiping", w>>
  OBVIOUS
<1>2. a \in Kinds /\ b \in Kinds \ {a} /\ d \in Kinds \ {b}
  BY <1>1, KindFacts
<1>3. \A v \in Workflows \ {w}, at \in {"reading", "deleting", "wiping"} :
        <<at, v>> \in Kinds \ {a, b, d}
  BY <1>1, KindFacts
<1>4. UNCHANGED <<call, timer>>
  BY DEF Collect, Deactivate, Delete, DeleteFails, Wipe
<1>5. ASSUME jobs' \in [Kinds -> Nat], \A e \in Kinds \ {a, b, d} : jobs'[e] >= jobs[e],
             regs' \subseteq regs, stuck => stuck', \A k \in regs' : k[1] = w => Watched(w)'
      PROVE  RegTypes' /\ WaitIsWatched'
  <2>1. RegTypes'
    BY <1>0, <1>5 DEF RegTypes
  <2> QED  BY <1>0, <1>3, <1>4, <1>5, <2>1, OthersWatched
<1>6. CASE Collect(w)
  <2>1. jobs[a] > 0 /\ UNCHANGED <<regs, stuck>>
    BY <1>1, <1>6 DEF Collect
  <2>2. stuck => stuck'
    BY <2>1, Zenon
  <2>3. CASE regs \cap KeysOf(w) = {}
    <3>1. End(a)
      BY <1>1, <1>6, <2>3 DEF Collect
    <3>2. jobs' \in [Kinds -> Nat] /\ \A e \in Kinds \ {a} : jobs'[e] >= jobs[e]
      BY <1>0, <1>2, <2>1, <3>1, JobCounts DEF RegTypes
    <3>3. \A k \in regs' : k[1] # w
      BY <1>0, <2>1, <2>3 DEF RegTypes, KeysOf
    <3> QED  BY <1>5, <2>1, <2>2, <3>2, <3>3
  <2>4. CASE regs \cap KeysOf(w) # {}
    <3>1. Goes(a, b)
      BY <1>1, <1>6, <2>4 DEF Collect
    <3>2. jobs' \in [Kinds -> Nat] /\ jobs'[b] > 0 /\ \A e \in Kinds \ {a} : jobs'[e] >= jobs[e]
      BY <1>0, <1>2, <2>1, <3>1, JobCounts
    <3>3. Watched(w)'
      BY <1>1, <3>2 DEF Watched
    <3> QED  BY <1>5, <2>1, <2>2, <3>2, <3>3
  <2> QED  BY <2>3, <2>4
<1>7. CASE Delete(w)
  <2>1. jobs[b] > 0 /\ UNCHANGED <<regs, stuck>> /\ Goes(b, d)
    BY <1>1, <1>7 DEF Delete
  <2>2. stuck => stuck'
    BY <2>1, Zenon
  <2>3. jobs' \in [Kinds -> Nat] /\ jobs'[d] > 0 /\ \A e \in Kinds \ {b} : jobs'[e] >= jobs[e]
    BY <1>0, <1>2, <2>1, JobCounts
  <2>4. Watched(w)'
    BY <1>1, <2>3 DEF Watched
  <2> QED  BY <1>5, <2>1, <2>2, <2>3, <2>4
<1>8. CASE DeleteFails(w)
  <2>1. jobs[b] > 0 /\ UNCHANGED regs /\ End(b)
    BY <1>1, <1>8 DEF DeleteFails
  <2>2. stuck'
    BY <1>8, Zenon DEF DeleteFails
  <2>3. jobs' \in [Kinds -> Nat] /\ \A e \in Kinds \ {b} : jobs'[e] >= jobs[e]
    BY <1>0, <1>2, <2>1, JobCounts DEF RegTypes
  <2>4. Watched(w)'
    BY <2>2 DEF Watched
  <2> QED  BY <1>5, <2>1, <2>2, <2>3, <2>4
<1>9. CASE Wipe(w)
  <2>1. jobs[d] > 0 /\ regs' = {} /\ End(d) /\ UNCHANGED stuck
    BY <1>1, <1>9 DEF Wipe
  <2>2. stuck => stuck'
    BY <2>1, Zenon
  <2>3. jobs' \in [Kinds -> Nat] /\ \A e \in Kinds \ {d} : jobs'[e] >= jobs[e]
    BY <1>0, <1>2, <2>1, JobCounts DEF RegTypes
  <2> QED  BY <1>5, <2>1, <2>2, <2>3
<1> QED  BY <1>6, <1>7, <1>8, <1>9 DEF Deactivate

LEMMA FaultStep ==
  ASSUME FaultTypes, [Next]_vars
  PROVE  FaultTypes'
<1>1. stuck' \in BOOLEAN
  <2>1. UNCHANGED stuck \/ stuck' = TRUE
    BY Zenon DEF Next, vars, Listening, Decline, Register, Create, CreateFails, Listen, TimerFires,
                 CancelWebhook, Request, Ping, Ran, Collect, Deactivate, Delete, DeleteFails, Wipe
  <2> QED  BY <2>1, Zenon DEF FaultTypes
<1>2. faults' \in 0 .. MaxFaults
  <2>1. UNCHANGED faults \/ (faults < MaxFaults /\ faults' = faults + 1)
    BY DEF Next, vars, Listening, Decline, Register, Create, CreateFails, Listen, TimerFires,
           CancelWebhook, Request, Ping, Ran, Collect, Deactivate, Delete, DeleteFails, Wipe
  <2> QED  BY <2>1, HooksAssumption DEF FaultTypes
<1> QED  BY <1>1, <1>2 DEF FaultTypes

LEMMA WaitStep == WaitInv /\ [Next]_vars => WaitInv'
<1> SUFFICES ASSUME WaitInv, [Next]_vars PROVE WaitInv'
  OBVIOUS
<1> DEFINE Goal == CallTypes' /\ TimerTypes' /\ RegTypes' /\ CallInv' /\ TimeoutInv' /\ WaitIsWatched'
<1>0. CallTypes /\ TimerTypes /\ RegTypes /\ FaultTypes /\ CallInv /\ TimeoutInv /\ WaitIsWatched
  BY TypeParts DEF WaitInv
<1>1. ASSUME NEW c \in Calls, Listening(c) \/ \E w \in Workflows : Listen(c, w)
      PROVE  Goal
  BY <1>1, NeedsWebhook
<1>2. ASSUME NEW c \in Calls, TimerFires(c)
      PROVE  Goal
  <2>1. call[c].at = "done" /\ CancelWebhook(call[c].wf, {c})
    BY <1>2 DEF TimerFires
  <2>2. PICK w : w = call[c].wf
    OBVIOUS
  <2>3. w \in Workflows
    BY <1>0, <2>1, <2>2 DEF CallInv
  <2> QED  BY <2>1, <2>2, <2>3, Cancelled
<1>3. ASSUME NEW w \in Workflows, CancelWebhook(w, {})
      PROVE  Goal
  BY <1>3, Cancelled
<1>4. ASSUME NEW k \in Keys, Request(k) \/ Ping(k) \/ Ran(k)
      PROVE  Goal
  BY <1>4, ExecuteWebhook
<1>5. ASSUME NEW w \in Workflows, Collect(w) \/ Deactivate(w) \/ Wipe(w)
      PROVE  Goal
  <2>1. RegTypes' /\ WaitIsWatched'
    BY <1>5, Deactivated
  <2>2. UNCHANGED <<call, timer, timeouts>>
    BY <1>5 DEF Collect, Deactivate, Delete, DeleteFails, Wipe
  <2> QED  BY <1>0, <2>1, <2>2 DEF CallTypes, TimerTypes, CallInv, TimeoutInv
<1>6. ASSUME UNCHANGED vars
      PROVE  Goal
  <2>1. \A w : Watched(w)' <=> Watched(w)
    BY <1>6, Zenon DEF vars, Watched
  <2> QED  BY <1>0, <1>6, <2>1 DEF vars, CallTypes, TimerTypes, RegTypes, CallInv, TimeoutInv, WaitIsWatched
<1> HIDE DEF Goal
<1>7. Goal
  BY <1>1, <1>2, <1>3, <1>4, <1>5, <1>6 DEF Next
<1>8. CallTypes' /\ TimerTypes' /\ RegTypes' /\ CallInv' /\ TimeoutInv' /\ WaitIsWatched'
  BY <1>7 DEF Goal
<1>9. FaultTypes'
  BY <1>0, FaultStep
<1>10. TypeOK' <=> (CallTypes /\ TimerTypes /\ RegTypes /\ FaultTypes)'
  BY TypeParts, PTL
<1> QED  BY <1>8, <1>9, <1>10 DEF WaitInv

-----------------------------------------------------------------------------
(* Theorems *)

THEOREM WaitInvariant == Spec => []WaitInv
BY WaitInit, WaitStep, PTL DEF Spec

(* Every variable of TestWebhooks keeps its type.                           *)
THEOREM TestWebhooksTypeCorrect == Spec => []TypeOK
<1>1. WaitInv => TypeOK
  BY DEF WaitInv
<1> QED  BY <1>1, WaitInvariant, PTL

(* For a registered test webhook a timer is set or a deactivation is under  *)
(* way, whichever calls of needsWebhook, executeWebhook, cancelWebhook and  *)
(* deactivateWebhooks overlap, unless a third party refused to delete a     *)
(* webhook or the timer of a call for the workflow was cut.                 *)
THEOREM TestWebhooksWaitIsWatched == Spec => []WaitIsWatched
<1>1. WaitInv => WaitIsWatched
  BY DEF WaitInv
<1> QED  BY <1>1, WaitInvariant, PTL
=============================================================================
