------------------------------ MODULE TaskBroker ------------------------------
(***************************************************************************)
(* Code-node tasks: the broker in the main process, the task requester     *)
(* beside it, and the task runners behind a WebSocket each.                *)
(*                                                                         *)
(*   TaskBroker           known, offers, requests, inProgress, accept,     *)
(*                        tasks, issued                                    *)
(*   LocalTaskRequester   request, answer                                  *)
(*   TaskRunnerWsServer   conn, toRunner                                   *)
(*   TaskRunner           proc, open, running, toBroker                    *)
(*   TaskRunnerProcess    restarts the runner in internal mode             *)
(*                                                                         *)
(* Broker and requester share a process and call each other without        *)
(* waiting for input or output, so the handling of one message, with every *)
(* promise it settles, is one action.  A WebSocket delivers in order.      *)
(* Every incarnation of a runner is a runner of its own: it takes a fresh  *)
(* id and never reconnects.  There is one task type.                       *)
(*                                                                         *)
(* A definition named Slip... is a plausible mistake in the definition     *)
(* after it; no specification uses it.                                     *)
(***************************************************************************)
EXTENDS Integers, Sequences, FiniteSets, SequencesExt

CONSTANTS
  Requests,       \* task requests, one for each call of startTask
  Runners,        \* incarnations of task runners; internal ones are numbered
  OfferIds,       \* offer ids a runner chooses from
  MaxConcurrency, \* tasks a runner may run
  MaxTasks,       \* bound: task ids the broker issues
  MaxFaults,      \* bound: crashes, stops, late answers and lost heartbeats
  None,           \* no request, no runner
  Mode            \* "internal": the runner is a child process; "external"

Tasks == 1 .. MaxTasks

ASSUME ConstantsAssumption ==
  /\ IsFiniteSet(Requests) /\ IsFiniteSet(OfferIds)
  /\ OfferIds \subseteq Nat
  /\ MaxConcurrency \in Nat \ {0}
  /\ MaxTasks \in Nat
  /\ MaxFaults \in Nat
  /\ Mode \in {"internal", "external"}
  /\ Mode = "internal" => Runners \subseteq Nat
  /\ None \notin Requests \cup Runners

VARIABLES
  known,      \* knownRunners
  offers,     \* pendingTaskOffers
  old,        \* offers whose time at the broker is over
  requests,   \* pendingTaskRequests
  inProgress, \* [Requests -> BOOLEAN]: acceptInProgress of the request
  accept,     \* [Tasks -> [st, request, runner]]: the call of acceptOffer
  tasks,      \* tasks
  issued,     \* task ids used
  request,    \* [Requests -> "idle", "asked", "ready", "done"]: startTask
  answer,     \* [Requests -> how the task was answered]
  conn,       \* [Runners -> state of the connection at the server]
  toRunner,   \* [Runners -> messages on their way to the runner]
  toBroker,   \* [Runners -> messages on their way to the broker]
  proc,       \* [Runners -> state of the runner]
  open,       \* [Runners -> openOffers]
  launchers,  \* runners that are launchers: they defer and start others
  running,    \* [Runners -> [Tasks -> status, "none" if not in runningTasks]]
  faults

brokerVars    == <<known, offers, requests, inProgress, accept, tasks, issued>>
requesterVars == <<request, answer>>
runnerVars    == <<open, running>>
stepVars == <<brokerVars, old, requesterVars, conn, toRunner, toBroker, proc, runnerVars, faults>>
vars == <<stepVars, launchers>>

Offer(r, o) == [runner |-> r, offer |-> o]

(* The stage of a call of acceptOffer: not made, waiting for the runner,    *)
(* past the two seconds with its runnerAcceptRejects entry still there,     *)
(* ended without a task, accepted, or accepted for a request that is not    *)
(* in the list or that the requester does not wait for.                     *)
Stages == {"none", "waiting", "late", "over", "accepted", "unlisted", "unwanted"}
TaskStatuses == {"none", "waitingForSettings", "running", "aborting:cancelled", "aborting:timeout"}
Answers == {"none", "done", "error", "timeout", "disconnected"}
Procs == {"unborn", "starting", "offering", "stopping", "left", "dead"}

Up == {"starting", "offering", "stopping"}
Current == {r \in Runners : proc[r] \in Up}
RunningTasks(r) == {t \in Tasks : running[r][t] # "none"}

-----------------------------------------------------------------------------
(* The members of I in their order, and those of s at the positions in I:   *)
(* what SelectSeq returns, said by positions.  SelectSeq and the folds are  *)
(* defined by recursion, which no proof could unfold for a list of any      *)
(* length; a position can be reasoned about.                                *)
Rank(I, i) == Cardinality({j \in I : j <= i})
Nth(I, k) == CHOOSE i \in I : Rank(I, i) = k
Selected(s, I) == [k \in 1 .. Cardinality(I) |-> s[Nth(I, k)]]

Without(s, e) == Selected(s, DOMAIN s \ {Nth({i \in DOMAIN s : s[i] = e}, 1)})

-----------------------------------------------------------------------------
Init ==
  /\ known = {} /\ offers = <<>> /\ old = {} /\ requests = <<>>
  /\ inProgress = [q \in Requests |-> FALSE]
  /\ accept = [t \in Tasks |-> [st |-> "none", request |-> None, runner |-> None]]
  /\ tasks = {} /\ issued = 0
  /\ request = [q \in Requests |-> "idle"]
  /\ answer = [q \in Requests |-> "none"]
  /\ conn = [r \in Runners |-> "none"]
  /\ toRunner = [r \in Runners |-> <<>>]
  /\ toBroker = [r \in Runners |-> <<>>]
  /\ proc = [r \in Runners |-> "unborn"]
  /\ open = [r \in Runners |-> {}]
  /\ running = [r \in Runners |-> [t \in Tasks |-> "none"]]
  /\ faults = 0
  /\ launchers \in SUBSET Runners
  /\ Mode = "internal" => launchers = {}

-----------------------------------------------------------------------------
(* TaskBroker: matching offers with requests *)

(* A message for a runner that is gone is dropped. *)
Sent(r, m) ==
  IF r \in known /\ proc[r] \in Up THEN [toRunner EXCEPT ![r] = Append(@, m)] ELSE toRunner

(* The pending requests that settleTasks looks at: an object that is in the *)
(* list twice is marked on its first turn and skipped on its second.        *)
Unclaimed(reqs, claimed) ==
  Selected(reqs, {i \in DOMAIN reqs : ~claimed[reqs[i]] /\ \A j \in 1 .. i - 1 : reqs[j] # reqs[i]})

Unexpired(offs) == Selected(offs, {i \in DOMAIN offs : offs[i] \notin old})

(* `settleTasks` on the given lists: the oldest unexpired offer for each    *)
(* request in turn, an acceptOffer for each pair.                           *)
Settle(reqs, claimed, offs) ==
  LET free == Unclaimed(reqs, claimed)
      live == Unexpired(offs)
      n    == IF Len(free) < Len(live) THEN Len(free) ELSE Len(live)
      made == issued + 1 .. issued + n
      message(i) == [type |-> "accept", task |-> issued + i,
                     offer |-> live[i].offer, runner |-> live[i].runner]
      sent(r) == Selected([i \in 1 .. n |-> message(i)],
                          {i \in 1 .. n : live[i].runner = r /\ proc[r] \in Up})
  IN  /\ issued + n <= MaxTasks
      /\ issued' = issued + n
      /\ requests' = reqs
      /\ inProgress' = [q \in Requests |-> claimed[q] \/ \E i \in 1 .. n : free[i] = q]
      /\ offers' = SubSeq(live, n + 1, Len(live))
      /\ accept' = [t \in Tasks |->
                      IF t \in made
                        THEN [st |-> "waiting", request |-> free[t - issued],
                              runner |-> live[t - issued].runner]
                        ELSE accept[t]]
      /\ toRunner' = [r \in Runners |-> toRunner[r] \o sent(r)]

(* The acceptance ends without a task: the request is free again, but       *)
(* nothing settles it until the next offer or request arrives.              *)
SlipGiveUp(t, st) ==
  /\ accept' = [accept EXCEPT ![t].st = st]
  /\ UNCHANGED inProgress
GiveUp(t, st) ==
  /\ accept' = [accept EXCEPT ![t].st = st]
  /\ inProgress' = [inProgress EXCEPT ![accept[t].request] = FALSE]

(* The runner of the acceptance can no longer answer it. *)
Lost(t) == proc[accept[t].runner] \notin Up

(* Two seconds without an answer: a fault of a runner that is up. *)
AcceptTimeout(t) ==
  /\ accept[t].st = "waiting"
  /\ faults' = IF Lost(t) THEN faults ELSE faults + 1
  /\ faults' <= MaxFaults
  /\ GiveUp(t, "late")
  /\ UNCHANGED <<known, offers, requests, tasks, issued, old, requesterVars, conn,
                 toRunner, toBroker, proc, runnerVars>>

-----------------------------------------------------------------------------
(* TaskBroker and LocalTaskRequester: requests and answers *)

(* `startTask` up to its first await, and `taskRequested`. *)
StartTask(q) ==
  /\ request[q] = "idle"
  /\ request' = [request EXCEPT ![q] = "asked"]
  /\ Settle(Append(requests, q), inProgress, offers)
  /\ UNCHANGED <<known, old, tasks, answer, conn, toBroker, proc, runnerVars, faults>>

(* The requester's promises of the tasks of S are settled: `taskDone`,      *)
(* `taskError`.  It knows a task only after it was told that it is ready.   *)
Answered(S, how) ==
  LET told == {accept[t].request : t \in {u \in S : accept[u].st = "accepted"}}
      now  == {q \in told : request[q] = "ready"}
  IN  /\ request' = [q \in Requests |-> IF q \in now THEN "done" ELSE request[q]]
      /\ answer'  = [q \in Requests |-> IF q \in now THEN how ELSE answer[q]]

(* Everything a message of the runner may leave alone. *)
Received(r) ==
  /\ r \in known /\ conn[r] \in {"up", "suspect"} /\ toBroker[r] # <<>>
  /\ toBroker' = [toBroker EXCEPT ![r] = Tail(@)]
  /\ UNCHANGED <<known, old, conn, proc, runnerVars, faults>>

HeadIs(r, type) == toBroker[r] # <<>> /\ Head(toBroker[r]).type = type

(* `taskOffered` *)
TaskOffered(r) ==
  /\ HeadIs(r, "offer")
  /\ Settle(requests, inProgress, Append(offers, Offer(r, Head(toBroker[r]).offer)))
  /\ UNCHANGED <<tasks, requesterVars>>
  /\ Received(r)

(* The rest of acceptOffer once the runner accepted: the task exists, its   *)
(* request leaves the list, the requester is told and answers with the      *)
(* settings, which go to the runner.  A requester that no longer waits for  *)
(* the request has the task cancelled.                                      *)
TaskReady(r, t) ==
  LET q == accept[t].request IN
  /\ requests' = IF Contains(requests, q) THEN Without(requests, q) ELSE requests
  /\ CASE ~Contains(requests, q) ->
            /\ tasks' = tasks \cup {t}
            /\ accept' = [accept EXCEPT ![t].st = "unlisted"]
            /\ UNCHANGED <<request, toRunner>>
       [] Contains(requests, q) /\ request[q] = "asked" ->
            /\ tasks' = tasks \cup {t}
            /\ accept' = [accept EXCEPT ![t].st = "accepted"]
            /\ request' = [request EXCEPT ![q] = "ready"]
            /\ toRunner' = Sent(r, [type |-> "settings", task |-> t])
       [] OTHER ->
            /\ accept' = [accept EXCEPT ![t].st = "unwanted"]
            /\ toRunner' = Sent(r, [type |-> "cancel", task |-> t])
            /\ UNCHANGED <<tasks, request>>
  /\ UNCHANGED <<inProgress, answer>>

(* `handleRunnerAccept`: too late, it only drops the entry. *)
SlipHandleRunnerAccept(r) ==
  LET t == Head(toBroker[r]).task IN
  /\ HeadIs(r, "accepted")
  /\ IF accept[t].st \in {"waiting", "late"}
       THEN TaskReady(r, t)
       ELSE UNCHANGED <<requests, inProgress, accept, tasks, requesterVars, toRunner>>
  /\ UNCHANGED <<offers, issued>>
  /\ Received(r)
HandleRunnerAccept(r) ==
  LET t == Head(toBroker[r]).task IN
  /\ HeadIs(r, "accepted")
  /\ IF accept[t].st = "waiting"
       THEN TaskReady(r, t)
       ELSE /\ accept' = IF accept[t].st = "late" THEN [accept EXCEPT ![t].st = "over"] ELSE accept
            /\ UNCHANGED <<requests, inProgress, tasks, requesterVars, toRunner>>
  /\ UNCHANGED <<offers, issued>>
  /\ Received(r)

(* `handleRunnerReject` and `handleRunnerDeferred`: the latter puts the     *)
(* request into the list once more.                                         *)
HandleRunnerReject(r) ==
  LET t == Head(toBroker[r]).task IN
  /\ HeadIs(r, "rejected") \/ HeadIs(r, "deferred")
  /\ CASE accept[t].st = "waiting" ->
            /\ GiveUp(t, "over")
            /\ requests' = IF HeadIs(r, "deferred") THEN Append(requests, accept[t].request)
                                                     ELSE requests
       [] accept[t].st = "late" ->
            accept' = [accept EXCEPT ![t].st = "over"] /\ UNCHANGED <<requests, inProgress>>
       [] OTHER -> UNCHANGED <<requests, inProgress, accept>>
  /\ UNCHANGED <<offers, tasks, issued, requesterVars, toRunner>>
  /\ Received(r)

(* `taskDoneHandler`, `taskErrorHandler`: a task the broker has given up    *)
(* has no answer any more.                                                  *)
TaskDone(r) ==
  LET t == Head(toBroker[r]).task IN
  /\ HeadIs(r, "done") \/ HeadIs(r, "error")
  /\ Answered(tasks \cap {t}, Head(toBroker[r]).type)
  /\ tasks' = tasks \ {t}
  /\ UNCHANGED <<offers, requests, inProgress, accept, issued, toRunner>>
  /\ Received(r)

-----------------------------------------------------------------------------
(* The end of a runner *)

(* The process of r ends: of what it sent, the first k messages arrive. *)
Ends(r, how, k) ==
  /\ proc' = [proc EXCEPT ![r] = how]
  /\ open' = [open EXCEPT ![r] = {}]
  /\ running' = [running EXCEPT ![r] = [t \in Tasks |-> "none"]]
  /\ toBroker' = [toBroker EXCEPT ![r] = SubSeq(@, 1, k)]

Crash(r) ==
  /\ r \in Current /\ faults < MaxFaults
  /\ faults' = faults + 1
  /\ \E k \in 0 .. Len(toBroker[r]) : Ends(r, "dead", k)
  /\ toRunner' = [toRunner EXCEPT ![r] = <<>>]
  /\ UNCHANGED <<brokerVars, old, requesterVars, conn>>

(* `forceRestart`: SIGKILL for the child process there is now, if any. *)
ForceRestart ==
  /\ \A r \in Current : \E k \in 0 .. Len(toBroker[r]) : Ends(r, "dead", k)
  /\ Current = {} => UNCHANGED <<proc, open, running, toBroker>>
  /\ toRunner' = [r \in Runners |-> IF r \in Current THEN <<>> ELSE toRunner[r]]

(* `handleTaskTimeout`: the timer that sendTaskSettings set. *)
SlipTaskTimeout(t) ==
  /\ t \in tasks /\ accept[t].st = "accepted"
  /\ toRunner' = Sent(accept[t].runner, [type |-> "cancel", task |-> t])
  /\ tasks' = tasks \ {t}
  /\ UNCHANGED <<known, offers, requests, inProgress, accept, issued, old, requesterVars, conn,
                 toBroker, proc, runnerVars, faults>>
TaskTimeout(t) ==
  /\ t \in tasks /\ accept[t].st = "accepted"
  /\ IF Mode = "internal"
       THEN ForceRestart
       ELSE /\ toRunner' = Sent(accept[t].runner, [type |-> "cancel", task |-> t])
            /\ UNCHANGED <<proc, open, running, toBroker>>
  /\ Answered({t}, "timeout")
  /\ tasks' = tasks \ {t}
  /\ UNCHANGED <<known, offers, requests, inProgress, accept, issued, old, conn, faults>>

(* The heartbeat timer of the server finds no answer to its ping. *)
HeartbeatFails(r) ==
  /\ conn[r] = "up" /\ r \in Current /\ faults < MaxFaults
  /\ faults' = faults + 1
  /\ conn' = [conn EXCEPT ![r] = "suspect"]
  /\ IF Mode = "internal"
       THEN ForceRestart
       ELSE UNCHANGED <<proc, open, running, toBroker, toRunner>>
  /\ UNCHANGED <<brokerVars, old, requesterVars>>

(* `connection.once("close")`, after the messages that came before it. *)
ConnectionCloses(r) ==
  /\ conn[r] = "up" /\ proc[r] \in {"left", "dead"} /\ toBroker[r] = <<>>
  /\ conn' = [conn EXCEPT ![r] = "closing"]
  /\ UNCHANGED <<brokerVars, old, requesterVars, toRunner, toBroker, proc, runnerVars, faults>>

(* `removeConnection` after toDisconnectError, with `deregisterRunner`: the *)
(* offers and the tasks of the runner go; acceptances that wait for it stay *)
(* until their two seconds are over.                                        *)
SlipDeregisterRunner(r) ==
  /\ conn[r] \in {"closing", "suspect"}
  /\ conn' = [conn EXCEPT ![r] = "gone"]
  /\ known' = known \ {r}
  /\ offers' = Selected(offers, {i \in DOMAIN offers : offers[i].runner # r})
  /\ Ends(r, IF proc[r] \in Up THEN "dead" ELSE proc[r], 0)
  /\ toRunner' = [toRunner EXCEPT ![r] = <<>>]
  /\ UNCHANGED <<requests, inProgress, accept, issued, old, tasks, requesterVars, faults>>
DeregisterRunner(r) ==
  LET lost == {t \in tasks : accept[t].runner = r} IN
  /\ conn[r] \in {"closing", "suspect"}
  /\ conn' = [conn EXCEPT ![r] = "gone"]
  /\ known' = known \ {r}
  /\ offers' = Selected(offers, {i \in DOMAIN offers : offers[i].runner # r})
  /\ tasks' = tasks \ lost
  /\ Answered(lost, "disconnected")
  /\ Ends(r, IF proc[r] \in Up THEN "dead" ELSE proc[r], 0)
  /\ toRunner' = [toRunner EXCEPT ![r] = <<>>]
  /\ UNCHANGED <<requests, inProgress, accept, issued, old, faults>>

-----------------------------------------------------------------------------
(* TaskRunner *)

(* A runner starts.  In internal mode the next one starts when the last has *)
(* exited (`onProcessExit`).                                                *)
StartRunner(r) ==
  /\ proc[r] = "unborn"
  /\ Mode = "internal" =>
       Current = {} /\ \A s \in Runners : s < r => proc[s] # "unborn"
  /\ proc' = [proc EXCEPT ![r] = "starting"]
  /\ UNCHANGED <<brokerVars, old, requesterVars, conn, toRunner, toBroker, runnerVars, faults>>

(* `add` up to `registerRunner`, with the exchange of runner:info. *)
RegisterRunner(r) ==
  /\ proc[r] = "starting" /\ conn[r] = "none"
  /\ conn' = [conn EXCEPT ![r] = "up"]
  /\ known' = known \cup {r}
  /\ toRunner' = [toRunner EXCEPT ![r] = <<[type |-> "registered"]>>]
  /\ UNCHANGED <<offers, old, requests, inProgress, accept, tasks, issued, requesterVars,
                 toBroker, proc, runnerVars, faults>>

(* Offer ids of r that nothing refers to any more. *)
Fresh(r, held) ==
  OfferIds \ (held \cup {o \in OfferIds : Contains(offers, Offer(r, o))}
                   \cup {m.offer : m \in {n \in ToSet(toBroker[r]) : n.type = "offer"}}
                   \cup {m.offer : m \in {n \in ToSet(toRunner[r]) : n.type = "accept"}})

(* `sendOffers` of r when it holds the given offers and runs the given      *)
(* tasks: one offer for each free place, after the messages ms.             *)
Places(held, status) ==
  MaxConcurrency - (Cardinality(held) + Cardinality({t \in Tasks : status[t] # "none"}))

SendOffers(r, held, status, ms) ==
  LET free == IF proc[r] = "offering" /\ r \notin launchers /\ Places(held, status) > 0
                THEN Places(held, status) ELSE 0
  IN  \E new \in SUBSET Fresh(r, held) :
        /\ Cardinality(new) = free
        /\ \A o \in new, p \in Fresh(r, held) \ new : o < p
        /\ open' = [open EXCEPT ![r] = held \cup new]
        /\ running' = [running EXCEPT ![r] = status]
        /\ toBroker' = [toBroker EXCEPT ![r] =
             @ \o ms \o [i \in 1 .. free |-> [type |-> "offer", offer |-> Nth(new, i)]]]
        /\ old' = old \ {Offer(r, o) : o \in new}

(* The timer of startTaskOffers: `deleteStaleOffers`, then `sendOffers`.    *)
(* The runner counts a little extra time; a fault is an offer that took     *)
(* longer than that to reach the broker.                                    *)
OfferTick(r) ==
  /\ proc[r] = "offering" /\ r \notin launchers
  /\ \E stale \in SUBSET open[r] :
       /\ faults' = faults + Cardinality({o \in stale : Offer(r, o) \notin old})
       /\ faults' <= MaxFaults
       /\ stale # {} \/ Places(open[r], running[r]) > 0
       /\ SendOffers(r, open[r] \ stale, running[r], <<>>)
  /\ UNCHANGED <<brokerVars, requesterVars, conn, toRunner, proc>>

(* Time passes: the offer expires at the broker. *)
OfferAges(r, o) ==
  /\ Contains(offers, Offer(r, o)) /\ r \notin launchers
  /\ Offer(r, o) \notin old
  /\ old' = old \cup {Offer(r, o)}
  /\ UNCHANGED <<brokerVars, requesterVars, conn, toRunner, toBroker, proc, runnerVars, faults>>

(* `onMessage`: a message of the given type arrives at the runner. *)
Arrives(r, type) ==
  /\ r \in Current /\ toRunner[r] # <<>> /\ Head(toRunner[r]).type = type
  /\ toRunner' = [toRunner EXCEPT ![r] = Tail(@)]
  /\ UNCHANGED <<brokerVars, requesterVars, conn, faults>>

Message(type, t) == [type |-> type, task |-> t]
Send(r, ms) == toBroker' = [toBroker EXCEPT ![r] = @ \o ms]
SetTask(r, t, status) == running' = [running EXCEPT ![r][t] = status]

(* `startTaskOffers`; the first offers follow with the first tick. *)
Registered(r) ==
  /\ r \notin launchers /\ Arrives(r, "registered")
  /\ proc' = [proc EXCEPT ![r] = IF @ = "starting" THEN "offering" ELSE @]
  /\ UNCHANGED <<old, open, running, toBroker>>

(* `offerAccepted` *)
OfferAccepted(r) ==
  LET m == Head(toRunner[r])
      taken == Cardinality(RunningTasks(r)) < MaxConcurrency /\ m.offer \in open[r]
  IN
  /\ r \notin launchers /\ Arrives(r, "accept")
  /\ open' = [open EXCEPT ![r] = @ \ {m.offer}]
  /\ IF taken THEN SetTask(r, m.task, "waitingForSettings") ELSE UNCHANGED running
  /\ Send(r, <<Message(IF taken THEN "accepted" ELSE "rejected", m.task)>>)
  /\ UNCHANGED <<old, proc>>

(* The launcher is not part of the repository.  The broker knows of it that *)
(* its offer does not expire and that it defers the task it gets; here it   *)
(* makes one offer.                                                         *)
LauncherOffers(l) ==
  /\ l \in launchers /\ Arrives(l, "registered")
  /\ proc' = [proc EXCEPT ![l] = "offering"]
  /\ \E o \in OfferIds : /\ open' = [open EXCEPT ![l] = {o}]
                         /\ Send(l, <<[type |-> "offer", offer |-> o]>>)
  /\ UNCHANGED <<old, running>>

LauncherDefers(l) ==
  /\ l \in launchers /\ Arrives(l, "accept")
  /\ open' = [open EXCEPT ![l] = {}]
  /\ Send(l, <<Message("deferred", Head(toRunner[l]).task)>>)
  /\ UNCHANGED <<old, running, proc>>

(* `finishTask`, after the messages ms *)
FinishTask(r, t, ms) == SendOffers(r, open[r], [running[r] EXCEPT ![t] = "none"], ms)

(* `taskCancelled` *)
TaskCancelled(r) ==
  LET t == Head(toRunner[r]).task IN
  /\ Arrives(r, "cancel")
  /\ CASE running[r][t] = "waitingForSettings" -> FinishTask(r, t, <<>>)
       [] running[r][t] = "running" ->
            SetTask(r, t, "aborting:cancelled") /\ UNCHANGED <<old, open, toBroker>>
       [] OTHER -> UNCHANGED <<old, open, running, toBroker>>
  /\ UNCHANGED proc

(* `receivedSettings` up to the run of the code *)
ReceivedSettings(r) ==
  LET t == Head(toRunner[r]).task IN
  /\ Arrives(r, "settings")
  /\ IF running[r][t] = "waitingForSettings" THEN SetTask(r, t, "running") ELSE UNCHANGED running
  /\ UNCHANGED <<old, open, toBroker, proc>>

(* The code ends: `taskExecutionSucceeded`, `taskExecutionFailed`. *)
TaskExecutionEnds(r, t, how) ==
  /\ r \in Current /\ running[r][t] \in {"running", "aborting:timeout", "aborting:cancelled"}
  /\ FinishTask(r, t, IF running[r][t] = "aborting:cancelled" THEN <<>> ELSE <<Message(how, t)>>)
  /\ UNCHANGED <<brokerVars, requesterVars, conn, toRunner, proc, faults>>

(* `taskTimedOut`: the runner's own timer for the task *)
TaskTimedOut(r, t) ==
  /\ r \in Current
  /\ \/ running[r][t] = "waitingForSettings" /\ FinishTask(r, t, <<Message("error", t)>>)
     \/ /\ running[r][t] = "running"
        /\ SetTask(r, t, "aborting:timeout") /\ UNCHANGED <<old, open, toBroker>>
  /\ UNCHANGED <<brokerVars, requesterVars, conn, toRunner, proc, faults>>

(* `stop`: SIGTERM or the idle timer; a stopping runner makes no offers but *)
(* still honours those it has made, and leaves once it runs nothing.        *)
StopRunner(r) ==
  /\ proc[r] \in {"starting", "offering"} /\ faults < MaxFaults
  /\ faults' = faults + 1
  /\ proc' = [proc EXCEPT ![r] = "stopping"]
  /\ UNCHANGED <<brokerVars, old, requesterVars, conn, toRunner, toBroker, runnerVars>>

SlipLeave(r) ==
  /\ proc[r] = "stopping"
  /\ Ends(r, "left", Len(toBroker[r]))
  /\ toRunner' = [toRunner EXCEPT ![r] = <<>>]
  /\ UNCHANGED <<brokerVars, old, requesterVars, conn, faults>>
Leave(r) ==
  /\ proc[r] = "stopping" /\ RunningTasks(r) = {}
  /\ Ends(r, "left", Len(toBroker[r]))
  /\ toRunner' = [toRunner EXCEPT ![r] = <<>>]
  /\ UNCHANGED <<brokerVars, old, requesterVars, conn, faults>>

-----------------------------------------------------------------------------
BrokerHandles(r) ==
  TaskOffered(r) \/ HandleRunnerAccept(r) \/ HandleRunnerReject(r) \/ TaskDone(r)
RunnerHandles(r) ==
  Registered(r) \/ OfferAccepted(r) \/ TaskCancelled(r) \/ ReceivedSettings(r)
LauncherHandles(l) == LauncherOffers(l) \/ LauncherDefers(l)

Step ==
  \/ \E q \in Requests : StartTask(q)
  \/ \E t \in Tasks : AcceptTimeout(t) \/ TaskTimeout(t)
  \/ \E r \in Runners :
       \/ BrokerHandles(r) \/ RunnerHandles(r) \/ LauncherHandles(r)
       \/ Crash(r) \/ HeartbeatFails(r) \/ ConnectionCloses(r) \/ DeregisterRunner(r)
       \/ StartRunner(r) \/ RegisterRunner(r) \/ OfferTick(r) \/ StopRunner(r) \/ Leave(r)
       \/ \E o \in OfferIds : OfferAges(r, o)
       \/ \E t \in Tasks : \/ TaskTimedOut(r, t)
                           \/ \E how \in {"done", "error"} : TaskExecutionEnds(r, t, how)

Next == Step /\ UNCHANGED launchers

Spec == Init /\ [][Next]_vars

(* Messages are handled, timers fire, connections close, the child process  *)
(* is restarted.  User code may run forever and block the event loop of its *)
(* runner, so a runner is sure to do something only while it runs no code.  *)
Responsive(r) == RunningTasks(r) \subseteq {t \in Tasks : running[r][t] = "waitingForSettings"}

Fairness ==
  /\ \A t \in Tasks : WF_stepVars(AcceptTimeout(t)) /\ WF_stepVars(TaskTimeout(t))
  /\ \A r \in Runners :
       /\ WF_stepVars(BrokerHandles(r)) /\ WF_stepVars(Responsive(r) /\ RunnerHandles(r))
       /\ WF_stepVars(ConnectionCloses(r)) /\ WF_stepVars(DeregisterRunner(r))
       /\ WF_stepVars(StartRunner(r)) /\ WF_stepVars(RegisterRunner(r))
       /\ WF_stepVars(Responsive(r) /\ OfferTick(r)) /\ WF_stepVars(Leave(r))
       /\ \A o \in OfferIds : WF_stepVars(OfferAges(r, o))
       /\ \A t \in Tasks : WF_stepVars(Responsive(r) /\ TaskTimedOut(r, t))

FairSpec == Spec /\ Fairness

-----------------------------------------------------------------------------
Messages ==
  [type : {"registered"}] \cup [type : {"offer"}, offer : OfferIds]
  \cup [type : {"accept"}, task : Tasks, offer : OfferIds, runner : Runners]
  \cup [type : {"settings", "cancel", "accepted", "rejected", "deferred", "done", "error"},
        task : Tasks]

(* Every variable has its type: the maps and lists of broker, requester and *)
(* runner, and the messages on their way.                                   *)
TypeOK ==
  /\ known \subseteq Runners
  /\ offers \in Seq([runner : Runners, offer : OfferIds])
  /\ old \subseteq [runner : Runners, offer : OfferIds]
  /\ requests \in Seq(Requests)
  /\ inProgress \in [Requests -> BOOLEAN]
  /\ accept \in [Tasks -> [st : Stages, request : Requests \cup {None},
                           runner : Runners \cup {None}]]
  /\ tasks \subseteq Tasks
  /\ issued \in 0 .. MaxTasks
  /\ request \in [Requests -> {"idle", "asked", "ready", "done"}]
  /\ answer \in [Requests -> Answers]
  /\ conn \in [Runners -> {"none", "up", "suspect", "closing", "gone"}]
  /\ toRunner \in [Runners -> Seq(Messages)]
  /\ toBroker \in [Runners -> Seq(Messages)]
  /\ proc \in [Runners -> Procs]
  /\ open \in [Runners -> SUBSET OfferIds]
  /\ running \in [Runners -> [Tasks -> TaskStatuses]]
  /\ faults \in 0 .. MaxFaults
  /\ launchers \subseteq Runners

(* A request is matched with one offer at a time: whatever expires, dies or *)
(* answers late, a task is accepted only for a request that is in the list  *)
(* and that its requester still waits for ("This shouldn't happen, and      *)
(* might be a race condition" in acceptOffer is unreachable).               *)
AcceptedIsWanted == \A t \in Tasks : accept[t].st \notin {"unlisted", "unwanted"}

(* The requester waits for a task exactly while the broker has one for it:  *)
(* no answer is lost with the task, and none is sent twice.                 *)
TasksAreAwaited ==
  /\ {accept[t].request : t \in tasks} = {q \in Requests : request[q] = "ready"}
  /\ \A t, u \in tasks : accept[t].request = accept[u].request => t = u

(* A request marked as in progress is being offered to a runner, so the     *)
(* mark cannot outlive the acceptance and starve the request.               *)
ClaimedIsOffered ==
  \A q \in Requests : request[q] = "asked" =>
    /\ Contains(requests, q)
    /\ inProgress[q] <=> \E t \in Tasks : accept[t].st = "waiting" /\ accept[t].request = q

(* Every task of the broker has a registered runner, so getRunnerOrFailTask *)
(* never fails, and the broker never gives a runner more tasks than it      *)
(* takes.                                                                   *)
RunnersCarryTasks ==
  /\ \A t \in tasks : accept[t].runner \in known
  /\ \A r \in Runners : Cardinality({t \in tasks : accept[t].runner = r}) <= MaxConcurrency

(* Offers and running tasks of a runner together stay within its            *)
(* concurrency, so an offer in time is never refused for lack of a place.   *)
OffersWithinCapacity ==
  \A r \in Runners : Cardinality(open[r]) + Cardinality(RunningTasks(r)) <= MaxConcurrency

(* A runner that stops gracefully fails no task: when its connection closes *)
(* after it left, no task of it is left to be lost.                         *)
GracefulStop ==
  [][\A r \in Runners :
       DeregisterRunner(r) /\ conn[r] = "closing" /\ proc[r] = "left" => UNCHANGED answer]_vars

(* Every request is answered, also when the code hangs, a runner dies or an *)
(* acceptance gets lost, as long as the process is restarted.               *)
RequestAnswered == \A q \in Requests : request[q] = "asked" ~> request[q] = "done"
=============================================================================
