# n8n in TLA+

This directory specifies the parts of n8n (a workflow automation server, TypeScript) whose correctness depends on the order of events:

- the life of an execution inside a main process in regular mode: its concurrency limit, its waits, its stops, and what a crash or a shutdown does to all of them;
- the task broker, which hands the code of Code nodes to task runners, and the two small algorithms that watch the runner process;
- the election of a leader among several mains, and the services that only the leader runs;
- queue mode: executions that travel from a main through Bull to a worker and back;
- the engine's loop over the nodes of a workflow;
- the activation of a workflow: its triggers, their failures and retries, and the users who save it meanwhile;
- the test webhooks of the editor.

TLC checks the specifications on small instances; TLAPS proves the safety properties of all of them for every instance.

Paths in this file are relative to `src/packages/`; `PROJECT.json` maps every definition to its lines.

## 1. The system

An n8n instance is one *main* process, or, in queue mode, several mains, workers and webhook processes around a Redis queue (Bull) and one SQL database.
A workflow is a graph of nodes; an *execution* is one run of it, with a row in the database whose status goes `new`, `running`, `waiting`, `success`, `error`, `canceled` or `crashed`.
Everything is JavaScript on one thread per process: a handler runs without interruption from one `await` to the next, and between two awaits any other handler may run.

| Component | State it keeps | Operations | What is hard |
|---|---|---|---|
| Concurrency control (`cli/src/concurrency/`) | per kind of execution a signed capacity and a list of waiters; an enabled flag | throttle, release, remove, has, removeAll, disable | one counter updated from five callers; no check against the limit |
| Active executions (`cli/src/active-executions.ts`) | map from execution id to the entry of its run, with its promise | add, attach, stop, finalize, shutdown | entries are keyed by execution, runs are not; the promise is settled by whoever comes first |
| Workflow runner (`cli/src/workflow-runner.ts`) | none of its own | run, runMainProcess, enqueueExecution, processError | awaits between throttle, row, entry and run |
| Wait tracker (`cli/src/wait-tracker.ts`) | timers by execution id | poll, startExecution, stopExecution, startTracking, stopTracking | query and timers are two steps; resumes race with stops and webhooks |
| Waiting webhooks (`cli/src/webhooks/`) | none | executeWebhook | checks a status that the throttle keeps stale |
| Stop (`cli/src/executions/execution.service.ts`) | none | stop | reads the row, then acts on three in-memory structures, then writes the row |
| Execution repository (`cli/src/databases/repositories/`) | the row | createNewExecution, setRunning, updateExistingExecution, stopBeforeRun, stopDuringRun, markAsCrashed, getWaitingExecutions | unconditional writes: the last one wins |
| Start command, event bus recovery (`cli/src/commands/`, `cli/src/eventbus/`, `cli/src/executions/execution-recovery.service.ts`) | none, log files | boot, recovery, rerun of enqueued executions, stopProcess | the server is live before the boot is over |
| Scaling (`cli/src/scaling/`) | Bull queue, job map of a worker, recovery timer | addJob, stopJob, process, progress messages, recoverFromQueue, pause on shutdown | stalled jobs, lost messages, reads of database and queue that are not atomic |
| Multi-main setup (`cli/src/scaling/multi-main-setup.ee.ts`) | leader key with a time to live; each main's role | checkLeader, tryBecomeLeader, shutdown | get, compare and renew are separate Redis calls |
| Task broker (`cli/src/task-runners/`) | known runners, requesters, offers, requests, tasks | register, deregister, offer, request, accept, defer, cancel, complete | two-step acceptance over websockets with timeouts |
| Task runner (`@n8n/task-runner/`) | offers, running tasks | offer, accept, cancel, settle | concurrency bound across offers and tasks |
| Engine (`core/src/execution-engine/workflow-execute.ts`) | execution stack, waiting nodes, run data | one pass of the loop per node, retries, waits, cancel | merge nodes, two orders (v0, v1), resume from a stored stack |
| Partial executions (`core/src/execution-engine/partial-execution-utils/`) | none | graph algorithms | pure functions on graphs with cycles |
| Active workflow manager (`cli/src/active-workflow-manager.ts`), active workflows (`core/src/execution-engine/active-workflows.ts`), update of a workflow (`cli/src/workflows/workflow.service.ts`) | the triggers in memory, queued retries, activation errors | add, remove, retry, emitError, update | an activation is in flight for as long as its triggers take to start; saves, failures and retries meet it |
| Test webhooks (`cli/src/webhooks/test-webhooks.ts` and its registrations) | a timer by webhook, a hash of registrations shared by all workflows | needsWebhook, executeWebhook, cancelWebhook, deactivateWebhooks | waits end by a call, a timer or a cancellation while others begin |
| Event bus (`cli/src/eventbus/`) | unsent messages, log writer | send, confirm, resend | at-least-once delivery over restarts |
| Collaboration, push, cache, deduplication, pruning, shutdown service | small maps and timers each | see `PROJECT.json` | expiry, leadership, refresh on miss |

The components interact by calls inside a process (the runner calls active executions, which call the concurrency control), by callbacks (the settlement of a promise releases the slot), by the database row (the only state that survives), and in queue mode by Redis.

### What makes it correct

- *Slots.* Capacity shown, calls blocked and units held always add up to the limit; nobody waits next to a free unit; whoever ends gives its unit back; waiters leave in order.
- *Rows.* An execution that was accepted is run again after a crash; what has been reported to its caller is final.
- *Runs.* An execution that was handed to the queue has one run at a time, and a finished one is not run again unless a process ended or a call failed.
- *Shutdown.* Nothing new starts while the process drains; it ends once the entries are gone.
- *Tasks.* A request is matched with one offer at a time and answered once; broker and requester agree on which tasks exist; a runner is given no more than it can run; code that hangs, a runner that dies and an acceptance that gets lost delay an answer and never prevent it.
- *Runner process.* The reason of an exit is found whichever comes first, the exit or the disconnect; a process that exits again and again stops n8n, one that exits now and then does not.
- *Leadership.* The leader is the main that holds the key; there is one again after every crash; what only a leader may do starts and stops with the role, however the role changes during a start or while an old service is still stopping.
- *Queue mode.* Somebody answers for every execution in progress: its call, the queue, a run, a stop, or the recovery after a fault.
- *Activation.* What runs is what is stored; an active workflow that is down is tried again and shows an error; an inactive one runs nothing.
- *Test webhooks.* Every wait for a call ends: until then somebody is left to end it.
- *Engine.* Which nodes run depends on the data and the links, not on the order of the stack; a node with several inputs waits for what may still come, and no longer.

## 2. Modules

| Module | Models | Code it stands for |
|---|---|---|
| `ConcurrencyQueue` | the pure operators of a queue, a record `[capacity, items]` | `concurrency-queue.ts` |
| `RegularMode` | the main process in regular mode: concurrency control, active executions, runner, wait tracker, waiting webhooks, stop, repository, boot and shutdown | `concurrency-control.service.ts`, `active-executions.ts`, `workflow-runner.ts`, `wait-tracker.ts`, `execution.service.ts` and others |
| `TaskBroker` | broker, requester, WebSocket server, runners and runner process, with a channel each way | `task-broker.service.ts`, `task-requester.ts`, `task-runner-ws-server.ts`, `task-runner-process.ts`, `@n8n/task-runner` |
| `SlidingWindowSignal` | how a disconnect learns why the process exited | `sliding-window-signal.ts` |
| `RestartLoopDetector` | the count of exits in an interval | `task-runner-process-restart-loop-detector.ts` |
| `RunnerProcessExits` | composes the two: both listen to the exits of the process | `task-runner-process.ts`, `internal-task-runner-disconnect-analyzer.ts` |
| `LeaderElection` | the leader key and the checks of the mains, each Redis command a step | `multi-main-setup.ee.ts` |
| `MultiMain` | composes the election with what follows it: wait tracker, queue recovery, pruning, triggers of workflows | `start.ts`, `wait-tracker.ts`, `scaling.service.ts`, `pruning.service.ts`, `active-workflow-manager.ts`, `active-workflows.ts` |
| `QueueMode` | main, Bull, workers and database in queue mode | `scaling.service.ts`, `job-processor.ts`, `workflow-runner.ts`, `execution.service.ts`, `worker.ts`, `message-event-bus.ts`, `execution-recovery.service.ts` |
| `NodeStack` | the execution stack and the waiting nodes of one run of a workflow | `workflow-execute.ts` |
| `WorkflowActivation` | the activation of one workflow on a single main | `active-workflow-manager.ts`, `active-workflows.ts`, `workflow.service.ts` |
| `TestWebhooks` | the test webhooks of several workflows on a single main | `test-webhooks.ts`, `test-webhook-registrations.service.ts` |
| `MCRegularMode`, `MCTaskBroker`, `MCNodeStack`, `MCWorkflowActivation`, `MCTestWebhooks` | constants, symmetry and small workflows of the TLC instances | |
| `RegularModeProofs`, `TaskBrokerProofs`, `RunnerProcessExitsProofs`, `MultiMainProofs`, `QueueModeProofs`, `NodeStackProofs`, `WorkflowActivationProofs`, `TestWebhooksProofs` | theorems about the module of that name, and those it composes, with their lemmas | |

### State and actions of RegularMode

A *call* (constant `Calls`) is one invocation of `WorkflowRunner.run`. Several calls may serve one execution: a resume after a wait, two resumes at once, a rerun at boot. That distinction is the point of the model: the code keys entries by execution, while slots are taken by calls.

| Variable | In the code |
|---|---|
| `queues`, `enabled` | `ConcurrencyControlService.queues`, `isEnabled` |
| `active` | `ActiveExecutions.activeExecutions`; the call stands for its entry and promise |
| `workflow` | the `workflowExecution` attached to the entry |
| `timers`, `polled` | `WaitTracker.waitingExecutions`; the rows between the query and the loop of `getWaitingExecutions` |
| `db` | status and `waitTill` of the row |
| `pc`, `exec`, `lane`, `outcome`, `aborted`, `canceling` | where a call is between two awaits, its execution, the queue of its mode, what the final hook saves, whether its run was cancelled, whether the hook of that cancel is still pending |
| `slot` | history: which unit the call holds |
| `stop` | the stop requests of users, between two awaits |
| `phase`, `boot` | boot, recovery, rerun, up, stopping, draining, down; rows the boot has read |
| `removals`, `faults`, `crashes` | history and bounds |

An action is the code between two awaits. `Throttle`, `MarkRunning`, `Register` are `ActiveExecutions.add`; `Deny`, `BeginRun`, `Launch` are `run` and `runMainProcess`; `Finish`, `Save`, `SaveCancel` are the end of the engine and its hooks; `Settle`, `TimeOut`, `StopActive` settle the promise of an entry, whose `finally` releases the slot and deletes the entry in the same step. `Launch` on an execution whose entry is gone leaves an orphan run that nobody awaits, as `attachWorkflowExecution` throws after the run was started.

Data is abstracted to what the properties tell apart. Run data, node errors and settings are left out; a mode is its *lane*, the queue it is limited by or `Unlimited`. The lane of the saved mode and the lane in which a webhook resumes are different constants, because `executeWebhook` resumes any execution in mode `webhook`. Of `waitTill` only "none", "later" and "due within the next polls" are kept. `createNewExecution` is part of the step that calls the throttle next; `unknown` rows are treated as no row.

### State and actions of TaskBroker

Broker and requester live in the main process and call each other without waiting for I/O. So the handling of one message, with every promise it settles, is one action: `HandleRunnerAccept` includes the rest of `acceptOffer`, the requester's answer with the settings, and the message that carries them to the runner. Messages between broker and runner are on their way for any time, in order, and those on their way to the broker when the runner dies arrive up to some point (`Ends`).

| Variable | In the code |
|---|---|
| `known`, `offers`, `requests`, `tasks` | `knownRunners`, `pendingTaskOffers`, `pendingTaskRequests`, `tasks` of `TaskBroker` |
| `inProgress` | `acceptInProgress` of a request, which belongs to the object: an object that is twice in the list has one mark |
| `accept` | one call of `acceptOffer` for each task id: waiting, late (two seconds are over, but the `runnerAcceptRejects` entry is still there), over, accepted |
| `request`, `answer` | the promises of `TaskRequester.startTask`, and how they were settled |
| `conn`, `toRunner`, `toBroker` | the connection at `TaskRunnerWsServer` and its messages |
| `proc`, `open`, `running` | the runner, its `openOffers`, and the status of its `runningTasks` |
| `old`, `issued`, `faults` | offers whose time is over at the broker; bounds |

A `waiting` acceptance ends by an answer of the runner or after two seconds (`AcceptTimeout`), never by a disconnect: `deregisterRunner` fails the tasks of the runner and leaves its acceptances to their timers. A runner process never reconnects: it takes a new id at every start, so every incarnation is a runner of its own. In internal mode the next one starts when the last has exited; `ForceRestart` kills whichever runs now, and so does the code. The heartbeat timer of the server does not kill the connection at once: `removeConnection` first awaits the reason of the disconnect, with the runner still registered (`conn = "suspect"`).

`offers` age (`OfferAges`) at any time; the runner drops its own copy a little later (`OfferTick`), unless the offer was slow, which is a fault. Without this ageing and renewal nothing would ever settle a request whose acceptance failed: neither a refusal nor a timeout calls `settleTasks`.

The task runner launcher is not in the repository. Its two actions are modelled from how the broker treats it: an offer that does not expire, and a deferral that makes the broker put the request back until the runner it starts has connected. Which of the runners from outside are launchers (`launchers`) is chosen at the start and stays. `handleRunnerDeferred` rejects a request that is still in the list and `acceptOffer` then pushes it again, so a deferred request is in the list twice, as one object.

Left out: what a task computes, the data, node types and RPC calls relayed between runner and requester (the relay keeps no state at the broker), more than one task type, the drain of the WebSocket server at shutdown, authentication.

`RunnerProcessExits` joins the two listeners of the `exit` event: `Exit` is one emission, which both handle; `Ask` and `GiveUp` are `getSignal` and its timer. The clock is the detector's; the emitter of the signal is the history of exits. `asked`, `answered`, `emitted` and `exits` are histories.

### State and actions of LeaderElection and MultiMain

| Variable | In the code |
|---|---|
| `key` | the leader key in Redis: whose id it holds (`Gone`: of a process that has ended) and whether it has a time to live |
| `up`, `check`, `role` | the main process; its `checkLeader`, between two commands; `InstanceSettings.instanceRole` |
| `late` | history: the key of a main that was up has expired |
| `stage` | how far a main has come with its services in `start.ts` |
| `tracking`, `found`, `timers`, `stale` | `mainTimer` of the wait tracker; rows of a poll under way; `waitingExecutions`, by whether the timer of the entry is set or was cleared by a stepdown |
| `row` | the rows of the executions that wait, which all mains share |
| `sweep`, `pruning` | `queueRecoveryContext` with the timer it holds and the recoveries besides; the schedules of the pruning |
| `removals`, `adds`, `starting`, `entry`, `live`, `closing` | handlers of `leader-stepdown` and `leader-takeover` under way; triggers that start; the trigger of the workflow in `ActiveWorkflows`; triggers that run; triggers that are being closed |

Redis executes a command in one step with the handling of its reply. The check of a main is over before its next one begins, as checks are seconds apart and take three commands. `Expire` of the key of a main that is up costs one of `MaxFaults`, since the main renews it several times within the time to live; that of a main that ended is free.
The role changes first, then the listeners of the event are called one by one. What they do before they wait is part of the step of the election (`CheckLeader`); what follows an `await`, reading the licence again, closing or starting a trigger, is an action of its own, so the handlers of a stepdown and of the takeover after it may overtake each other.
`sweep` and the variables after it are those of one main, `Me`, and of one workflow: a main does not touch those of another, and workflows do not touch each other.

Left out: a Redis that loses the key, a command whose reply is lost, activation errors and their retries, webhooks, activation through the API.

### State and actions of QueueMode

| Variable | In the code |
|---|---|
| `row` | the status of the execution in the database |
| `call`, `active` | `WorkflowRunner.enqueueExecution` at its awaits; the entries of `ActiveExecutions` on the main |
| `stop`, `cancel` | `ExecutionService.stop` and `ScalingService.stopJob` at their awaits |
| `job` | the job in Bull, its worker, and how often it has stalled |
| `run`, `abort` | `JobProcessor.processJob` on a worker at its awaits; `abort-job` messages on their way to it |
| `sweep` | `recoverFromQueue` on the main, one step per query |
| `up`, `log`, `mend` | the worker processes; executions with node events in the last two generations of a worker's event log; what a booting worker is about to mark |

Bull and the end of a process are external: a job that was picked up is active, stalls when nobody renews it and goes back to the queue or fails once it stalled too often; `finished()` answers also when the job ended before the call; a job that was removed never answers. A worker so busy that it loses the lock of a job it still runs is left out, and so are several mains: one main makes all calls and runs the recovery, and is back at once after a crash, knowing of no call. Other executions exist in the model only in that the queue of the recovery may hold something else or nothing. A booting worker reads and then marks all its leftovers at once.

Left out: the pause of the queue by a single main, metrics, responses to webhooks, resuming a waiting execution (see `RegularMode`).

### State and actions of NodeStack

| Variable | In the code |
|---|---|
| `links`, `rank`, `enough`, `filter` | the workflow: connections, the position of a node on the canvas, `requiredInputs`, and the `runNodeFilter` of a run up to a destination |
| `stack`, `waiting`, `order` | `nodeExecutionStack`; `waitingExecution` with the data of an entry by input; the order of its keys |
| `ran`, `status` | runs in `resultData.runData`; how the loop ended |
| `checked`, `sent`, `used` | histories: the look at the waiting nodes at the end of the last pass, data sent, data received |

One action is one pass of the loop: a node outside the filter is skipped, a node returns nothing, fails, or runs with data on some of its outputs. `Successors` is `addNodeToBeExecuted` for each link with data, in the order of the canvas; `Release` is the look at the waiting nodes once the stack is empty. Data are named by the run and the output they come from.
What the code computes by recursion or by sorting is defined without either, so that it can be reasoned about: the ancestors of a node are the least set that holds its sources and theirs, a link stands in the order at the number of links before it, and the loop over the links is a recursive function of their number.

Left out: the order `v0` with its forced inputs, retries, pinned data, the wait for a time or a webhook (it saves this state and starts from it again), cycles, AI connections, and the sources of the data.

### State and actions of WorkflowActivation

| Variable | In the code |
|---|---|
| `wf` | the workflow: how many triggers and polls it has, and the bounds of what may happen to it |
| `row` | the workflow in the database: `active`, and its content as a version |
| `job` | what is in progress, at its awaits: `WorkflowService.update` of a user; the activation at boot; retries; the removal that a failing trigger begins |
| `entry`, `live`, `crons` | whether `ActiveWorkflows.activeWorkflows` has the workflow, and with which triggers; the triggers that run, known to an entry or not; the scheduled polls |
| `queue`, `lost` | the entry of `queuedActivations`; retry timers that are set while their entry was overwritten |
| `error`, `refused` | what `ActivationErrorsService` shows; an authorization error at boot, which is not retried |
| `clean` | history: whatever began, began with nothing else in progress, and no activation failed halfway |
| `crossed` | history: a trigger failed while an activation was under way, which at its end drops the retry and the error of that trigger |

`StartNode` is one round of the loop in `ActiveWorkflows.add` and, for the last node, the rest of the activation: the new entry replaces the one there may be, the queued retry is removed and the error deregistered. `StartFails` is a round that throws, with the catch of whoever called: the boot queues a retry, a retry queues the next, an update sets the workflow inactive (`Revert`). `Fire` begins the activation of a retry with the content it was made with. `TriggerFails` is `emitError`: the removal it starts is not awaited, so it is a job of its own.

Left out: the webhooks of the workflow, closing functions that throw, the growing delay of retries, activation through the public API, several mains (`MultiMain` has the hand-over, without failures).

### State and actions of TestWebhooks

| Variable | In the code |
|---|---|
| `call`, `timer` | a call of `needsWebhook` at its awaits, webhook by webhook, and the timer it sets before; `cut` is a timer that was cleared with webhooks still to register |
| `timeouts` | `TestWebhooks.timeouts`: whose timer a call of the webhook will clear |
| `regs` | the hash of the registrations |
| `jobs` | how many requests and deactivations are at which await, for which webhook or workflow |
| `stuck` | history: a third party has refused to delete a webhook |

A webhook is registered before it is created at its third party (`Register`, `Create`), and registered again after. `Wipe` is `deregisterAll`, which deletes the hash. A ping (`Ping`) is a request whose node does not run the workflow.

Left out: the hand-over of a call between mains, the time to live of the hash in Redis, messages to the editor, dynamic paths, paths that two workflows share.

### Mistakes on purpose

Definitions named `Slip...` are plausible mistakes in the definition that follows them. No specification uses them: they exist so that each property can be seen to fail when the code is wrong in that way.

## 3. Runs

`CHECK_DEADLOCK FALSE` is set in every run: all these systems really may stop, once the calls, tasks or checks an instance allows are used up, the clock reaches its bound, or a workflow has ended. Symmetry is used in runs without a liveness property only.

### Regular mode

All instances have one limited kind with limit 1 ("production"), the smallest in which a call can be blocked, released and removed. Two calls compete, the third makes order and removal visible.

| Run | Instance | Question |
|---|---|---|
| `throttle` | one limited and one manual execution, 3 calls, 1 stop, timeouts, waits, 1 failed write | do slots add up, are they used, and returned, whatever is stopped, denied, timed out or lost, and when one execution is run by two calls at once in two lanes? |
| `queue_lives` | 3 executions, 3 calls, 1 failed write, 1 crash or shutdown, fairness | is every enqueued execution run again, does nothing start during the drain, does every blocked call get its turn, in order, and does a shutdown end? |
| `limit` | 3 executions, 2 stops | what the documentation says of the limit and the code does not do |

Bounds: `Calls` bounds the invocations of `run`, `Stops` the stop requests, `MaxFaults` the failed writes, `MaxCrashes` the restarts; the rest is finite by itself. Every hazard of `PROJECT.json` needs at most two executions and a third call, one stop and one fault or crash (the violation of the limit two stops), so the bounds let each happen, alone and combined with one other. `queue_lives` has neither stops nor waits: they are in `throttle`, and the theorems about its safety properties hold with both.

Fairness. The event loop eventually runs a handler whose await is over and the database answers, hence weak fairness of every step of a call, of a stop request that was accepted, of the boot and of the drain. `Finish` is among them: the workflow itself is assumed to end. Nothing makes users, timers, webhooks, failures, crashes or a shutdown happen. The kill timer of a shutdown (`base-command.ts`) is a `Crash`, without fairness: `ShutdownEnds` is about the regular way out.

What the exceptions in the properties say about the code:

- `NoLeak` excuses two cases, and both occur: a write that fails in `add` or in `runMainProcess` keeps the slot (or the entry) for ever, and when two calls run one execution one of the two slots is lost, as they share an entry.
- `HoldersBounded` is what remains of the documented limit: each stop of a *queued* execution can push one more execution past the limit.
- `QueueMoves` excuses a queue whose whole limit has leaked, `ShutdownEnds` an entry left by a failed write.

`limit` finds `WithinLimit` violated: `remove` of a queued item releases the next item although no execution ended.

### Task broker

| Run | Instance | Question |
|---|---|---|
| `broker` | 2 requests, 2 runners from outside with one place each, either of them perhaps a launcher, 3 task ids, 1 fault | is every request matched once, a deferred one too, do tasks and waiting requesters agree, does a graceful stop fail nothing? |
| `broker_restart` | 1 request, 3 incarnations of a child process, 1 fault, fairness | is the request answered after a crash, a stop, a lost heartbeat, a late answer or code that hangs? |

A fault is a crash, a stop, a lost heartbeat, an acceptance that is late although its runner is up, or an offer slower than the runner's allowance; each costs one of `MaxFaults`. `MaxTasks` bounds the acceptances: a request needs one, each fault or deferral one more. `OfferIds` needs more ids than a runner has places, since an id is used again only when nothing refers to it (the code draws random ones). Requests, and runners from outside, are interchangeable (`Symmetry`). Two runners are enough for a late answer of the one to meet the acceptance of the other, three incarnations for a crash, its restart and a forced restart.

Fairness (`FairSpec`): messages are handled, timers fire, closed connections are removed, and the child process is started again. User code may run for ever and block the event loop of its runner; therefore the end of the code has no fairness, and the steps of a runner have it only while it runs no code (`Responsive`). No request has to come and no fault has to happen. Under these assumptions `RequestAnswered` holds in internal mode, because the timeout of a task kills the process. External mode is checked for safety only: a runner that hangs is merely sent a cancel, and nothing in this code makes another runner connect.

### Exits of the runner process

| Run | Instance | Question |
|---|---|---|
| `exits` | 3 exits within 3 ticks are a loop, up to 6 exits, window of 2, clock to 7 | is every alarm true, is a dense loop found, and is the reason of an exit told truly, whichever comes first? |

Six exits are one more than the 2 * 3 - 1 that must be detected, and the clock lets the interval of the detector, and the window of the signal, pass twice. The interval of the detector does not slide, so that `maxCount` exits that fall into two intervals go undetected; `DenseLoopIsFound` is what holds.

### Several mains

| Run | Instance | Question |
|---|---|---|
| `multi_main` | 2 mains, 1 execution that waits, 1 active workflow, 1 fault (crash, shutdown or expired key), fairness | is the leader the holder of the key, is there one again and again, do its services follow the role, is a wait resumed? |

Two mains are enough for a takeover while the former leader is still up, gone or starting, and for the way back. One fault in a run of any length starts any number of checks and a restart; further faults repeat what one does, except that two expiries can pass the key to and fro: that case is left to the proofs, which hold for any `MaxFaults`. One wait is enough, since timers and rows of several do not meet.

Fairness (`MultiMainFairness`): mains are started again and come up with their services, checks recur and commands are answered, the key of a process that ended expires (`ExpireUnrenewed`), polls recur, timers fire. User code behind a trigger has none.

Exceptions: `LeaderHoldsKey` holds until a key expired in the hands of a main that is up (`late`); from then on two mains may lead until the former one checks. `LeaderAgain` and `WaitsResume` excuse a key frozen by a crash between `setnx` and its time to live. `WaitsResume` also excuses an entry whose timer a stepdown cleared: `stopTracking` leaves it in `waitingExecutions`, so after the next takeover the poll takes the execution for scheduled.

### Queue mode

| Run | Instance | Question |
|---|---|---|
| `queue` | 1 execution, 2 workers, a job may stall once, 2 processes that end, 1 stop, 1 error, fairness | who answers for the execution, and do it and its call come to an end? |

Executions do not share anything but the batch of the recovery, where "nothing else is queued" and "something else is" are both tried; hence one. Two workers let a job be picked up again while the first worker still ends; two deaths kill the worker and then its successor or the main. A job that stalls a second time fails, so `MaxStalled` 1 shows both outcomes.

Fairness (`FairSpec`): what a process has begun goes on, runs end, Bull's checks for new and stalled jobs fire, the recovery recurs, and a worker that ended is started again. Calls, stops, errors and the end of a process need not happen.

Exceptions: `EntrySettles` excuses a call whose hooks failed while the execution succeeded (`left`), whose entry stays in memory. `ExecutionEnds` excuses an execution in nobody's hands (`Dangling`): the recovery marks it, except that it marks nothing while the queue is empty. `AccountedFor` and `FinishedIsNotRerun` speak of the time before the first fault; with faults a finished execution can run again, when its worker ends between saving the row and completing the job.

### Engine

| Run | Instance | Question |
|---|---|---|
| `engine` | a start node with two outputs and three nodes, one or two of them with two inputs, every way to link them, three canvases, three demands, every filter | which nodes run, how often, and in which order? |
| `overtaken` | one workflow with three sources of one input | are data that wait ever overwritten? |

Three nodes after the start let a node with two inputs wait for another that waits as well, which is what the look at the ancestors is for. No fairness is needed: a workflow without cycles ends by itself, and the properties are about what has happened by then. The instance has no cycles, which the theorems do not ask for. `NodesRunOnce` and `RanAsDrawn` are about inputs with one source; `RanAsDrawn` leaves out executions with a filter, with an error, and those whose last node had no result, since the look at the waiting nodes is skipped then and what runs depends on the canvas.

### Activation of a workflow

| Run | Instance | Question |
|---|---|---|
| `activation` | four workflows: one trigger, 3 failures, 2 users with 2 calls; two polls, 2 failures, 2 users with 2 calls; two triggers and a poll, no failure, 1 user with 5 calls; a trigger and a poll, 2 failures, 1 user with 1 call; fairness | does an active workflow come up again and show an error until then, whoever saves it meanwhile, and is what runs what is stored? |

The workflow is chosen in the initial state (`wf`). Three failures are needed for a timer to be overwritten and still fire (`lost`): a trigger fails, fails again during the retry, and the retry fails as well. Two calls of users overlap each other and a retry; five let one user activate, save, deactivate, activate and save again. With a trigger and a poll, the trigger can fail while its own activation still starts the poll (`crossed`).

Fairness (`FairSpec`): queries are answered, the timers of retries fire, a node that starts ends with success or failure and one that closes closes. Failures and calls need not happen. Failures are bounded and afterwards every start succeeds, so `ComesUp` says that nothing but failing nodes keeps a workflow down.

Exceptions: `DownIsRetried` and `ComesUp` excuse an authorization error at boot, which is not retried. They and `DownIsShown` excuse a trigger that failed while an activation was under way (`crossed`): the end of the activation drops its retry and its error. `RunsAsStored` speaks of calls and retries that do not overlap, and of starts that do not fail halfway (`clean`). Section "What the code does and no property forbids" says what happens in these cases.

### Test webhooks

| Run | Instance | Question |
|---|---|---|
| `wait` | a workflow with one webhook and one with two, 2 calls, 1 fault of a third party, fairness | is somebody left to end each wait (`WaitIsWatched`), and does it end? |

Two calls listen to both workflows or twice to one. With `MaxJobs` (2) requests and deactivations in progress, users wait; the code never does.

Fairness (`FairSpec`): timers fire, third parties and the nodes of webhooks answer. Third parties answer within the two minutes of the timer: a timer fires only when its call of `needsWebhook` is over.

`WaitIsWatched` and `WaitEnds` excuse a third party that refuses to delete a webhook (`stuck`): `deactivateWebhooks` then keeps the registrations, and no timer is left. They also excuse a call that lost its timer with webhooks still to register (`cut`), which needs a workflow with two.

### What the code does otherwise than it says

Two runs find a property violated that the repository states; `PROJECT.json` quotes the lines.

- `limit`: stopping a queued execution lets the next one run beside the one that holds the only slot.
- `overtaken`: the index of a new waiting entry is the number of entries. Once an entry with a lower index was completed and deleted, the new one takes the index of one that still waits, and the data of that one are lost.

### What the code does and no property forbids

The models contain the following, as the code does, and no run asserts the contrary.

- The start of a run overwrites the status that a stop wrote after it passed the throttle (`cli/src/workflow-runner.ts:259`).
- A webhook resumes an execution that another resume holds before the throttle, since the row is still `waiting` (`cli/src/webhooks/waiting-webhooks.ts:101`): it runs twice.
- A wait that a stop left on the row is found by the next poll; only crashed rows are excluded (`execution.repository.ts:575`). A stop looks in the queue of the saved mode, while a resume by webhook waits in the queue of webhooks (`execution.service.ts:451`).
- The recovery at boot takes every running row for a leftover (`message-event-bus.ts:148`), leaves a row `running` when the logs hold no node of it (`execution-recovery.service.ts:69`), and the rerun takes every `new` row, while the server already accepts executions (`start.ts:320`): those may run twice.
- `forceRestart` kills whichever runner process runs by then (`task-runner-process.ts:136`).
- A takeover during the start adds the triggers of active workflows twice; the second replaces the first in memory while the first still runs (`active-workflow-manager.ts`).
- The recovery of queue mode reads the rows before the queue, so an execution that left the queue in between is marked as crashed although it ended (`scaling.service.ts:466`).
- A worker that starts marks executions as crashed that it had put to wait and that would have been resumed: its logs hold no end of an execution, as only a main writes that event (`message-event-bus.ts:131`, `execution-recovery.service.ts:125`; `Recover` in `QueueMode`).
- The end of an activation removes the queued retry, also that of a trigger which failed during this activation and stays down then (`active-workflow-manager.ts:577`). Only the timer of a retry is removed, not a retry that has begun, so two retries may run in parallel (line 705).
- An activation that fails at its second trigger leaves the first running, although the workflow is set inactive; no entry knows it (`active-workflows.ts:96`). A deactivation that meets an activation in flight finds no entry and does nothing; the activation then enters the workflow (`active-workflow-manager.ts:784`).
- The webhooks of a test share a timer: if the wait for the first ends while the second is still to be registered, the second stays registered (`test-webhooks.ts:165`). Deactivating the test webhooks of one workflow drops the registrations of all (line 433).
- A retry activates the content it was queued with, whatever was stored since; the save that follows removes and adds it again (`active-workflow-manager.ts:672`).
- A test webhook that is listened to twice ends early, by the timer of the first call (`test-webhooks.ts:319`).
- A node with three inputs may run without the source of one, because an entry that stays incomplete has its sources reset (`workflow-execute.ts:889`; sources are not in the model). A main whose `setnx` succeeded but whose reply was lost stays a follower (`multi-main-setup.ee.ts:111`; no reply is lost in the model).

## 4. Proofs

All constants are arbitrary sets and numbers within the named assumptions (`ConstantsAssumption` and its like), which TLC evaluates in every run of the module.

| Module | Theorems |
|---|---|
| `RegularModeProofs` | `TypeCorrect`, `SlotsConserved`, `CapacityIsUsed`, `ExcessBounded`, `NothingLeaks`, `NothingForgotten`, `DrainAdmitsNobody`, `QueueInOrder` |
| `TaskBrokerProofs` | `OffersFitRunner`, `BrokerTypes`, `AcceptsWanted`, `AwaitsTasks`, `OffersClaimed`, `CarriesTasks`, `StopsGracefully` |
| `RunnerProcessExitsProofs` | `AlarmsAreTrue`, `DenseLoopsAreFound`, `AnswersAreTrue`, `ExitsAreDetected` |
| `MultiMainProofs` | `LeaderIsHolder`, `HolderIsLeader`, `MultiMainElects`, `MultiMainTypeCorrect`, `TrackingIsTheLeaders`, `LeadersServe`, `ActiveWorkflowsRun` |
| `QueueModeProofs` | `QueueTypeCorrect`, `RunsAreSingle`, `ReportsAreFinal`, `ExecutionsAreAccountedFor`, `FinishedStaysFinished` |
| `NodeStackProofs` | `NodeStackInvariant`, `NodeStackTypeCorrect`, `NodeStackTopLeftFirst`, `NodeStackNodesRunOnce`, `NodeStackRanAsDrawn` |
| `WorkflowActivationProofs` | `ActivationInvariant`, `ActivationTypeCorrect`, `ActivationDownIsRetried`, `ActivationDownIsShown`, `ActivationRunsAsStored` |
| `TestWebhooksProofs` | `WaitInvariant`, `TestWebhooksTypeCorrect`, `TestWebhooksWaitIsWatched` |

Every invariant and every action property of a passing run is stated by one of them. The types of the modules before `NodeStackProofs`, `OffersWithinCapacity`, `ClaimedIsOffered` and `HolderLeads` are proved and no longer part of a run. For each inductive invariant TLC was asked first.

Induction over data needs no theorem with an operator parameter: `Least` (a set of numbers that is not empty has a least one, from the well-foundedness of `<` on the naturals) and `UpTo` (what holds of 0 and is passed on from `i` to `i + 1` holds up to `N`) are first-order, the property being a set of numbers. Loops are recursive functions of a number or positions of a sequence, and the theorems about what they do go through `UpTo`.

### RegularMode

`SlotConservation` alone is not inductive: a release must find the unit in the hands of the call it is released for. The invariant `IInv` adds that the items of a queue are distinct blocked calls of that lane (`ItemsInv`), that a call holds no unit before the throttle and holds the unit of its lane until it is registered (`CallsInv`), and that the call behind an entry still holds its unit while the control is enabled (`EntriesInv`). `CapacityInv` carries the other two: a queue with waiters shows `capacity + Len(items) <= 0`, and `capacity + Len(items) + removals >= 0`.
The argument: a step of a call that touches no queue preserves `IInv` (`GateMove`, `GateStart`, `GateRegister`, `GateFrame`); the throttle takes a unit or a place (`GateThrottle`); whoever settles a promise releases the unit of the call behind the entry and passes it to the first waiter (`SettleGate`); a removal lets two calls leave the queue for one unit (`GateRemove`); a process that ends resets everything (`GateDie`).

What becomes of the calls needs `LifeInv`, which adds to `IInv`: the control is disabled while the process drains (`DrainInv`) and an idle call has no execution (`IdleInv`); a call past its first write has a row that is no longer `new` and never is again (`RowInv`); during a boot a `new` row is either about to be rerun or owned (`OwnerInv`); and a call that holds a unit and shares its execution with no other is on its way to its entry, has lost its write, or is the call behind its entry (`HoldInv`). The last is what `NoLeak` needs: such a call meets its own entry when it settles. `NewIsOwned` is `OwnerInv` with nothing left to rerun. `FirstInFirstOut` and `NoAdmissionInDrain` rest on one lemma, `LetGo`: a call is let go only while the control is enabled, and then it is the first of its lane, or the second when the first is being removed.

### TaskBroker and RunnerProcessExits

The invariant of `OffersFitRunner` adds that a launcher runs nothing (`LaunchersRunNothing`), which is why its offer fits whatever its tasks. The argument has three shapes: offers and tasks only shrink (`ShrinkStep`: a cancel, an expired offer, the end of a process), an accepted task takes the place of its offer (`AcceptStep`), and `sendOffers` fills what is free (`OffersFit`). Nothing about the channels is needed: the bound is the runner's own.

`SelectSeq` and the folds are recursive, so `settleTasks` and the other filters of the broker are stated by positions (`Selected`: the members of a sequence at given positions, in order). `RankGrows`, `NthFacts` and `SelectedFacts` say once what that yields; `SettleFacts` derives which acceptances, messages and remaining offers one call of `settleTasks` leaves behind.

`MatchInv` is about broker and requester alone. A request that is idle is in no list, and one that is in the list and no longer asked is marked (`RequestsInv`: a deferred request is in the list twice, and its second entry stays behind marked). An acceptance that waits has a marked request which is still asked and which no other acceptance that waits shares (`WaitingInv`). A task of the broker is accepted and its requester waits (`TasksInv`). With the types this is inductive, and `AcceptsWanted`, `AwaitsTasks` and `OffersClaimed` are parts of it.

`CarriesTasks` and `StopsGracefully` are about broker and runner, who learn of each other only through the two channels of a connection. `Held(r, k)` are the tasks that `r` has to answer for once the broker has handled the first `k` messages of `r`: those the broker has already, and those whose acceptance is among the `k` messages, less those whose result is. `HeldInv` bounds them by the concurrency for every `k`, says that a runner that is up runs all those of the whole channel, and that a runner that left has none. It needs what the messages promise: a task in a message was offered to that runner (`Owned`), a cancel is of a task that is over for the broker (`Ended`), a result is not followed by the acceptance of the same task (`ToBrokerInv`), and an acceptance on its way to the runner is the first the runner hears of the task (`ToRunnerInv`). Every action is one of four kinds of step, each of which keeps this (`BrokerLink`, `RunnerLink`, `EndLink`, `QuietLink`); the lemmas `Link...` after them say which action is which. The bound itself comes from `OffersFitRunner`: what the runner has sent it runs, and it runs no more than it may.

The invariant of the detector says where the counted exits lie (`CountsInterval`: the last `numRestarts` in the interval, the others before it) and that every exit more than `maxCount - 1` before the interval is older than a window (`EarlierIsOld`): an interval that passed undetected held fewer than `maxCount` exits. So of 2 `maxCount` - 1 exits within a window, the current interval holds `maxCount`.

`ExitsAreDetected` shows that the composition with the signal implements the detector, so that both theorems carry over. `AnswersAreTrue` needs that the signal remembers the last exit (`LastInv`), and that a question is pending only while no exit has come since one window before it was asked (`QuestionInv`); `ToldInv` is the property in these terms.

### LeaderElection and MultiMain

A main that is about to renew, claim or take over acts on a reading that may be stale. `CheckInv` says where a main can be in its check: a process that ended has no check and no role, one that initialises claims the key or has won it, one that claims does not lead, one that has won does. `HolderInv` says that the holder of the key runs and leads, so a main that claims does not hold it. With the types and `LeaderHoldsKey` this is inductive.

`MultiMainElects` is the refinement: a step of the composition is a step of the election or leaves its variables alone (`StepsOfElection`), so the invariants of the election hold of the mains with their services. On top of them, `RoleInv` (a main that is not up has not started its services, one that has not started them tracks nothing, and tracking follows the role) and `SweepInv`, `PruningInv` (a leader whose services are up has a recovery armed or under way, and prunes) are preserved by every action. `ActiveHasTrigger` is inductive with the types: the close of any trigger takes the entry with it, and a new trigger replaces the entry. The types need that finitely many triggers run, so that there is always a number not in use for the next (`FreshTrigger`).

### QueueMode

`HandInv` says that a job is added once and that only the worker that holds it runs it, or the one that held it when it was cancelled: `OneRun` follows, and survives stalls because a job stalls only when its worker no longer runs it. `RowInv` says that the row is final from the moment the run is saved, and that a completed job had its run saved: `ReportedIsFinal` follows. `FaultlessInv` describes the time before the first fault: all workers are up, no job failed, an active job has a run, a waiting job or one just picked up was never started, a stop under way has a call, and an execution in progress is in the hands of its call, the queue, a stop or a run. `AccountedFor` and `FinishedIsNotRerun` follow.
TLC checked the conjunction (`QueueInv`) on the instance of `queue` first.

### NodeStack

Assumed of a workflow (`StackAssumption`): it has finitely many links, none of them leads into the start node, and no two nodes have the same place. The stored workflow is a finite document; the start node of a run is one without parents or the trigger that fired. Two nodes on exactly one spot of the canvas would make the order of the siblings depend on the order in which the connections are stored. Cycles, several sources of an input and inputs without a source are allowed, and so is any set of required inputs.

First the operators. A state `s` is `Good` when the stack holds items with data for each of their inputs, an entry that waits has some data and lacks others, and `order` lists each node with entries once. `AddFacts`, `ReleaseFacts` and `RestFacts` say what one call does to a good state, and that the result is good: it joins an entry or pushes the node (`Added`), releases one node (`Released`), takes off the top. `SortedFacts` shows that the links of a node are listed each once in their order, `SuccessorsFacts` that the recursive function is the loop.

`TopLeftFirst` says of the stack that two items of one run are in the order of the canvas. Pushing one keeps this only if no item of that run is before it (`NoneBefore`), which the loop passes on since it goes from the last place to the first; and older items are of other runs, as their run is over (`Past`).

`NodesRunOnce` needs to know why no data can arrive at a node that has begun. With `X` the links that data have crossed, a node waits with the data of links in `X` in its only entry (`EntriesFlow`), lies on the stack at most once and then does not wait (`StackFlow`), is active only if something has been sent to it and it has not run (`ActiveFlow`), and, once it has begun and no longer waits, has data of all its links, or no node before it is active (`SettledFlow`). The last is why a release is safe: the stack is empty and no ancestor waits, so none will ever run again. In the middle of a pass the node whose run is under way counts as active (`busy`), and `Flow` is passed on from link to link (`CrossingFlow`, `SuccessorsFlow`).

`RanAsDrawn` adds the data (`DataFlow`). What waits holds data from every link crossed (`EntriesFull`), so the inputs with data are those of `X` and nothing is lost; a node that got data is active or was served (`KeptFlow`), never both (`ServedFlow`); one that lies on the stack or was served has data on every input, or enough of them with no ancestor active (`EnoughFlow`). At the end the stack is empty and nothing is left to release (`Looked`), so the nodes that were not served are just those that wait, and the formula of `RanAsDrawn` follows.

### WorkflowActivation

The invariant of `DownIsRetried` and `DownIsShown` says who brings up an active workflow that is down (`DownInv`): each of its nodes runs and no removal in progress is about to close it (`Firm`); or a call of a user is under way, which activates the workflow in the end or sets it inactive (`UserRepairs`); or the boot or a retry starts it, with a retry that is still queued (`TaskRepairs`); or a retry is armed and the error is shown. An activation counts only while what it has started is still firm (`Intact`): one whose triggers were removed meanwhile ends as if all were well. That is not inductive when a trigger fails during an activation, whose end drops the retry of the trigger. The history `crossed` marks this, and TLC finds the state behind it in the fourth workflow of the run.

`RunsAsStored` speaks of histories in which one thing happens after the other. `CleanInv` says for each stage of the one job in progress what runs and what memory knows (`StageInv`): nothing between the removal and the start, the first `k` nodes once each while node `k + 1` starts (`Up`), and otherwise all nodes or none (`Rest`).

A new trigger needs a number no other has. It exists because finitely many triggers are known (`FiniteInv`, `FreshIsNew`).

### TestWebhooks

`WaitIsWatched` is the safety behind `WaitEnds`: while a webhook is registered, a timer of a call for its workflow is set, a deactivation of its workflow is under way, or one of the two exceptions has occurred. It is inductive with what a call knows of itself (`CallInv`: it registers only while its timer is set or was cut) and that the timer a webhook will clear belongs to a call for its workflow (`TimeoutInv`). A step keeps who watches (`WatchersStay`), or ends a watch by beginning the next: a timer that fires and a request that clears one begin a deactivation, which removes the registrations before it ends.

### What is only model-checked

- Liveness, as fairness and ENABLED are out of the prover's reach: `QueueMoves`, `ShutdownEnds`, `RequestAnswered`, `LeaderAgain`, `WaitsResume`, `EntrySettles`, `ExecutionEnds`, `ComesUp`, `WaitEnds`.

## 5. Not modelled, and why

`PROJECT.json` lists every component with its status and the reason.

- *Editor, nodes, API.* The repository holds about 890,000 lines, of which most are integrations of the node library (request building and parsing for some 400 services) and the browser interface. They keep no state that another actor changes, so there is no protocol to model; the models cover the cores that do, and therefore a small share of the lines.
- *Pure algorithms.* Partial executions, expressions and the workflow graph compute on values, run alone and keep nothing between calls.
- *Libraries behind an interface.* Cache, deduplication and binary data leave their consistency to Redis, the database or the file system. Bull and Redis are modelled from their use.
- *Notifications.* Push, collaboration, telemetry and event bus delivery: nothing an execution depends on. Of the event bus, what the recovery reads is modelled.
- *Parts of modelled components.* `removeAll` of the concurrency control (only `execute-batch` reaches it), responses to webhooks, the relay of data and RPC between task runner and requester, the drain of the WebSocket server, order `v0` and the cycles of the engine, webhooks of active workflows, the delay of retried activations.

## 6. State of the plan

1. Regular mode: modelled, checked, all safety properties proved.
2. Task broker: modelled, checked, all safety properties proved. Left: an abstract task (requested, assigned, settled once) that `TaskBroker` implements; several task types.
3. Runner process: modelled, checked and proved.
4. Several mains: modelled, checked, all safety properties proved. Left: retries of activations with several mains, a Redis that loses the key.
5. Queue mode: modelled and checked, all safety properties of its passing run proved. Left: several mains at once, the lock lost by a busy worker, waits resumed through the queue.
6. Engine: order `v1` without cycles modelled and checked, all safety properties proved. Left: order `v0`, cycles, resuming from a stored stack.
7. Activation of a workflow: modelled and checked on a single main, all safety properties proved. Left: its webhooks, several mains.
8. Test webhooks: modelled and checked on a single main, all safety properties proved. Left: several mains with Redis.
9. Not begun: delivery of the event bus, the cache of webhooks.
