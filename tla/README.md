# Verification of the run engine, of job coordination and of a training process

StyleTTS2.1 runs graphs of nodes (downloads, audio processing, training,
synthesis) as *jobs*. A backend stores a job in PostgreSQL, a runner claims it
and executes its graph with an engine of its own, `runflow`. A program of its own,
`beetle2-train`, trains beetle2, with a thread that prefetches data and with
checkpoints to resume from. This directory models that machinery in TLA+: what is concurrent, what can
fail, and what the code has to keep right whatever the order of events. The
numerical code (models, losses, audio) is not modelled.

All paths below are relative to `src/` of the repository, e.g.
`runflow/runtime/scheduler.py` is `src/runflow/runtime/scheduler.py`.

## 1. The system

| Part | State | Operations | Hard behaviour |
|---|---|---|---|
| Run engine: `runflow/runtime/scheduler.py`, `scheduling/admission.py`, `memory_budget.py` | one queue, budget and worker per node; counters of live tasks and blocked producers; `_worker_errors`; a cancel token | `arun` (seed, wait, stop workers), `_worker` (collect, lease, execute, route, complete), `TaskAdmission.enqueue/complete` | coroutines that wait on one `asyncio.Condition`; bounded queues and budgets; failure and cancellation in the middle of an admission |
| Batch collector: `batch_collector.py` | none of its own | `collect`: wait for a first task, fill up, flush on backpressure, at the end or on a timeout | nothing more will come, or nothing can come: both must flush |
| Batch planner: `runflow/planning/batch_planner.py` | none | `build_batches` | boundaries of the two caps |
| Resource pool: `resource_pool.py` | used amounts, exclusive keys, ordered waiters | `acquire`, `release` | priority, waiters that yield and sleep |
| Output router, lineage tracker: `output_router.py`, `lineage_tracker.py` | per lineage (source item): whether its source is open, its tasks, its join groups | `route`, `open_source`, `close_source`, `add_task`, `finish_task`, `open_join`, `close_join`, `abandon_all` | an admission that waits in the middle of a delivery lets other workers change the counts; a lineage must complete once, after its last task |
| Join routing: `routing.py`, `join_builder.py` | groups of packets that wait for partners, per node and lineage; the last packet of each broadcast port | `add_to_join_buffer`, `pop_ready_join_tasks` | list, optional and broadcast ports; a broadcast that comes late completes groups of several lineages at once |
| Node manager: `node_manager.py` | loaded nodes | `load`, `unload` from workers and from the runner | both at once |
| Graph order: `planning/topological_sort.py`, `runtime/topology.py` | none | `topological_sort`, `topological_nodes` | cycles, ties, several edges between two nodes |
| Job coordination: `shared/db/jobs/coordination_crud.py`, `backend/service.py` | one row per job: state, desired state, claim, lease, attempts | submit, stop, remove; `claim_jobs`, `desired_job_states`, `flush_runner_state`, recovery of expired leases | many processes, no lock in `set_desired_job_state`, crashes, stalls |
| Runner: `runner/worker.py`, `run_execution.py`, `state_buffer.py` | the task of the job, buffered runs with a dirty version, `_flush_lock` | poll loop, `execute`, `flush_due`, `_finished` | two coroutines and the threads of their database calls; cancellation |
| Training process: `runner/nodes/training/beetle2/` (`data/pipeline.py`, `data/sampling.py`, `trainer.py`, `checkpoints.py`, `train.py`) | the planner's position, the committed state, a queue of one window, reserved bytes, a stop event; gradients, model, counters; checkpoints on disk | produce (plan, reserve, load, put); take a batch, train, update, validate, save, prune; recover, restart the producer, resume | a thread that runs ahead of the loop; failures of batches, of the thread and of a save; joins that time out; kills |
| Event store, snapshots: `shared/event_store.py`, `shared/run_snapshots.py` | aggregated run state | `record`, `snapshot` | order of events |
| Watcher and hub: `backend/db_watcher.py`, `websocket_hub.py` | cursor over `updated_at` | poll, broadcast | rows committed late |
| Speaker runs: `shared/db/speakers/` | shards of an embedding run | register, collect | none at present: nothing in the repository calls them |
| REST, CLI, frontend, metrics viewer, node implementations, the other trainers | | | |

How they interact. A client asks the backend (REST) to submit, stop or remove a
job; the backend only writes the row. Runners poll: one transaction recovers
jobs whose lease has expired and claims one; another reads the desired states of
what the runner executes; a third (`flush_runner_state`) writes results and
renews leases. Inside a runner, the poll loop and the task of the job share the
state buffer. The task runs the engine: main seeds input nodes, workers pull
batches from their queues, lease resources, execute, and admit the outputs into
the queues of the successors. A stop travels row -> poll loop -> `task.cancel()`
-> `arun()` -> workers. The
training process is started from the command line and shares nothing with the rest.

What makes each part correct:

* engine: no task is lost or executed twice, counters say what is there, budgets
  are exact after every cancellation, nobody misses a notification, a run that
  completes has done everything, and every run ends;
* planner: a partition in order, within the caps, with no batch to spare;
* lineages and joins: the counts are those of what carries the lineage; it is
  reported complete when all its branches are done; partners stay in step however
  their branches are interleaved; nothing but packets without a partner stays open;
* order: the result is topological, and exactly the cyclic graphs are rejected;
* coordination: claim, lease, state and attempts of a row agree; one executor
  at a time; reports come from the attempt the row counts; a stop gets through;
  every job is settled in the end;
* state buffer: nothing that is being sent is discarded;
* resource pool: what it counts is what is leased, no wakeup is lost, nodes with
  nothing in common do not wait for each other, everyone that can be served is;
* training: no batch is skipped by a failure or a restart of the producer, none is
  learnt from twice, also after resuming; an update has its full number of batches;
  bytes are released once; the latest checkpoint is never lost; a process ends.

## 2. Modules

| Module | Content |
|---|---|
| `TaskRun` | the promise of a run, as a diffusing computation: tasks are created by the seed or by live tasks, and completion means that nothing is left |
| `Scheduler` | the engine: `arun()`, the workers, admission, budgets, collector, cancellation |
| `MCScheduler` | two graphs for TLC |
| `SchedulerProofs` | proofs about `Scheduler` |
| `Routing`, `MCRouting` | outputs, joins and lineages beside each other, and three graphs for TLC |
| `RoutingProofs` | proofs about `Routing` |
| `BatchPlanner` | `build_batches` as a function |
| `BatchPlans` | what it promises, against every way to cut the input |
| `GraphOrder` | `topological_sort` step by step, `topological_nodes` |
| `MCPlanning` | all inputs of `build_batches` and all graphs within the bounds |
| `PlannerProofs`, `OrderProofs` | proofs about `BatchPlans` and about `GraphOrder` |
| `Sublists`, `ListProofs` | a part of a sequence by its positions, and the lemmas on lists and numbers that the other proofs share |
| `ResourcePool`, `MCResourcePool` | leases on several resources with priorities, and an instance |
| `PoolProofs` | proofs about `ResourcePool` |
| `JobCoordination`, `MCJobCoordination` | the rows, the backend's handlers, the poll loop, the task, the state buffer; instances |
| `JobProofs` | proofs about `JobCoordination` |
| `BatchStream` | the promise of a training run about its data |
| `Training`, `MCTraining` | a training process of beetle2, and an instance |
| `TrainingProofs` | proofs about `Training` |

### Scheduler

A step is what a coroutine does between two suspension points. The event loop is
single-threaded, so nothing else interleaves. Code under `_active_condition`
never awaits anything else; its critical sections are parts of one step, and the
lock is never contended across a suspension. `Condition.wait_for` is explicit: a
waiter whose predicate is false enters `asleep`, only `notify_all` takes it out,
and only then does it look again. A forgotten notification would therefore be a
behaviour of the model, and `NoMissedWakeup` would fail. `execute()` runs in a
thread but touches nothing of the engine except `remaining_items` of an input
node, which changes with no notification at all. `NoMissedWakeup` holds
nevertheless, because the node still holds its task and completing it notifies.

Mapping of state: `activeTotal`, `activeBy`, `blockedBy` are `TaskAdmission`'s
counters, `used` is `WeightBudget._used`, `queue` the `asyncio.Queue`s, `held`
the `consumed_tasks` of a worker, `sending` the task whose `enqueue()` is
blocked, `pending` the packets still to be routed, `pc` the position of a
worker (first, fill: `collect`; lease; execute; route; budget, put: the two waits
of an admission; finally, raising: the `finally` clause; dead).

Simplifications: a task is an identity from a bounded pool that is reused, as
`id(task)` is; what a node computes is open (any number of packets up to
`MaxOut`, to any successor); one resource of which every node leases a unit,
with the priorities of the pool; an input node consumes at least one item per
`execute()`; the event sink never suspends; batch targets and queue sizes are at
least one, as the policies are validated. Once `_stop_workers` has cancelled the
workers, all a worker does is handle that cancellation. `CancelAdmission` includes
the `RuntimeError` that `finish_task` raises for a lineage `abandon_all` deleted.

### Routing

What `Scheduler` leaves open, the packets a worker routes, is the subject here.
`pc[n]` is the position of a worker: collect, execute, route (the next delivery),
put (an admission). `turn` is the worker that keeps the event loop: from the end of
`execute()` it routes delivery after delivery without a suspension, until an
admission finds its queue full or waits for bytes (`Wait`); `execute()` has a
thread and runs beside it. `todo` are the packets that are left, by their output port,
`edge` the edge by which the first of them goes next, `ready` the
tasks of the delivery at hand that are not yet admitted, `closing` the groups
it emptied, which are closed after the last of them. `groups` and `broadcasts` are
the join buffers, `tracker` the counts, `done` the lineages reported complete.
`serial` and `built` are history: they number the packets and the joined tasks of
a lineage, so that `JoinsInStep` can compare them.

`Deliver` is `_deliver` up to its first suspension or its end: the packet goes into
the buffer (`Added`), new groups are counted, tasks popped, the first of them is
registered. `NextPacket` ends the loop over the edges of a packet. `Admit` ends an admission and registers the next task or closes the
groups. Registering a task of a lineage the tracker does not know is the
`RuntimeError` of `LineageTracker._state` (`failure = "lineage"`), popping an empty optional
port the `IndexError` of the join builder (`"join"`). The branches of `routing` reach the
second (`DeliverFails`); the first follows the violation that `routing_race` finds.

Simplifications: a batch has one task, and an execution of an input node returns one
output, so that the association of outputs with tasks is the identity; byte budgets
only decide who may have to wait (a task may wait whenever its target is not
idle); how many packets an execution returns is open within `Results`; the
failure of a worker ends the model, since how the others are stopped, with
`abandon_all`, is `Scheduler`'s.

### BatchPlans and GraphOrder

The variables of `BatchPlans` are the arguments of `build_batches`; `Cuts` are all ways to
cut the tasks, in order, into batches that may be given to `execute()`. `GraphOrder`
takes one node from the queue of `topological_sort` per step; the edges of a graph
are a sequence of pairs, so parallel edges (several ports between two nodes) and
loops are inputs. `HasCycle` defines a cycle without reference to either algorithm.
`MCPlanning` has an initial state for every input of either.

### JobCoordination

`row[j]` has the columns the transactions decide on, and two history fields:
`from`, the attempt whose report (or claim) was written last, and `late`,
whether that report came from a flush whose coroutine had been cancelled.

* Backend. `claim_jobs` and `flush_runner_state` lock the rows they change and
  are single steps. `set_desired_job_state` reads (`ReadForStop`, `Remove`) and
  writes (`WriteStop`) without a lock; SQLAlchemy writes the columns that were
  changed and no others. Handlers run on one event loop and do not interleave
  with each other between a read and its write. The twenty polls of `remove()`
  are any number of polls.
* Runner. `loop` is the position of the poll loop (poll, desired, reconcile,
  flush, sending; exit: the loop has failed and `asyncio.run` waits for the
  task), `taskPc` that of `execute()` (run; flush: the `finally` clause wants
  `_flush_lock`; sending: the thread is in the database). A runner has at most one
  task, and while it has one it neither claims nor recovers.
* Flush. `flush` is the payload between collecting and accepting it. The
  transaction commits in its own step (`Send`), so that events, the end of the
  run, stops and other processes' transactions come in between. A second
  cancellation interrupts the forced flush but not its thread; the payload moves
  to `late` and may be applied at any later time.
* Failure. `Crash` loses everything a process knows. `LoopFails` is a database
  error or an interrupt in the poll loop: the task is cancelled, reports its run
  as stopped and the process ends. `Reconcile` includes the `KeyError` for a
  run that finished between two awaits, which ends the process too. A dead process
  looks like one that was restarted and has not polled yet.

Simplifications: a run id is used once; `skip_locked` is "any claimable row";
leases are live or expired; a client may stop a job repeatedly; node states, logs
and the table of runners are left out; what `arun()` does inside is left open
(it may succeed, fail, or react to a cancellation).

### ResourcePool

`phase[w]` says where a worker is: away (collecting or routing), asleep or woken in
`Condition.wait`, holding a lease, gone. `Acquire` is `acquire()` up to its first
suspension or its end, `Resume` the predicate that a notified waiter evaluates
again, `Finish` and `Fail` the two ways out of the body of `lease()`, each with
`release()` and its `notify_all`. `Stop` and `Quit` are `_stop_workers`. The lock of the
condition is free at every suspension, so none of these steps is interrupted,
`release()` in the `finally` clause of a cancelled lease included. `used`,
`exclusiveInUse`, `nextTicket` are the fields of the pool, `ticket` the waiters'.
asyncio runs notified waiters in the order in which they went to sleep; the model
lets them run in any order.

Simplifications: a worker has one policy and one lease at a time, as in
`WindowedScheduler`; amounts are whole units; a resource with the amount 0 is not
required at all.

### Training

A batch is its number in the order of planning. `planner` and `committed` are the
states of `ContinuousBatchPlanner` (batches given, batches planned, those planned and
not yet given): the one the producer advances, and the one after the last
batch the trainer consumed, which a checkpoint saves and a restarted producer
starts from. `producer` is the position of the thread (plan, reserve, load, put;
fail: it reports an exception; ending; dead), `trainer` that of the loop. A step is
what one of them does between two accesses to what they share: the queue of one
window, the stop event, the reserved bytes. The order in which `_put` looks at the
event and waits for the slot is kept: `Put` may happen after the stop.

* Failures. A batch that fails to load travels with its error; a batch that fails
  to load or to train is consumed and the update given up, if recovery is allowed:
  once a validation has succeeded or five minutes have passed (`RecoveryAllowed`), else
  the process fails. A failed producer, or one found dead, is restarted from
  `committed` once its thread has ended; a join that times out defers the restart. A
  failed save or report of progress is logged; a save finds a directory of its
  step that a process resumed from an older checkpoint has left.
* Kills. `Kill` may come between any two steps; a checkpoint is written elsewhere and
  renamed, so `Save` is one step and `Prune` another. `Restart` resumes from any
  checkpoint on disk, or from none into the same directory.

`BatchStream` says what this is to achieve: batches come from one stream, each next
one is accumulated or given up together with the gradients, saves come between
updates, and a run may be resumed at any saved state. `StreamSpec` maps
`committed.given` to the position in the stream, and the saved planners likewise.

Simplifications: one process (with several ranks, each rank is one); how a
window is drawn from the pools of samples is not modelled, only
that a planner continues deterministically from its state; losses, metrics and
the pipeline that repeats one batch are left out.

## 3. What the runs show

| Run | Instance | Properties |
|---|---|---|
| `sched_chain` | src -> mid -> out, queues of 1, 2 and 1, batches of 2, weights 1 and 3 with a budget of 2, mid may fail, stop at any time | `TypeOK`, `TasksInPlace`, `CountersExact`, `BudgetExact`, `NoMissedWakeup`, `PlannerKeepsOneBatch`, `RunEnds` |
| `sched_fork` | a fork and a join, a node with a batch timeout, two lease slots | `CompletedMeansDone`, `ImplementsTaskRun` |
| `routing` | two branches of one source that join beside a broadcast and with an optional port, and in a list port that a second source feeds too | `TypeOK`, `CountsAreExact`, `CompletedAllBranches`, `JoinsInStep`, `OnlyLeftoversStayOpen` |
| `routing_race` | two lineages that wait for a late broadcast | `CompletedAllBranches` is violated |
| `routing_clone` | a recording and a transcript, from two input nodes, wired to the voice cloning node | `OptionalInputsAreUsed` is violated |
| `planning` | every list of up to four tasks and every policy, every graph of four nodes and up to four edges | `PlanIsAPartition`, `PlanIsShortest`, `BytesOnlyShrinkBatches`, `OrderIsTopological`, `RejectsExactlyCycles` |
| `pool` | four workers with two batches, two resources, an exclusive group, an unsatisfiable requirement | `TypeOK`, `LedgerIsExact`, `SleepersAreNotified`, `WaitsOnlyForSharers`, `EveryoneIsServed` |
| `jobs_stalls` | two runners that may stall and lose leases, one job, stop and remove | `TypeOK`, `RowsAreConsistent`, `ReportsAreCurrent`, `SentRunsAreBuffered` |
| `jobs_one` | two runners that renew in time, a crash or failure | `OneExecutor` |
| `jobs_settle` | one runner that may crash twice, three attempts, stop and remove | `JobsSettle`, `StopIsObeyed` |
| `jobs_removed` | as `jobs_stalls`, with runners that are punctual | `StoppedBeforePruned` is violated |
| `training` | windows of two batches, three updates of two, faults, kills and restarts | `TypeOK`, `BytesAreExact`, `PipelineIsInOrder`, `UpdatesAreWhole`, `LearntOnce`, `StreamSpec`, `LatestStaysOnDisk`, `ProcessEnds` |

`PlannerKeepsOneBatch` justifies a step of the model: a collected batch is cut
again by bytes, but never into more than one piece, because admission has already
kept its bytes within the budget.

Three runs show that the code does not do what its documents say.

`jobs_removed`: `backend/jobs/api.py:8-9` says that jobs are removed by the backend manager "so a
still-running job can be stopped before its record is pruned". `remove()`
(`backend/service.py:87-94`) looks at the row twenty times, 0.25 s apart, and
then deletes it, active or not. A run that takes longer to unwind, or whose
runner's loop is busy, is executed on after its row is gone, and since
`desired_job_states` finds no row, that runner is never told to stop it.

`routing_race`: a completed lineage is reported as "source item completed all
branches" (`runflow/runtime/scheduler_events.py:60`). A late broadcast pops the tasks
of all complete groups of a node at once (`routing.py:37-44`), but they are
registered and admitted one after the other (`output_router.py:127-131`). While the
first waits for room, the second lineage has packets in no buffer and no task
to count them. If its other tasks and groups end meanwhile, it is reported
complete, and registering the popped task then raises "unknown source lineage"
(`lineage_tracker.py:70-74`) and fails the run. In the
graph of `routing` only one lineage meets the broadcast, and the counts are exact: the
race needs two.

`routing_clone`: `runner/nodes/tts/voice_nodes.py:151` says "Wire reference audio ... into the
audio input, optionally with a transcript of what is said". A packet at an optional
port waits in the group of its own lineage (`routing.py:46-56`), and the library's
nodes with a text output are sources of their own, so recording and transcript
never meet: the voice is made with the default transcript, and the lineage of the
given one never completes.

Things the models show that are nobody's promise, and that shaped the
properties:

* A stop request decided on a stale state can leave a row in state `stopping`
  with no claim and no lease, where nothing recovers it. `Settled` names this case.
* A runner with a task recovers nothing. While every runner is busy, a
  stopped job whose runner died keeps its claim: `StopIsObeyed` has to except it.
* A late payload may write the result of an old attempt when the same runner has
  claimed the job again: the exception `late` in `ReportsAreCurrent` is reachable.
* A database error in the poll loop makes the runner report its job as `stopped`.
* A waiter that gave way to a better one sleeps until the next `release()`, by
  anybody, although there is room for it: an idle capacity is possible while some
  lease is held, a lost wakeup is not (`SleepersAreNotified`). This needs that
  waiters are only cancelled all together, as `_stop_workers` does: after a single
  waiter that others gave way to is cancelled, nobody need wake them.
* A requirement above its limit is neither rejected nor reported. Its worker waits
  for ever; `EveryoneIsServed` excepts it, and shows that it holds up nobody else
  even when it goes before all.
* A join whose optional port was fed once is not ready to do without: when the
  port has run dry and the required ones have not, popping it fails the node
  (`join_builder.py:66`). A port that was never fed takes its default.
* A lineage whose join groups keep packets without partners is never reported
  complete; `OnlyLeftoversStayOpen` says that there is no other reason.
* A window of batches that exceeds the byte limit makes the producer wait for ever,
  and the trainer with it: the configuration does not relate the two.
* A training process that was resumed from an older checkpoint cannot save a step
  whose directory exists: the save fails, is logged, and the newer
  checkpoints of the abandoned branch stay.

## 4. Bounds

Scheduler: queues of one and two and batch targets of two make every wait
happen (a full queue, a full budget, a batch that cannot fill, a batch that waits
for upstream). `MaxOut` 2 in `sched_chain` lets a second packet block behind the first,
`MaxItems` 2 in `sched_fork` distinguishes the last item from the others, weights 1
and 3 with a budget of 2 give tasks that fit together, that do not, and that never
fit. `Tasks` is the pool of identities: `PoolSuffices` in `MCScheduler` was checked as an
invariant of both instances, so no step is disabled for want of an identity.

Routing: queues of one, so that every admission can be made to wait. `MCResults` lets
the branches return no packet, one, or several in either order, and the second
source two for one port around one for the other: groups stay open, are filled up, are emptied and
opened again, and the broadcast comes before, between and after the packets. The
branch that feeds the optional port of `merge` may give it one packet for two of the required
port beside it: the group is then popped while the optional port is empty, and the
join fails.

Planning: four tasks make up to four batches; weights up to 2 with targets up to 4
give batches closed by count, by bytes, by both and oversized tasks; four nodes and
four edges contain every cycle up to length four, diamonds, loops and parallel edges.

Jobs: two runners are what a lost lease needs; two or three attempts distinguish
"queued again" from "given up"; `MaxVersion` 1 lets an event come while a flush
is on its way; `MaxCrashes` bounds crashes and failures of the loop;
`Stoppable` and `Removable` keep `jobs_one` small. Each instance has one job; that
flushes of a finished and of a new run overlap with a second job is left to the
proofs. Runners are interchangeable in `jobs_stalls` and `jobs_one` (symmetry), which
check invariants only. The proofs of section 6 have none of these bounds.

Pool: two batches let a worker acquire again before the waiters it notified have
run; asr and tts exclude each other though the accelerator has room for both, asr
and merge compete for processors with different amounts, tts and merge share
nothing, huge can never be served and goes before all, and asr and tts have one
priority, so their tickets decide.

Training: a window has batches of one and of two units and the limit is four, so
the next window waits while the one before is consumed. An update needs a whole
window, so that a lost batch shifts the updates against the windows. Of three
steps one validates and saves in the loop, and the end does both once more;
`KeepLast` 1 makes every save expire a checkpoint. `MaxFaults` 3 and `MaxRestarts` 2
let a failure come during the recovery from another, in a resumed process.

## 5. Fairness

Scheduler: weak fairness of main and of each worker: the event loop runs every
coroutine that can go on, and every `execute()` returns. Nothing is assumed of
`Cancel`: nobody has to stop a run. `RunEnds` is checked with one lease slot, where
the simple pool is faithful also for liveness.

Jobs: a handler that has begun goes on; a lease nobody renews expires; the
poll loop and database calls of a process go on (weak fairness);
`asyncio.Lock` serves its waiters in order, so the forced flush gets the lock
although the poll loop keeps taking it (strong fairness of `ForcedFlush`); a run
that is cancelled ends. That a failed runner is started again is an assumption
about whoever operates it. `JobsSettle` has the premise `RunsEnd`, that a run ends by
itself. `StopIsObeyed` does without it.

Pool: a worker that is awake goes on, and a batch ends, well or not. That a worker
has finitely many batches is part of the model: with an endless supply, one of
better priority may be served for ever before the others.

Training: both threads are scheduled (weak fairness of `Produce` and of `Train`).
Nothing has to fail, to be killed or to be started again, and time need not pass:
the five minutes after which recovery is allowed may never be over.

## 6. Theorems

Proved by TLAPS for every value of the constants that satisfies the assumptions
in the modules (`GraphAssumption`, `BoundAssumption`, `JobAssumption`, `PolicyAssumption`,
`ConfigAssumption`, `BoundsAssumption` and the other assumptions of `ResourcePool`).

Scheduler. The inductive invariant of the accounting is the conjunction
`Accounting` = `TypeOK`, `TasksInPlace`, `CountersExact`, `BudgetExact`; none of
the four is inductive alone (counters stay natural numbers because they count
tasks, a task is released once because it is in one place, and so on).
The first lemmas of `SchedulerProofs` say what each operation does to queues as sets
and to cardinalities; then there is one per kind of step. They prove
`AccountingHolds`, `TypeCorrect`, `TasksStayInPlace`, `CountersStayExact`,
`BudgetStaysExact`. `NobodyMissesAWakeup` follows. Then the invariant is
strengthened to `Sound` (how `arun()` ends, and that an input node with items left
has a task or has not been seeded), which gives `CompletedRunsAreDone` and the
step simulation of `TaskRun`, `RefinesTaskRun`. `CollectedIsOneBatch` ties the engine
to the planner. It adds `Batched`: a worker holds at most a batch, and exactly the tasks
of input nodes weigh nothing. By `BudgetExact` two tasks that are held together are
within the budget (`AdmittedTogether`), since a task above it could only have tasks
without weight beside it; so the loop of `build_batches` never closes a
batch before the last task (`OneBatch`).

Routing. For every graph, whatever its ports and edges, `Books` is inductive: types,
`Births` (what is tracked or done has been opened, each lineage once) and `Ledger`, that
the three counts of each lineage are the cardinalities of what carries it for as long as
the tracker has met no unknown lineage. Hence `RoutingTypes` and `LeftoversOnly`. That
it never meets one, and that a completed lineage is gone, is not true of every graph
(`routing_race`). `CountsExact` and `CompletedAll` therefore have a hypothesis, on
the graph and not on its runs: `OneWaitsForBroadcast(from)`, where a broadcast comes at
most one lineage of the run can wait for partners. A graph without broadcast
ports meets it with any number of lineages. `Bounds(from)` says that
`from[n]` includes the input nodes with a path to n. Then all tasks of a delivery
have one lineage (`OneLine`), and each of them is registered while the packet's own
task, the group or the task before it still counts (`Exact`). `PartnersInStep` has the
hypothesis `OneFeedPerLineage(from)`: a lineage comes to a port that pairs single packets by
one edge at most. With two edges, two producers number the packets of one port, and no
order of theirs is the right one. Its invariant `Stepping` adds up, for such a port
(`Numbered`): the tasks built plus the packets waiting are the packets that have gone by
its edge. All three conditions are met by the graph of `routing`: `MCRouting` assumes
them, and TLC evaluates that.

Graph order. `Sorting` is the inductive invariant: the indegree of a node is the
number of its edges whose source is not in the result, and the nodes with none are
those in the queue or the result, once each. When the queue is empty and nodes are
left, each of them has a source that is left, hence there is a cycle. A cycle in turn never
enters the result, which has every node after its sources. `RoundsEnd` proves the
loop of `topological_nodes` by a bound on what is pending. Hence `OrdersAreTopological` and
`CyclesAreRejected`.

Lists. `SelectSeq` is a recursive operator in the library, which tlapm cannot see
into, so models that are proved about select with `Sublist`, by a set of positions.
`ListProofs` has what `SequenceTheorems` does not: sublists, lists of
distinct elements, flattened lists, least numbers.

Jobs. `Core` is the inductive invariant behind the first theorems: types;
`RowOK` (a row is consistent, a claimed one has an attempt left, a new one has
lost none); `RunnerOK` (a runner has a task exactly while it has a job, which is
in its buffer; a payload on its way belongs to the coroutine that waits for it;
what it carries is in the buffer, dirty, and of the same attempt). `TypeOK`
alone is not inductive: recording an event is only defined for a run the buffer
has. From `CoreHolds` follow `TypeCorrect`, `RowsStayConsistent`,
`SentRunsStayBuffered`. `Exclusive` is added (the executor of a job holds
its live claim, or the row was settled, removed or marked stopping under it and
cannot be claimed any more) for `OneExecutorAtATime`, which assumes `Punctual`, and
`AllCurrent` (a runner that holds a claim has the attempt of that claim in its
buffer) for `ReportsStayCurrent`.

Pool. `PoolInv` = `TypeOK`, `BusyHaveBatches` (who waits or holds has a batch),
`LedgerIsExact`, `SleepersAreNotified`. An amount is counted as a set with one
element per leased unit, so that a grant and a return change its cardinality by
exactly what they should (`UnitsAdd`, `UnitsRemove`): this is why `release()` never
finds less than it returns. Without leases everything is free (`AllFree`), so a
waiter that goes to sleep has given way; since "goes before" is a strict order,
the first in the chain is awake (`SleepIsNoticed`). Hence `TypeCorrect`,
`LedgerStaysExact`, `NoLostWakeup` and, as an action property, `SeparateWorkersNeverWait`.

Planner. Its promises are proved of every input, with no bound on tasks, weights and
caps (`PlanPartitions`, `PlanIsOptimal`, `TargetOnlySplits`). `build_batches` recurs over its
input, and induction is not available; a least-number principle
(`LeastNatural`, from the well-foundedness of the natural numbers) takes its place: a
loop invariant that fails somewhere fails at a first position, whose predecessor
contradicts it. `Filling` is the loop invariant. It says that the plan so far is greedy:
no batch could have taken the task after it (`Overfull`). Every batch of an
arbitrary cut then contains the end of at most one greedy batch (`CutMeetsBatch`), which
injects the plan into the cut. Two greedy plans for the same caps are equal
(`GreedyIsUnique`), so a byte target nobody reaches changes nothing. A stable sort gives every
task a place of its own, hence fills all places (`SortedIsAList`).

Training. The inductive invariant is `IInv`. `Chain`: what the trainer holds, what is
in the queue and what the producer works on are one run of consecutive batches
after `committed.given`, each with the planner's state after it, and while the thread is
alive `planner` is where that run ends. `Shape`: which places are occupied at which
positions of the two threads. `Shelf`: saved states are of the same kind. `Learning`: the
gradients have as many batches as `micro` says wherever an update can still come
of them. Hence `Types`, `Order`, `WholeUpdates`, and step by step the simulation of
`BatchStream` (`Refinement`), whose own invariant, that updates are disjoint, then
carries over (`Once`); pruning keeps the greatest step (`LatestStays`). `ExactBytes` adds
`Exact`, that `reserved` is the sum over the four places that hold reserved batches,
for estimates that are natural numbers (`Estimates`).

Only model-checked: liveness (`RunEnds`, `StopIsObeyed`, `JobsSettle`, `EveryoneIsServed`,
`ProcessEnds`), which is outside the prover, and the three properties that are violated.
Every invariant and action property of a passing run is proved; those of `Routing` as
far as they hold, see above.

## 7. Not modelled

The map covers about two percent of the repository's lines. Most of the rest is
numerical code around torch (models, losses, audio, other trainers), the frontend, generated and
migration scripts, parsing and formatting: there a line either computes a tensor or
a page or moves data, and a model checker has no state to explore. This part cannot
be modelled faithfully, and widening the lines of a definition would not change that.

What has states and is left out:

* Node manager: loads and unloads by workers and by the runner cross, but neither
  code nor documents say which of them wins, so there is no property that the
  authors would recognise. With it, the desired state of nodes in the rows, and
  the write-back of `desired_loaded` by a flush, which may overwrite a newer request.
* Several ranks of a training job: only the main rank saves, with its own pending
  batches, and ranks that resume take over its share.
* Speaker embedding runs: each function is one transaction that locks the row of
  its run, and nothing in the repository calls them.
* Watcher and hub push what browsers also poll; the event store aggregates for
  display and the event sink never suspends.
* In `Routing`: batches of several tasks, progress outputs, validation of values. In
  `GraphOrder`: the validator's checks of nodes and ports, each a single test.
* Fractional amounts of resources, and resources without a limit (a `KeyError`);
  node states and logs in flushes; renaming and listing jobs.

`PROJECT.json` lists each component with its status, and each hazard no property
covers with the reason.

## 8. Plan

Order of the work, most important behaviour first. Items 1 to 8 are done.

1. `TaskRun`, `Scheduler`, `BatchPlanner`, their runs and proofs.
2. `JobCoordination` with the runner and its state buffer, its runs and proofs.
3. The accounting, refinement and coordination theorems of section 6.
4. `ResourcePool`, its run and proofs.
5. `Routing`: lineages, joins and admissions that wait.
6. `BatchStream` and `Training`, their run and proofs.
7. `GraphOrder`, and the planner's promises proved.
8. `GraphOrder` and `Routing` proved, the latter under conditions on the graph, and
   the engine's use of the planner.
9. The node lifecycle with `desired_loaded` and its write-back in
   `flush_runner_state`, composed with the poll loop, once it is decided whose
   request wins.
10. Several ranks in `Training`: the share of a window per rank, and what a resumed rank
   takes over.
11. Batches of several tasks in `Routing`, with the association of outputs.
12. The watcher's cursor and the event store.
