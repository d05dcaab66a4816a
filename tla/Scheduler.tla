------------------------------ MODULE Scheduler ------------------------------
(***************************************************************************)
(* The engine of one run: WindowedScheduler (runtime/scheduler.py) with    *)
(* the admission control (runtime/scheduling/admission.py), the memory     *)
(* budgets (runtime/memory_budget.py) and the batch collector              *)
(* (runtime/batch_collector.py) it drives.                                 *)
(*                                                                         *)
(* The actors are the coroutine arun() ("main") and one worker coroutine   *)
(* per node; they share one asyncio.Condition, _active_condition.  A step  *)
(* is what a coroutine does between two points where it may be suspended.  *)
(* Code that runs under the condition's lock never awaits anything, so a   *)
(* critical section is a part of one step.  Condition.wait is modelled by  *)
(* the set asleep: a waiter puts itself into it when its predicate is      *)
(* false and only notify_all takes it out, so a missing notification is a  *)
(* behaviour of the model.                                                 *)
(*                                                                         *)
(* A task is an identity from a bounded pool; identities are reused, as    *)
(* id(task) is.  What a node computes is left open: an execution yields    *)
(* any number of packets up to MaxOut, each for some successor.            *)
(***************************************************************************)
EXTENDS Naturals, Sequences, FiniteSets

CONSTANTS
    Nodes,       \* the nodes of the graph
    InputNodes,  \* the nodes with IS_INPUT
    Edges,       \* the edges, as pairs <<source node, target node>>
    Priority,    \* Priority[n]: index of n in topological_nodes(graph)
    Tasks,       \* the pool of task identities (a bound)
    MaxItems,    \* items an input node may start with (a bound)
    MaxOut,      \* packets one execution may route (a bound)
    Weights,     \* weights estimate_task_bytes may give a task with inputs
    Budget,      \* per-queue memory budget
    QueueMax,    \* QueueMax[n]: queue_max_size of n
    Target,      \* Target[n]: batch size collect() waits for
    Timed,       \* nodes whose batch policy has timeout_ms > 0
    Slots,       \* capacity of the one resource every node leases a unit of
    Fallible,    \* nodes whose execution or output may raise
    Main,        \* arun(), as a waiter on the condition
    NoNode,      \* owner of an identity not in use
    NoTask       \* sending[n] of a worker that is admitting nothing

ASSUME GraphAssumption ==
    /\ IsFiniteSet(Nodes) /\ Nodes # {}
    /\ InputNodes \subseteq Nodes
    /\ Edges \subseteq Nodes \X (Nodes \ InputNodes)
    /\ \A n \in Nodes : <<n, n>> \notin Edges
    /\ Priority \in [Nodes -> Nat]
    /\ Main \notin Nodes /\ NoNode \notin Nodes

ASSUME BoundAssumption ==
    /\ IsFiniteSet(Tasks) /\ NoTask \notin Tasks
    /\ MaxItems \in Nat /\ MaxOut \in Nat
    /\ Weights \subseteq Nat \ {0}
    /\ Budget \in Nat \ {0} /\ Slots \in Nat \ {0}
    /\ QueueMax \in [Nodes -> Nat \ {0}]
    /\ Target \in [Nodes -> Nat \ {0}]
    /\ Timed \subseteq Nodes /\ Fallible \subseteq Nodes

VARIABLES
    mainPc,      \* where arun() is
    toSeed,      \* input nodes main has not looked at yet
    outcome,     \* how arun() ends: "none" while it runs
    token,       \* the cancel token, set together with the cancellation of main
    pc,          \* pc[n]: where the worker of n is
    asleep,      \* waiters of _active_condition that were not notified yet
    owner,       \* owner[t]: task.node_id
    weight,      \* weight[t]: task_weights[id(task)]
    queue,       \* queue[n]: the asyncio.Queue of n
    held,        \* held[n]: consumed_tasks of the worker of n
    sending,     \* sending[n]: the task the worker of n is blocked admitting
    pending,     \* pending[n]: packets of the executed batch still to route
    used,        \* used[n]: WeightBudget._used of n
    activeTotal, activeBy, blockedBy,  \* TaskAdmission's counters
    remaining,   \* remaining[n]: remaining_items of the input node n
    errors       \* nodes in _worker_errors; each also emitted node_failed

mainVars  == <<mainPc, toSeed, outcome>>
taskVars  == <<owner, weight, activeTotal, activeBy>>
queueVars == <<queue, used, blockedBy>>
vars == <<mainVars, token, pc, asleep, taskVars, queueVars, held, sending,
          pending, remaining, errors>>

-----------------------------------------------------------------------------
(* The graph.                                                              *)

Succ(n) == {m \in Nodes : <<n, m>> \in Edges}

(* Every node from which a path leads to n: the smallest set that holds    *)
(* the sources of n's incoming edges and is closed under incoming edges.   *)
Upstream ==
    [n \in Nodes |->
        {u \in Nodes : \A S \in SUBSET Nodes :
            (\A e \in Edges : (e[2] = n \/ e[2] \in S) => e[1] \in S) => u \in S}]

-----------------------------------------------------------------------------
(* Tasks.                                                                  *)

Live       == {t \in Tasks : owner[t] # NoNode}
TasksOf(n) == {t \in Tasks : owner[t] = n}
NewTask    == CHOOSE t \in Tasks : owner[t] = NoNode

(* A bug: notify() wakes one waiter, whoever it is.                        *)
NotifyOne ==
    \/ asleep = {} /\ asleep' = {}
    \/ \E a \in asleep : asleep' = asleep \ {a}

(* notify_all on _active_condition.                                        *)
Notify == asleep' = {}

-----------------------------------------------------------------------------
(* Main: seeding.                                                          *)

Init ==
    /\ mainPc = "seed"
    /\ toSeed = InputNodes
    /\ outcome = "none"
    /\ token = FALSE
    /\ pc = [n \in Nodes |-> "first"]
    /\ asleep = {}
    /\ owner = [t \in Tasks |-> NoNode]
    /\ weight = [t \in Tasks |-> 0]
    /\ queue = [n \in Nodes |-> <<>>]
    /\ held = [n \in Nodes |-> <<>>]
    /\ sending = [n \in Nodes |-> NoTask]
    /\ pending = [n \in Nodes |-> 0]
    /\ used = [n \in Nodes |-> 0]
    /\ activeTotal = 0
    /\ activeBy = [n \in Nodes |-> 0]
    /\ blockedBy = [n \in Nodes |-> 0]
    /\ remaining \in {r \in [Nodes -> 0..MaxItems] :
                        \A n \in Nodes \ InputNodes : r[n] = 0}
    /\ errors = {}

(* The start of TaskAdmission.enqueue: the task becomes active.            *)
Register(t, m, w) ==
    /\ Live # Tasks
    /\ owner' = [owner EXCEPT ![t] = m]
    /\ weight' = [weight EXCEPT ![t] = w]
    /\ activeTotal' = activeTotal + 1
    /\ activeBy' = [activeBy EXCEPT ![m] = @ + 1]

(* A bug: the task leaves the total but not the counter of its node.       *)
ForgetTotalOnly(t, m) ==
    /\ owner' = [owner EXCEPT ![t] = NoNode]
    /\ weight' = [weight EXCEPT ![t] = 0]
    /\ activeTotal' = activeTotal - 1
    /\ UNCHANGED activeBy

(* The task leaves the counters: the end of complete(), and _discard().    *)
Forget(t, m) ==
    /\ owner' = [owner EXCEPT ![t] = NoNode]
    /\ weight' = [weight EXCEPT ![t] = 0]
    /\ activeTotal' = activeTotal - 1
    /\ activeBy' = [activeBy EXCEPT ![m] = @ - 1]

(* _run_until_idle hands an input node its first task.  The queue of the   *)
(* node is empty and the task weighs nothing, so enqueue() does not block. *)
SeedInput(i) ==
    /\ mainPc = "seed" /\ ~token
    /\ i \in toSeed
    /\ toSeed' = toSeed \ {i}
    /\ \/ /\ remaining[i] = 0
          /\ UNCHANGED <<taskVars, queue, asleep>>
       \/ /\ remaining[i] > 0
          /\ Register(NewTask, i, 0)
          /\ queue' = [queue EXCEPT ![i] = Append(@, NewTask)]
          /\ Notify
    /\ UNCHANGED <<mainPc, outcome, token, pc, used, blockedBy, held, sending,
                   pending, remaining, errors>>

SeedDone ==
    /\ mainPc = "seed" /\ ~token
    /\ toSeed = {}
    /\ mainPc' = "wait"
    /\ UNCHANGED <<toSeed, outcome, token, pc, asleep, taskVars, queueVars,
                   held, sending, pending, remaining, errors>>

-----------------------------------------------------------------------------
(* Main: waiting for the end and shutting down.                            *)

(* A bug: the queues are empty, but a worker may hold a batch.             *)
QueuesEmptyOrFailed == (\A n \in Nodes : queue[n] = <<>>) \/ errors # {}

IdleOrFailed == activeTotal = 0 \/ errors # {}

MainSleep ==
    /\ mainPc = "wait" /\ Main \notin asleep
    /\ ~IdleOrFailed
    /\ asleep' = asleep \cup {Main}
    /\ UNCHANGED <<mainVars, token, pc, taskVars, queueVars, held, sending,
                   pending, remaining, errors>>

(* Leaving _wait_until_idle: check_cancel, then _raise_worker_errors, then *)
(* _stop_workers.                                                          *)
MainWake ==
    /\ mainPc = "wait" /\ Main \notin asleep
    /\ IdleOrFailed /\ ~token
    /\ \/ /\ errors = {}
          /\ mainPc' = "stop"
          /\ UNCHANGED outcome
       \/ /\ errors # {}
          /\ mainPc' = "unwind"
          /\ outcome' = "failed"
    /\ UNCHANGED <<toSeed, token, pc, asleep, taskVars, queueVars, held,
                   sending, pending, remaining, errors>>

(* CancelledError reaches main: at the await it is suspended in, or from   *)
(* check_cancel.  The except clause of arun() abandons the lineages, its   *)
(* finally clause cancels the workers.                                     *)
MainCancelled ==
    /\ mainPc \in {"seed", "wait", "stop"} /\ token
    /\ mainPc' = "unwind"
    /\ outcome' = "cancelled"
    /\ asleep' = asleep \ {Main}
    /\ UNCHANGED <<toSeed, token, pc, taskVars, queueVars, held, sending,
                   pending, remaining, errors>>

(* gather() in _stop_workers returns when every worker has ended.          *)
MainJoined ==
    /\ \A n \in Nodes : pc[n] = "dead"
    /\ \/ /\ mainPc = "stop" /\ ~token
          /\ outcome' = "completed"
       \/ /\ mainPc = "unwind"
          /\ UNCHANGED outcome
    /\ mainPc' = "done"
    /\ UNCHANGED <<toSeed, token, pc, asleep, taskVars, queueVars, held,
                   sending, pending, remaining, errors>>

(* RunnerWorker._reconcile: the token is set and main is cancelled, with   *)
(* no await in between.                                                    *)
Cancel ==
    /\ mainPc # "done" /\ ~token
    /\ token' = TRUE
    /\ UNCHANGED <<mainVars, pc, asleep, taskVars, queueVars, held, sending,
                   pending, remaining, errors>>

-----------------------------------------------------------------------------
(* Workers: collecting a batch.  After _stop_workers has cancelled it, the *)
(* only thing a worker still does is to handle the cancellation.           *)

Running == mainPc \in {"seed", "wait"}

UpstreamCanProduce(n) ==
    \E u \in Upstream[n] : activeBy[u] > 0 \/ remaining[u] > 0

(* A bug: backpressure does not flush a batch.                             *)
MustFlushAtEnd(n) == ~UpstreamCanProduce(n)

MustFlush(n) == blockedBy[n] > 0 \/ ~UpstreamCanProduce(n)

Ready(n, target) ==
    \/ Len(queue[n]) >= target
    \/ Len(queue[n]) > 0 /\ MustFlush(n)

WaitedFor(n) == IF pc[n] = "first" THEN 1 ELSE Target[n]

CollectSleep(n) ==
    /\ Running /\ n \notin asleep
    /\ pc[n] \in {"first", "fill"}
    /\ ~Ready(n, WaitedFor(n))
    /\ asleep' = asleep \cup {n}
    /\ UNCHANGED <<mainVars, token, pc, taskVars, queueVars, held, sending,
                   pending, remaining, errors>>

CollectFirst(n) ==
    /\ Running /\ n \notin asleep
    /\ pc[n] = "first"
    /\ Ready(n, 1)
    /\ pc' = [pc EXCEPT ![n] = "fill"]
    /\ UNCHANGED <<mainVars, token, asleep, taskVars, queueVars, held, sending,
                   pending, remaining, errors>>

(* The tasks taken form one execute() batch: with at most Target[n] tasks  *)
(* and at most the budget's bytes, or a single task, build_batches does    *)
(* not split them (PlannerKeepsOneBatch).                                  *)
TakeBatch(n) ==
    LET k == IF Len(queue[n]) < Target[n] THEN Len(queue[n]) ELSE Target[n]
    IN  /\ held' = [held EXCEPT ![n] = SubSeq(queue[n], 1, k)]
        /\ queue' = [queue EXCEPT ![n] = SubSeq(@, k + 1, Len(@))]
        /\ pc' = [pc EXCEPT ![n] = "lease"]
        /\ UNCHANGED <<mainVars, token, taskVars, used, blockedBy, sending,
                       pending, remaining, errors>>

CollectBatch(n) ==
    /\ Running /\ n \notin asleep
    /\ pc[n] = "fill"
    /\ Ready(n, Target[n])
    /\ TakeBatch(n)
    /\ UNCHANGED asleep

CollectTimeout(n) ==
    /\ Running /\ n \in Timed
    /\ pc[n] = "fill"
    /\ TakeBatch(n)
    /\ asleep' = asleep \ {n}

-----------------------------------------------------------------------------
(* Workers: executing a batch under a resource lease.                      *)

Leased == {n \in Nodes : pc[n] = "execute"}

(* A waiter yields to every waiter that comes before it in the topological *)
(* order and could go ahead.                                               *)
AcquireLease(n) ==
    /\ Running /\ pc[n] = "lease"
    /\ Cardinality(Leased) < Slots
    /\ \A m \in Nodes : pc[m] = "lease" => Priority[n] <= Priority[m]
    /\ pc' = [pc EXCEPT ![n] = IF token THEN "raising" ELSE "execute"]
    /\ UNCHANGED <<mainVars, token, asleep, taskVars, queueVars, held, sending,
                   pending, remaining, errors>>

(* node.execute returns: an input node has consumed at least one item.     *)
(* The lease is released before the outputs are routed.                    *)
Execute(n) ==
    /\ Running /\ pc[n] = "execute"
    /\ \E r \in 0..MaxItems :
          /\ IF n \in InputNodes THEN r < remaining[n] ELSE r = 0
          /\ remaining' = [remaining EXCEPT ![n] = r]
    /\ \/ /\ token
          /\ pc' = [pc EXCEPT ![n] = "raising"]
          /\ UNCHANGED pending
       \/ /\ ~token
          /\ pc' = [pc EXCEPT ![n] = "route"]
          /\ \E k \in 0..MaxOut :
                /\ Succ(n) = {} => k = 0
                /\ pending' = [pending EXCEPT ![n] = k]
    /\ UNCHANGED <<mainVars, token, asleep, taskVars, queueVars, held, sending,
                   errors>>

(* The node, or the routing of its outputs, raises an Exception:           *)
(* node_failed, then _record_worker_error, and the tasks are still held.   *)
Fail(n) ==
    /\ Running /\ n \in Fallible
    /\ pc[n] \in {"execute", "route"}
    /\ pc' = [pc EXCEPT ![n] = "raising"]
    /\ pending' = [pending EXCEPT ![n] = 0]
    /\ errors' = errors \cup {n}
    /\ Notify
    /\ UNCHANGED <<mainVars, token, taskVars, queueVars, held, sending,
                   remaining>>

-----------------------------------------------------------------------------
(* Workers: admission of a task into the queue of m (TaskAdmission).       *)

(* Two bugs: the budget is checked before the task is counted; a task that *)
(* is larger than the budget waits for room that never comes.              *)
OverBudgetAlready(m, w) == used[m] > Budget
OverBudgetStrict(m, w)  == used[m] + w > Budget

OverBudget(m, w) == used[m] > 0 /\ used[m] + w > Budget

Full(m) == Len(queue[m]) >= QueueMax[m]

(* A worker that admitted a task goes on routing, or, when the task was    *)
(* the next one of its own input node, ends the batch.                     *)
AfterAdmission(n, m) == IF m = n THEN "finally" ELSE "route"

Enqueue(n, m, w) ==
    LET t == NewTask
    IN  /\ Register(t, m, w)
        /\ Notify
        /\ \/ /\ OverBudget(m, w)
              /\ blockedBy' = [blockedBy EXCEPT ![m] = @ + 1]
              /\ sending' = [sending EXCEPT ![n] = t]
              /\ pc' = [pc EXCEPT ![n] = "budget"]
              /\ UNCHANGED <<queue, used>>
           \/ /\ ~OverBudget(m, w) /\ Full(m)
              /\ used' = [used EXCEPT ![m] = @ + w]
              /\ blockedBy' = [blockedBy EXCEPT ![m] = @ + 1]
              /\ sending' = [sending EXCEPT ![n] = t]
              /\ pc' = [pc EXCEPT ![n] = "put"]
              /\ UNCHANGED queue
           \/ /\ ~OverBudget(m, w) /\ ~Full(m)
              /\ used' = [used EXCEPT ![m] = @ + w]
              /\ queue' = [queue EXCEPT ![m] = Append(@, t)]
              /\ pc' = [pc EXCEPT ![n] = AfterAdmission(n, m)]
              /\ UNCHANGED <<blockedBy, sending>>

(* budget.acquire returns; the put that follows may block in turn.         *)
GrantBudget(n) ==
    LET t == sending[n]
        m == owner[t]
    IN  /\ Running /\ pc[n] = "budget"
        /\ ~OverBudget(m, weight[t])
        /\ used' = [used EXCEPT ![m] = @ + weight[t]]
        /\ Notify
        /\ \/ /\ Full(m)
              /\ pc' = [pc EXCEPT ![n] = "put"]
              /\ UNCHANGED <<queue, blockedBy, sending>>
           \/ /\ ~Full(m)
              /\ queue' = [queue EXCEPT ![m] = Append(@, t)]
              /\ blockedBy' = [blockedBy EXCEPT ![m] = @ - 1]
              /\ sending' = [sending EXCEPT ![n] = NoTask]
              /\ pc' = [pc EXCEPT ![n] = AfterAdmission(n, m)]
        /\ UNCHANGED <<mainVars, token, taskVars, held, pending, remaining,
                       errors>>

GrantPut(n) ==
    LET t == sending[n]
        m == owner[t]
    IN  /\ Running /\ pc[n] = "put"
        /\ ~Full(m)
        /\ queue' = [queue EXCEPT ![m] = Append(@, t)]
        /\ blockedBy' = [blockedBy EXCEPT ![m] = @ - 1]
        /\ sending' = [sending EXCEPT ![n] = NoTask]
        /\ pc' = [pc EXCEPT ![n] = AfterAdmission(n, m)]
        /\ Notify
        /\ UNCHANGED <<mainVars, token, taskVars, used, held, pending,
                       remaining, errors>>

-----------------------------------------------------------------------------
(* Workers: routing and the end of a batch.                                *)

(* check_cancel raises in _deliver, in enqueue() or after batch_completed. *)
RouteCancelled(n) ==
    /\ Running /\ pc[n] = "route" /\ token
    /\ pc' = [pc EXCEPT ![n] = "raising"]
    /\ pending' = [pending EXCEPT ![n] = 0]
    /\ UNCHANGED <<mainVars, token, asleep, taskVars, queueVars, held, sending,
                   remaining, errors>>

Deliver(n) ==
    /\ Running /\ pc[n] = "route" /\ ~token
    /\ pending[n] > 0
    /\ pending' = [pending EXCEPT ![n] = @ - 1]
    /\ \E m \in Succ(n), w \in Weights : Enqueue(n, m, w)
    /\ UNCHANGED <<mainVars, token, held, remaining, errors>>

(* A bug: the last item is forgotten.                                      *)
MoreThanOneItem(n) == remaining[n] > 1

MoreItems(n) == remaining[n] > 0

(* An input node with items left puts its next task into its own queue     *)
(* before the finally clause completes the one it holds.                   *)
EndBatch(n) ==
    /\ Running /\ pc[n] = "route" /\ ~token
    /\ pending[n] = 0
    /\ \/ /\ MoreItems(n)
          /\ Enqueue(n, n, 0)
       \/ /\ ~MoreItems(n)
          /\ pc' = [pc EXCEPT ![n] = "finally"]
          /\ UNCHANGED <<asleep, taskVars, queueVars, sending>>
    /\ UNCHANGED <<mainVars, token, held, pending, remaining, errors>>

(* One turn of the loop over consumed_tasks in the finally clause.  After  *)
(* the last one the worker collects again, or ends if it is raising.       *)
Complete(n) ==
    LET t == Head(held[n])
    IN  /\ mainPc # "done"
        /\ pc[n] \in {"finally", "raising"}
        /\ held[n] # <<>>
        /\ used' = [used EXCEPT ![n] = @ - weight[t]]
        /\ Forget(t, n)
        /\ held' = [held EXCEPT ![n] = Tail(@)]
        /\ Notify
        /\ UNCHANGED <<mainVars, token, pc, queue, blockedBy, sending, pending,
                       remaining, errors>>

(* A bug: only the first task of a batch is completed.                     *)
LeaveFinallyEarly(n) ==
    /\ pc[n] \in {"finally", "raising"}
    /\ pc' = [pc EXCEPT ![n] = IF pc[n] = "raising" THEN "dead" ELSE "first"]
    /\ UNCHANGED <<mainVars, token, asleep, taskVars, queueVars, held, sending,
                   pending, remaining, errors>>

LeaveFinally(n) ==
    /\ pc[n] \in {"finally", "raising"}
    /\ held[n] = <<>>
    /\ pc' = [pc EXCEPT ![n] = IF pc[n] = "raising" THEN "dead" ELSE "first"]
    /\ UNCHANGED <<mainVars, token, asleep, taskVars, queueVars, held, sending,
                   pending, remaining, errors>>

-----------------------------------------------------------------------------
(* Workers: the CancelledError of _stop_workers.                           *)

Stopping == mainPc \in {"stop", "unwind"}

(* Nothing is held while the worker waits for a batch.                     *)
CancelIdle(n) ==
    /\ Stopping /\ pc[n] \in {"first", "fill"}
    /\ pc' = [pc EXCEPT ![n] = "dead"]
    /\ asleep' = asleep \ {n}
    /\ UNCHANGED <<mainVars, token, taskVars, queueVars, held, sending,
                   pending, remaining, errors>>

CancelBusy(n) ==
    /\ Stopping /\ pc[n] \in {"lease", "execute", "route"}
    /\ pc' = [pc EXCEPT ![n] = "raising"]
    /\ pending' = [pending EXCEPT ![n] = 0]
    /\ UNCHANGED <<mainVars, token, asleep, taskVars, queueVars, held, sending,
                   remaining, errors>>

(* Two bugs: the bytes are given back although acquire() was cancelled;    *)
(* they are not given back when put() is cancelled.                        *)
GrantedAlways(n) == weight[sending[n]]
GrantedNever(n)  == 0

(* What the admission n is blocked in has taken from the budget.           *)
Granted(n) == IF pc[n] = "put" THEN weight[sending[n]] ELSE 0

(* enqueue() gives back what it holds and discards the task.  If the task  *)
(* came from routing, _enqueue_tracked then calls finish_task on a lineage *)
(* that abandon_all has deleted: its RuntimeError replaces the             *)
(* CancelledError and the worker reports its node as failed.               *)
CancelAdmission(n) ==
    LET t == sending[n]
        m == owner[t]
    IN  /\ Stopping /\ pc[n] \in {"budget", "put"}
        /\ used' = [used EXCEPT ![m] = @ - Granted(n)]
        /\ Forget(t, m)
        /\ blockedBy' = [blockedBy EXCEPT ![m] = @ - 1]
        /\ sending' = [sending EXCEPT ![n] = NoTask]
        /\ pending' = [pending EXCEPT ![n] = 0]
        /\ errors' = IF m # n THEN errors \cup {n} ELSE errors
        /\ pc' = [pc EXCEPT ![n] = "raising"]
        /\ Notify
        /\ UNCHANGED <<mainVars, token, queue, held, remaining>>

-----------------------------------------------------------------------------
(* The specification.                                                      *)

Worker(n) ==
    \/ CollectSleep(n) \/ CollectFirst(n) \/ CollectBatch(n)
    \/ CollectTimeout(n) \/ AcquireLease(n) \/ Execute(n) \/ Fail(n)
    \/ Deliver(n) \/ GrantBudget(n) \/ GrantPut(n) \/ RouteCancelled(n)
    \/ EndBatch(n) \/ Complete(n) \/ LeaveFinally(n)
    \/ CancelIdle(n) \/ CancelBusy(n) \/ CancelAdmission(n)

MainStep ==
    \/ \E i \in InputNodes : SeedInput(i)
    \/ SeedDone \/ MainSleep \/ MainWake \/ MainCancelled \/ MainJoined

(* The run is over: nothing of it is left to take a step.                  *)
Ended == mainPc = "done" /\ UNCHANGED vars

Next ==
    \/ MainStep
    \/ \E n \in Nodes : Worker(n)
    \/ Cancel
    \/ Ended

(* The event loop runs every coroutine that can go on, and every node's    *)
(* execute() returns or raises.  Nobody has to stop the run.               *)
Fairness == WF_vars(MainStep) /\ \A n \in Nodes : WF_vars(Worker(n))

Spec == Init /\ [][Next]_vars
FairSpec == Spec /\ Fairness

-----------------------------------------------------------------------------
(* Properties.                                                             *)

WorkerStates == {"first", "fill", "lease", "execute", "route", "budget", "put",
                 "finally", "raising", "dead"}

(* Every variable holds a value of its type, in every state of a run.      *)
TypeOK ==
    /\ mainPc \in {"seed", "wait", "stop", "unwind", "done"}
    /\ toSeed \subseteq InputNodes
    /\ outcome \in {"none", "completed", "failed", "cancelled"}
    /\ token \in BOOLEAN
    /\ pc \in [Nodes -> WorkerStates]
    /\ asleep \subseteq Nodes \cup {Main}
    /\ owner \in [Tasks -> Nodes \cup {NoNode}]
    /\ weight \in [Tasks -> Nat]
    /\ queue \in [Nodes -> Seq(Tasks)]
    /\ held \in [Nodes -> Seq(Tasks)]
    /\ sending \in [Nodes -> Tasks \cup {NoTask}]
    /\ pending \in [Nodes -> Nat]
    /\ used \in [Nodes -> Nat]
    /\ activeTotal \in Nat
    /\ activeBy \in [Nodes -> Nat]
    /\ blockedBy \in [Nodes -> Nat]
    /\ remaining \in [Nodes -> 0..MaxItems]
    /\ errors \subseteq Nodes

Admitting(n) == pc[n] \in {"budget", "put"}

Elems(s) == {s[i] : i \in 1..Len(s)}
Distinct(s) == \A i, j \in 1..Len(s) : s[i] = s[j] => i = j

AtOwnNode ==
    \A n \in Nodes :
        /\ Elems(queue[n]) \subseteq TasksOf(n)
        /\ Elems(held[n]) \subseteq TasksOf(n)
        /\ Elems(queue[n]) \cap Elems(held[n]) = {}
        /\ Distinct(queue[n]) /\ Distinct(held[n])

HeldWhileBusy ==
    \A n \in Nodes :
        /\ pc[n] = "fill" => queue[n] # <<>>
        /\ pc[n] \in {"first", "fill", "dead"} => held[n] = <<>>
        /\ pc[n] \in {"lease", "execute", "route", "budget", "put"} => held[n] # <<>>

SentIsApart ==
    \A n \in Nodes :
        /\ sending[n] # NoTask <=> Admitting(n)
        /\ Admitting(n) =>
            /\ sending[n] \in Live
            /\ \A m \in Nodes :
                /\ sending[n] \notin Elems(queue[m]) \cup Elems(held[m])
                /\ sending[m] = sending[n] => m = n

NoneLost ==
    \A t \in Live :
        \/ t \in Elems(queue[owner[t]]) \cup Elems(held[owner[t]])
        \/ \E n \in Nodes : sending[n] = t

(* A task that is alive is in exactly one place, and at its own node:      *)
(* waiting to be admitted, in the queue, or held by the worker.  A worker  *)
(* that is past collecting holds at least one task, so execute() is never  *)
(* called on an empty batch (the contract of Node in core/node.py).        *)
TasksInPlace == AtOwnNode /\ HeldWhileBusy /\ SentIsApart /\ NoneLost

(* The counters that decide when a run is over and when a batch is flushed *)
(* agree with the tasks there are, whatever admissions were cancelled.     *)
Blockers(n) == {p \in Nodes : Admitting(p) /\ owner[sending[p]] = n}

CountersExact ==
    /\ activeTotal = Cardinality(Live)
    /\ \A n \in Nodes :
        /\ activeBy[n] = Cardinality(TasksOf(n))
        /\ blockedBy[n] = Cardinality(Blockers(n))

(* WeightBudget accounts for exactly the tasks it has admitted, one unit   *)
(* per byte, and goes over the budget only for one oversized task (tasks   *)
(* without inputs, which weigh nothing, may be beside it).                 *)
Admitted(n) ==
    {t \in TasksOf(n) : \A p \in Nodes : pc[p] = "budget" => sending[p] # t}
Bytes(A, w) == UNION {{t} \X (1..w[t]) : t \in A}

BudgetExact ==
    \A n \in Nodes :
        /\ used[n] = Cardinality(Bytes(Admitted(n), weight))
        /\ used[n] <= Budget \/ \E t \in Admitted(n) : used[n] = weight[t]

(* Nobody sleeps on the condition while what it waits for is true: no      *)
(* change of a queue, a counter, an input or the errors goes unnotified.   *)
NoMissedWakeup ==
    /\ Main \in asleep => mainPc = "wait" /\ ~IdleOrFailed
    /\ \A n \in Nodes \cap asleep :
          pc[n] \in {"first", "fill"} /\ ~Ready(n, WaitedFor(n))

(* A run that is reported completed has taken every input item, has no     *)
(* task left in any queue or worker, and no node of it failed.             *)
CompletedMeansDone ==
    outcome = "completed" \/ mainPc = "stop" =>
        /\ Live = {}
        /\ errors = {}
        /\ \A n \in Nodes : remaining[n] = 0 /\ queue[n] = <<>> /\ used[n] = 0

(* collect() hands build_batches at most Target[n] tasks that the budget   *)
(* admitted together, so the byte target of the planner never splits them: *)
(* execute() gets everything the worker took in one batch.                 *)
Planner == INSTANCE BatchPlanner

Collected(n) == [i \in DOMAIN held[n] |-> [weight |-> weight[held[n][i]], key |-> 0]]
PolicyOf(n) == [mode |-> "micro_batch", preferred |-> Target[n],
                max |-> Target[n], sortBy |-> FALSE]

PlannerKeepsOneBatch ==
    \A n \in Nodes : held[n] # <<>> =>
        Planner!BuildBatches(Collected(n), PolicyOf(n), Budget) = <<Collected(n)>>

(* The engine does what TaskRun promises.                                  *)
Status == IF outcome = "none" THEN "running"
          ELSE IF outcome = "completed" THEN "completed" ELSE "aborted"

Promise == INSTANCE TaskRun WITH
    left <- remaining, live <- Live, seeding <- (mainPc = "seed"), status <- Status

ImplementsTaskRun == Promise!Spec

(* Every run ends: bounded queues, budgets, batch targets and the lease    *)
(* never leave everyone waiting for everyone, and a stop gets through.     *)
RunEnds == <>(mainPc = "done")
=============================================================================
