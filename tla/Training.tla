------------------------------ MODULE Training ------------------------------
(***************************************************************************)
(* A training process of beetle2: a thread plans and loads windows of      *)
(* batches ahead of the training loop, bounded by one queue slot and by    *)
(* decoded bytes; the loop recovers from failing batches, from a failing   *)
(* producer and from failing checkpoints; a killed process is started      *)
(* again from any checkpoint on disk.                                      *)
(*                                                                         *)
(* A batch is its number in the order of planning.  The trainer is one     *)
(* thread, the producer another; a step is what one of them does between   *)
(* two accesses to what they share (queue, stop event, byte counter), or   *)
(* up to a point where the process can be killed with a different result.  *)
(***************************************************************************)
EXTENDS Naturals, Sequences, FiniteSets

CONSTANTS
    WindowSize,         \* data.prefetch.window_size
    MaxBytes,           \* data.prefetch.decoded_bytes
    Bytes(_),           \* Bytes(b): the estimate for batch b
    TotalSteps,         \* training.total_steps
    Accumulation,       \* training.accumulation_steps
    ValidationEvery,    \* training.validation_every_steps
    CheckpointEvery,    \* checkpoint.every_steps
    KeepLast,           \* checkpoint.keep_last
    MaxFaults,          \* failures of any kind (a bound)
    MaxRestarts         \* processes after the first (a bound)

ASSUME ConfigAssumption ==
    /\ WindowSize \in Nat \ {0} /\ MaxBytes \in Nat \ {0}
    /\ TotalSteps \in Nat \ {0} /\ Accumulation \in Nat \ {0}
    /\ ValidationEvery \in Nat \ {0}
    /\ CheckpointEvery \in Nat \ {0} /\ KeepLast \in Nat \ {0}
ASSUME BoundsAssumption == MaxFaults \in Nat /\ MaxRestarts \in Nat

VARIABLES
    planner,        \* ContinuousBatchPlanner: given, planned, pending
    committed,      \* the planner's state after the last consumed batch
    queue,          \* the one-slot queue: windows, or a failure
    reserved,       \* bytes the pipeline counts as reserved
    stop,           \* the stop event of the current producer
    producer,       \* the thread: plan, reserve, load, put, fail, ending, dead
    window,         \* what the producer works on
    active,         \* the rest of the window the trainer works on
    inFlight,       \* the batch fetched and not yet consumed: none or one
    trainer,        \* the position of the training loop
    micro,          \* batches of this update so far
    grads,          \* batches in the accumulated gradients
    model,          \* the batches of each optimizer step so far
    batchIndex,     \* batches the trainer counts
    validated,      \* first_validation_succeeded
    elapsed,        \* five minutes have passed since the start
    disk,           \* the checkpoints step_<n>
    faults, restarts

pipeline == <<planner, committed, queue, reserved, stop, producer, window,
              active, inFlight>>
learning == <<micro, grads, model, batchIndex>>
vars == <<pipeline, trainer, learning, validated, elapsed, disk, faults,
          restarts>>

-----------------------------------------------------------------------------
(* The planner.                                                            *)

FreshPlanner == [given |-> 0, planned |-> 0, pending |-> <<>>]

Planned(p) ==
    IF p.pending # <<>> THEN p
    ELSE [p EXCEPT !.planned = p.planned + WindowSize,
                   !.pending = [i \in 1..WindowSize |-> p.planned + i]]

WindowLen(p) ==
    IF Len(p.pending) < WindowSize THEN Len(p.pending) ELSE WindowSize

Handed(p, k) ==
    [p EXCEPT !.given = p.given + k,
              !.pending = SubSeq(p.pending, k + 1, Len(p.pending))]

(* A bug: the state before the batch.                                      *)
ItemStateBefore(p, k) ==
    [id |-> p.pending[k], after |-> Handed(p, k - 1), ok |-> TRUE]

(* Batch k of the next window, with the planner's state after it.          *)
Item(p, k) == [id |-> p.pending[k], after |-> Handed(p, k), ok |-> TRUE]

NextWindow(p) == [k \in 1..WindowLen(Planned(p)) |-> Item(Planned(p), k)]
AfterWindow(p) == Handed(Planned(p), WindowLen(Planned(p)))

ByteSum(w) ==
    LET upTo[k \in 0..Len(w)] ==
            IF k = 0 THEN 0 ELSE upTo[k - 1] + Bytes(w[k].id)
    IN  upTo[Len(w)]

(* What the producer puts into the queue.                                  *)
Loaded(items) == [failed |-> FALSE, items |-> items]
Failure == [failed |-> TRUE, items |-> <<>>]

-----------------------------------------------------------------------------
(* The start of a process, from the state of a checkpoint or none.         *)

FreshState == [step |-> 0, planner |-> FreshPlanner, batchIndex |-> 0,
               model |-> <<>>]

Launch(p) ==
    /\ planner' = p
    /\ committed' = p
    /\ queue' = <<>> /\ reserved' = 0 /\ stop' = FALSE
    /\ producer' = "plan" /\ window' = <<>>
    /\ active' = <<>>

Init ==
    /\ planner = FreshPlanner /\ committed = FreshPlanner
    /\ queue = <<>> /\ reserved = 0 /\ stop = FALSE
    /\ producer = "plan" /\ window = <<>> /\ active = <<>> /\ inFlight = <<>>
    /\ trainer = "top"
    /\ micro = 0 /\ grads = {} /\ model = <<>> /\ batchIndex = 0
    /\ validated = FALSE /\ elapsed = FALSE
    /\ disk = {}
    /\ faults = 0 /\ restarts = 0

Running == trainer \notin {"done", "failed", "killed"}

Fault == faults < MaxFaults /\ faults' = faults + 1

-----------------------------------------------------------------------------
(* The producer thread.                                                    *)

(* next_window() and the estimates.                                        *)
Plan ==
    /\ Running /\ producer = "plan"
    /\ IF stop
       THEN producer' = "ending" /\ UNCHANGED <<planner, window>>
       ELSE /\ planner' = AfterWindow(planner)
            /\ window' = NextWindow(planner)
            /\ producer' = "reserve"
    /\ UNCHANGED <<committed, queue, reserved, stop, active, inFlight, trainer,
                   learning, validated, elapsed, disk, faults, restarts>>

(* Planning raises, before or after the planner has moved.                 *)
PlanFails ==
    /\ Running /\ producer = "plan" /\ ~stop
    /\ Fault
    /\ planner' \in {planner, AfterWindow(planner)}
    /\ producer' = "fail"
    /\ UNCHANGED <<committed, queue, reserved, stop, window, active, inFlight,
                   trainer, learning, validated, elapsed, disk, restarts>>

(* A bug: the limit is tested before the window is added.                  *)
FitsBefore == reserved <= MaxBytes

Fits == reserved + ByteSum(window) <= MaxBytes

(* A bug: the wait for bytes does not end when the pipeline stops.         *)
ReserveDeaf ==
    /\ Running /\ producer = "reserve" /\ Fits
    /\ reserved' = reserved + ByteSum(window)
    /\ producer' = "load"
    /\ UNCHANGED <<planner, committed, queue, stop, window, active, inFlight,
                   trainer, learning, validated, elapsed, disk, faults, restarts>>

(* The producer waits until the window fits, or the pipeline stops.        *)
Reserve ==
    /\ Running /\ producer = "reserve"
    /\ \/ /\ stop
          /\ producer' = "ending"
          /\ window' = <<>>
          /\ UNCHANGED reserved
       \/ /\ ~stop /\ Fits
          /\ reserved' = reserved + ByteSum(window)
          /\ producer' = "load"
          /\ UNCHANGED window
    /\ UNCHANGED <<planner, committed, queue, stop, active, inFlight, trainer,
                   learning, validated, elapsed, disk, faults, restarts>>

(* Every batch of the window is loaded, or its error kept in its place.    *)
Load ==
    /\ Running /\ producer = "load"
    /\ \E bad \in SUBSET DOMAIN window :
        /\ faults + Cardinality(bad) <= MaxFaults
        /\ faults' = faults + Cardinality(bad)
        /\ window' = [i \in DOMAIN window |->
                         [window[i] EXCEPT !.ok = i \notin bad]]
    /\ producer' = "put"
    /\ UNCHANGED <<planner, committed, queue, reserved, stop, active, inFlight,
                   trainer, learning, validated, elapsed, disk, restarts>>

(* A bug: a queue without a bound.                                         *)
PutUnbounded ==
    /\ Running /\ producer = "put"
    /\ queue' = Append(queue, Loaded(window))
    /\ window' = <<>>
    /\ producer' = "plan"
    /\ UNCHANGED <<planner, committed, reserved, stop, active, inFlight,
                   trainer, learning, validated, elapsed, disk, faults, restarts>>

(* _put looks at the stop event before it waits for the slot, not after.   *)
Put ==
    /\ Running /\ producer = "put" /\ queue = <<>>
    /\ queue' = <<Loaded(window)>>
    /\ window' = <<>>
    /\ producer' = "plan"
    /\ UNCHANGED <<planner, committed, reserved, stop, active, inFlight,
                   trainer, learning, validated, elapsed, disk, faults, restarts>>

PutStopped ==
    /\ Running /\ producer = "put" /\ stop
    /\ reserved' = reserved - ByteSum(window)
    /\ window' = <<>>
    /\ producer' = "ending"
    /\ UNCHANGED <<planner, committed, queue, stop, active, inFlight, trainer,
                   learning, validated, elapsed, disk, faults, restarts>>

PutFailure ==
    /\ Running /\ producer = "fail"
    /\ \/ stop /\ UNCHANGED queue
       \/ queue = <<>> /\ queue' = <<Failure>>
    /\ producer' = "ending"
    /\ UNCHANGED <<planner, committed, reserved, stop, window, active, inFlight,
                   trainer, learning, validated, elapsed, disk, faults, restarts>>

ProducerEnds ==
    /\ Running /\ producer = "ending"
    /\ producer' = "dead"
    /\ UNCHANGED <<planner, committed, queue, reserved, stop, window, active,
                   inFlight, trainer, learning, validated, elapsed, disk, faults,
                   restarts>>

-----------------------------------------------------------------------------
(* The training loop: taking a batch.                                      *)

Due(n, every) == n % every = 0
Step == Len(model)

AtEnd ==
    IF ~ Due(Step, ValidationEvery) THEN "final validate"
    ELSE IF ~ Due(Step, CheckpointEvery) THEN "final save" ELSE "finish"

(* The top of the loop drops the gradients of the update before.           *)
Top ==
    /\ trainer = "top"
    /\ trainer' = IF Step < TotalSteps THEN "fetch" ELSE AtEnd
    /\ micro' = 0 /\ grads' = {}
    /\ UNCHANGED <<pipeline, model, batchIndex, validated, elapsed, disk, faults,
                   restarts>>

RecoveryAllowed == validated \/ elapsed

(* The first five minutes are over.                                        *)
TimePasses ==
    /\ Running /\ ~elapsed
    /\ elapsed' = TRUE
    /\ UNCHANGED <<pipeline, trainer, learning, validated, disk, faults, restarts>>

(* mark_consumed(), and the trainer's count.                               *)
Consumed(item) ==
    /\ committed' = item.after
    /\ reserved' = reserved - Bytes(item.id)
    /\ inFlight' = <<>>
    /\ batchIndex' = batchIndex + 1

(* The exception leaves the loop.                                          *)
Raise ==
    /\ trainer' = "fail"
    /\ UNCHANGED <<committed, reserved, batchIndex, grads>>

(* A bug: the update goes on after a lost batch.                           *)
SkipAndGoOn(item) ==
    IF RecoveryAllowed
    THEN Consumed(item) /\ grads' = {} /\ trainer' = "fetch"
    ELSE Raise /\ inFlight' = <<item>>

(* A bug: a lost batch keeps its bytes.                                    *)
SkipUnreleased(item) ==
    IF RecoveryAllowed
    THEN /\ committed' = item.after
         /\ inFlight' = <<>>
         /\ batchIndex' = batchIndex + 1
         /\ grads' = {} /\ trainer' = "top"
         /\ UNCHANGED reserved
    ELSE Raise /\ inFlight' = <<item>>

(* A batch that fails to load or to train: consumed, and the update is     *)
(* given up, unless it is too early for recovery.                          *)
SkipBatch(item) ==
    IF RecoveryAllowed
    THEN Consumed(item) /\ grads' = {} /\ trainer' = "top"
    ELSE Raise /\ inFlight' = <<item>>

(* next_batch() once it has a window: a batch that failed to load raises.  *)
Take(items) ==
    /\ active' = Tail(items)
    /\ IF Head(items).ok
       THEN /\ inFlight' = <<Head(items)>>
            /\ trainer' = "step"
            /\ UNCHANGED <<committed, reserved, batchIndex, grads>>
       ELSE SkipBatch(Head(items))
    /\ UNCHANGED <<planner, stop, producer, window, micro, model, validated,
                   elapsed, disk, faults, restarts>>

FetchActive ==
    /\ trainer = "fetch" /\ active # <<>>
    /\ Take(active)
    /\ UNCHANGED queue

FetchWindow ==
    /\ trainer = "fetch" /\ active = <<>>
    /\ queue # <<>> /\ ~ queue[1].failed
    /\ Take(queue[1].items)
    /\ queue' = <<>>

PrefetchError ==
    /\ IF RecoveryAllowed
       THEN trainer' = "join" /\ stop' = TRUE
       ELSE trainer' = "fail" /\ UNCHANGED stop
    /\ UNCHANGED <<planner, committed, reserved, producer, window, active,
                   inFlight, learning, validated, elapsed, disk, faults, restarts>>

FetchFailure ==
    /\ trainer = "fetch" /\ active = <<>> /\ queue # <<>> /\ queue[1].failed
    /\ queue' = <<>>
    /\ PrefetchError

(* get() times out; only then is the thread looked at.                     *)
FetchTimesOut ==
    /\ trainer = "fetch" /\ active = <<>> /\ queue = <<>>
    /\ trainer' = "empty"
    /\ UNCHANGED <<pipeline, learning, validated, elapsed, disk, faults, restarts>>

StillAlive ==
    /\ trainer = "empty" /\ producer # "dead"
    /\ trainer' = "fetch"
    /\ UNCHANGED <<pipeline, learning, validated, elapsed, disk, faults, restarts>>

ProducerGone ==
    /\ trainer = "empty" /\ producer = "dead"
    /\ PrefetchError
    /\ UNCHANGED queue

(* A bug: the pipeline starts again where the producer had got to.         *)
RestartAhead ==
    /\ trainer = "join" /\ producer = "dead"
    /\ Launch(planner)
    /\ grads' = {}
    /\ trainer' = "top"
    /\ UNCHANGED <<inFlight, micro, model, batchIndex, validated, elapsed, disk,
                   faults, restarts>>

(* load_state_dict() of the committed state, once the thread has ended.    *)
RestartPipeline ==
    /\ trainer = "join" /\ producer = "dead"
    /\ Launch(committed)
    /\ grads' = {}
    /\ trainer' = "top"
    /\ UNCHANGED <<inFlight, micro, model, batchIndex, validated, elapsed, disk,
                   faults, restarts>>

(* The join gives up after ten seconds; the restart is deferred.           *)
JoinTimesOut ==
    /\ trainer = "join" /\ producer # "dead"
    /\ Fault
    /\ grads' = {}
    /\ trainer' = "top"
    /\ UNCHANGED <<pipeline, micro, model, batchIndex, validated, elapsed, disk,
                   restarts>>

-----------------------------------------------------------------------------
(* Learning from it.                                                       *)

TrainStep ==
    /\ trainer = "step"
    /\ Consumed(inFlight[1])
    /\ grads' = grads \cup {inFlight[1].id}
    /\ micro' = micro + 1
    /\ trainer' = IF micro + 1 = Accumulation THEN "update" ELSE "fetch"
    /\ UNCHANGED <<planner, queue, stop, producer, window, active, model,
                   validated, elapsed, disk, faults, restarts>>

TrainStepFails ==
    /\ trainer = "step"
    /\ Fault
    /\ SkipBatch(inFlight[1])
    /\ UNCHANGED <<planner, queue, stop, producer, window, active, micro, model,
                   validated, elapsed, disk, restarts>>

Nonfinite ==
    /\ trainer = "update"
    /\ Fault
    /\ grads' = {}
    /\ trainer' = "top"
    /\ UNCHANGED <<pipeline, micro, model, batchIndex, validated, elapsed, disk,
                   restarts>>

AfterUpdate(step) ==
    IF Due(step, ValidationEvery) THEN "validate"
    ELSE IF Due(step, CheckpointEvery) THEN "save" ELSE "top"

AfterValidation ==
    IF trainer = "validate"
    THEN IF Due(Step, CheckpointEvery) THEN "save" ELSE "top"
    ELSE IF ~ Due(Step, CheckpointEvery) THEN "final save" ELSE "finish"

(* The optimizer steps; reporting the progress may fail.                   *)
Update ==
    /\ trainer = "update"
    /\ model' = Append(model, grads)
    /\ grads' = {}
    /\ \/ trainer' = AfterUpdate(Step + 1) /\ UNCHANGED faults
       \/ /\ Fault
          /\ trainer' = IF RecoveryAllowed THEN AfterUpdate(Step + 1) ELSE "fail"
    /\ UNCHANGED <<pipeline, micro, batchIndex, validated, elapsed, disk, restarts>>

Validate ==
    /\ trainer \in {"validate", "final validate"}
    /\ \/ /\ validated' = TRUE
          /\ trainer' = AfterValidation
          /\ UNCHANGED faults
       \/ /\ Fault
          /\ trainer' = IF validated THEN AfterValidation ELSE "fail"
          /\ UNCHANGED validated
    /\ UNCHANGED <<pipeline, learning, elapsed, disk, restarts>>

(* A bug: the planner's own state is saved, not that after the last        *)
(* consumed batch.                                                         *)
CheckpointAhead ==
    [step |-> Step, planner |-> planner, batchIndex |-> batchIndex,
     model |-> model]

Checkpoint ==
    [step |-> Step, planner |-> committed, batchIndex |-> batchIndex,
     model |-> model]

Saving == trainer \in {"save", "final save"}
Saved  == IF trainer \in {"save", "prune"} THEN "top" ELSE "finish"

(* save(): a directory of that step, left by a process that went further,  *)
(* makes os.replace fail.                                                  *)
Save ==
    /\ Saving
    /\ \A c \in disk : c.step # Step
    /\ disk' = disk \cup {Checkpoint}
    /\ trainer' = IF trainer = "save" THEN "prune" ELSE "final prune"
    /\ UNCHANGED <<pipeline, learning, validated, elapsed, faults, restarts>>

SaveFails ==
    /\ Saving
    /\ \/ (\E c \in disk : c.step = Step) /\ UNCHANGED faults
       \/ Fault
    /\ trainer' = Saved
    /\ UNCHANGED <<pipeline, learning, validated, elapsed, disk, restarts>>

(* A bug: the slice of the expired checkpoints at the wrong end.           *)
KeptOldest == {c \in disk : Cardinality({d \in disk : d.step < c.step}) < KeepLast}

(* The checkpoints of the highest steps are kept.                          *)
Kept == {c \in disk : Cardinality({d \in disk : d.step > c.step}) < KeepLast}

Prune ==
    /\ trainer \in {"prune", "final prune"}
    /\ disk' = Kept
    /\ trainer' = Saved
    /\ UNCHANGED <<pipeline, learning, validated, elapsed, faults, restarts>>

-----------------------------------------------------------------------------
(* The end of a process, and the next one.                                 *)

(* The finally clause stops the producer.                                  *)
Close ==
    /\ trainer \in {"fail", "finish"}
    /\ stop' = TRUE
    /\ trainer' = IF trainer = "fail" THEN "fail join" ELSE "join end"
    /\ UNCHANGED <<planner, committed, queue, reserved, producer, window, active,
                   inFlight, learning, validated, elapsed, disk, faults, restarts>>

(* A join that gives up is only logged: the thread ends with the process.  *)
Exit ==
    /\ trainer \in {"fail join", "join end"}
    /\ \/ producer = "dead" /\ UNCHANGED faults
       \/ producer # "dead" /\ Fault
    /\ trainer' = IF trainer = "fail join" THEN "failed" ELSE "done"
    /\ UNCHANGED <<pipeline, learning, validated, elapsed, disk, restarts>>

Kill ==
    /\ Running
    /\ Fault
    /\ trainer' = "killed"
    /\ UNCHANGED <<pipeline, learning, validated, elapsed, disk, restarts>>

(* train --resume of any checkpoint, or without one, into the same output. *)
Restart ==
    /\ trainer \in {"failed", "killed"}
    /\ restarts < MaxRestarts
    /\ restarts' = restarts + 1
    /\ \E c \in disk \cup {FreshState} :
        /\ Launch(c.planner)
        /\ model' = c.model
        /\ batchIndex' = c.batchIndex
    /\ inFlight' = <<>>
    /\ micro' = 0 /\ grads' = {}
    /\ trainer' = "top"
    /\ validated' = FALSE /\ elapsed' = FALSE
    /\ UNCHANGED <<disk, faults>>

Produce ==
    \/ Plan \/ PlanFails \/ Reserve \/ Load \/ Put \/ PutStopped
    \/ PutFailure \/ ProducerEnds

Train ==
    \/ Top \/ FetchActive \/ FetchWindow \/ FetchFailure \/ FetchTimesOut
    \/ StillAlive \/ ProducerGone \/ RestartPipeline \/ JoinTimesOut
    \/ TrainStep \/ TrainStepFails \/ Nonfinite \/ Update \/ Validate
    \/ Save \/ SaveFails \/ Prune \/ Close \/ Exit

Next == Produce \/ Train \/ TimePasses \/ Kill \/ Restart

Spec == Init /\ [][Next]_vars

(* Both threads are scheduled.  Nothing has to fail or to be started       *)
(* again.                                                                  *)
FairSpec == Spec /\ WF_vars(Produce) /\ WF_vars(Train)

-----------------------------------------------------------------------------

(* Every variable holds a value of its type; what reserved holds is said   *)
(* by BytesAreExact.                                                       *)
Planners ==
    [given : Nat, planned : Nat, pending : Seq(Nat \ {0})]
Items == [id : Nat \ {0}, after : Planners, ok : BOOLEAN]

TypeOK ==
    /\ planner \in Planners /\ committed \in Planners
    /\ queue \in Seq([failed : BOOLEAN, items : Seq(Items)])
    /\ Len(queue) <= 1
    /\ stop \in BOOLEAN
    /\ producer \in {"plan", "reserve", "load", "put", "fail", "ending", "dead"}
    /\ window \in Seq(Items) /\ active \in Seq(Items)
    /\ inFlight \in Seq(Items) /\ Len(inFlight) <= 1
    /\ trainer \in {"top", "fetch", "empty", "join", "step", "update", "validate",
                    "save", "prune", "final validate", "final save",
                    "final prune", "finish", "fail", "join end", "fail join",
                    "done", "failed", "killed"}
    /\ micro \in 0..Accumulation
    /\ grads \in SUBSET (Nat \ {0})
    /\ model \in Seq(SUBSET (Nat \ {0}))
    /\ batchIndex \in Nat
    /\ validated \in BOOLEAN /\ elapsed \in BOOLEAN
    /\ \A c \in disk : /\ c.step \in Nat /\ c.planner \in Planners
                       /\ c.batchIndex \in Nat
                       /\ c.model \in Seq(SUBSET (Nat \ {0}))
    /\ faults \in 0..MaxFaults /\ restarts \in 0..MaxRestarts

(* What the trainer holds, what is ready for it, what is on its way.       *)
Queued == IF queue = <<>> THEN <<>> ELSE queue[1].items
Ready  == inFlight \o active \o Queued
Ahead  == Ready \o window
Reserved ==
    Ready \o (IF producer \in {"load", "put"} THEN window ELSE <<>>)

(* The bytes counted as reserved are those of the batches that are loaded  *)
(* or being loaded and not consumed, and within the limit: nothing is      *)
(* released twice or kept, whichever way a batch leaves the pipeline.      *)
BytesAreExact ==
    /\ reserved = ByteSum(Reserved)
    /\ reserved <= MaxBytes

(* The pipeline holds the batches that follow the last consumed one, and   *)
(* each carries the state from which its successor is planned: neither a   *)
(* failure nor a restart skips a batch or brings one back.                 *)
PipelineIsInOrder ==
    /\ \A i \in DOMAIN Ahead :
        /\ Ahead[i].id = committed.given + i
        /\ Ahead[i].after.given = Ahead[i].id
    /\ batchIndex = committed.given

(* An optimizer step takes exactly the configured number of batches: a     *)
(* batch that is lost in the middle starts the update anew.                *)
UpdatesAreWhole == \A i \in DOMAIN model : Cardinality(model[i]) = Accumulation

(* Training implements BatchStream: the position of the stream is that of  *)
(* the committed state, on disk that of the saved planner.                 *)
Stream == INSTANCE BatchStream
            WITH next <- committed.given,
                 saved <- {[next |-> c.planner.given, model |-> c.model] :
                               c \in disk}
StreamSpec == Stream!Spec

(* No batch is learnt from twice, in memory or in a checkpoint, whatever   *)
(* is lost, restarted or resumed.                                          *)
LearntOnce == Stream!LearntOnce

(* Neither a failed save nor pruning nor a restart leaves the disk with an *)
(* older latest checkpoint than it had.                                    *)
LatestStaysOnDisk ==
    [][\A c \in disk : \E d \in disk' : d.step >= c.step]_disk

(* A process ends: no thread waits for bytes, for the slot or for the      *)
(* other thread for ever, if a window fits the limit at all.               *)
ProcessEnds == <>[](trainer \in {"done", "failed", "killed"})
=============================================================================
