-------------------------- MODULE JobCoordination --------------------------
(***************************************************************************)
(* How the backend and the runners share jobs through the database:        *)
(* the transactions of shared/db/jobs/coordination_crud.py, the handlers   *)
(* of backend/service.py that call them, and the process of a runner       *)
(* (runner/worker.py, runner/run_execution.py, runner/state_buffer.py).    *)
(*                                                                         *)
(* One row per job, one process per runner.  A runner has two coroutines:  *)
(* its poll loop, and the task of the job it executes; a database call is  *)
(* made in a thread, so the other coroutine goes on in the meantime, and a *)
(* call whose coroutine was cancelled still reaches the database.  Row     *)
(* locks make claim_jobs and flush_runner_state atomic.                    *)
(* set_desired_job_state takes no lock: it reads the row in one step and   *)
(* writes what it decided in another.  The handlers of the backend run to  *)
(* their next await without interruption by each other.                    *)
(*                                                                         *)
(* Time is left out: a lease is live or expired, twenty polls of a quarter *)
(* second are any number of polls, "due" is a choice.                      *)
(***************************************************************************)
EXTENDS Naturals, FiniteSets

CONSTANTS
    Runners, Jobs,
    NoRunner, NoJob,
    Target,       \* Target[j]: target_runner_id, or NoRunner for any runner
    MaxAttempts,  \* RUN_MAX_ATTEMPTS
    Punctual,     \* whether a runner that is up always renews in time
    Stoppable,    \* the jobs clients may ask to stop (a bound)
    Removable,    \* the jobs clients may remove (a bound)
    MaxVersion,   \* events are recorded up to this version (a bound)
    MaxCrashes    \* runner processes that die (a bound)

ASSUME JobAssumption ==
    /\ NoRunner \notin Runners /\ NoJob \notin Jobs
    /\ Target \in [Jobs -> Runners \cup {NoRunner}]
    /\ MaxAttempts \in Nat \ {0}
    /\ Punctual \in BOOLEAN
    /\ Stoppable \subseteq Jobs /\ Removable \subseteq Jobs
    /\ MaxVersion \in Nat /\ MaxCrashes \in Nat

VARIABLES
    row,        \* row[j]: the job's row; "from" and "late" are history: the
                \* attempt last reported, and whether it came late
    asked,      \* the stop request whose handler has read the row
    removing,   \* the jobs remove() is polling for
    loop,       \* loop[r]: where the poll loop of r is
    told,       \* told[r]: the job r has read as desired to stop
    task,       \* task[r]: the job r has a task for
    taskPc,     \* taskPc[r]: where that task is
    cancelled,  \* cancelled[r]: task.cancel() was called, not yet delivered
    runs,       \* runs[r][j]: BufferedRun of j, with the attempt it was claimed in
    flush,      \* flush[r]: the payload sent under _flush_lock
    late,       \* late[r]: payloads whose coroutine was cancelled
    crashes

runnerVars == <<loop, told, task, taskPc, cancelled, runs, flush, late>>
vars == <<row, asked, removing, runnerVars, crashes>>

-----------------------------------------------------------------------------
(* Rows, buffered runs, payloads.                                          *)

Final  == {"succeeded", "failed", "stopped"}
Active == {"queued", "running", "stopping"}

Row == [state : {"absent", "removed"} \cup Active \cup Final,
        desired : {"running", "stopped"},
        claim : Runners \cup {NoRunner},
        lease : {"none", "live", "expired"},
        attempts : 0..MaxAttempts, from : 0..MaxAttempts, late : BOOLEAN]

(* BufferedRun; "flushed" says that last_flush has been set.               *)
Run == [state : {"running"} \cup Final, version : Nat, flushed : BOOLEAN,
        attempt : 0..MaxAttempts]

NoRun   == [state |-> "none"]

(* A payload of flush_runner_state; "sent" says that it was committed.     *)
Sent == [by : {"loop", "task"}, sent : BOOLEAN, active : SUBSET Jobs,
         jobs : [Jobs -> {NoRun} \cup Run]]

NoFlush == [by |-> "nobody"]
NoStop  == [job |-> NoJob]

Present(r)  == {j \in Jobs : runs[r][j] # NoRun}
Dirty(r)    == {j \in Present(r) : runs[r][j].version > 0}

(* A dirty run may be left out of a flush only if it was flushed recently. *)
Overdue(r)  == {j \in Dirty(r) : ~runs[r][j].flushed}

Init ==
    /\ row = [j \in Jobs |-> [state |-> "absent", desired |-> "running",
                              claim |-> NoRunner, lease |-> "none",
                              attempts |-> 0, from |-> 0, late |-> FALSE]]
    /\ asked = NoStop
    /\ removing = {}
    /\ loop = [r \in Runners |-> "poll"]
    /\ told = [r \in Runners |-> NoJob]
    /\ task = [r \in Runners |-> NoJob]
    /\ taskPc = [r \in Runners |-> "none"]
    /\ cancelled = [r \in Runners |-> FALSE]
    /\ runs = [r \in Runners |-> [j \in Jobs |-> NoRun]]
    /\ flush = [r \in Runners |-> NoFlush]
    /\ late = [r \in Runners |-> {}]
    /\ crashes = 0

-----------------------------------------------------------------------------
(* The backend.                                                            *)

(* start_inline_graph; a run id is used once.                              *)
Submit(j) ==
    /\ asked = NoStop
    /\ row[j].state = "absent"
    /\ row' = [row EXCEPT ![j].state = "queued"]
    /\ UNCHANGED <<asked, removing, runnerVars, crashes>>

(* stop(): set_desired_job_state reads the row.                            *)
ReadForStop(j) ==
    /\ j \in Stoppable /\ asked = NoStop
    /\ row[j].state \notin {"absent", "removed"}
    /\ asked' = [job |-> j, seen |-> row[j].state]
    /\ UNCHANGED <<row, removing, runnerVars, crashes>>

(* The state decided from the one that was read; "same" writes none.       *)
Decided(seen) ==
    CASE seen = "queued"  -> "stopped"
      [] seen = "running" -> "stopping"
      [] OTHER            -> "same"

(* set_desired_job_state writes the columns it changed, and only those.    *)
WriteStop ==
    /\ asked # NoStop
    /\ LET j == asked.job
           s == Decided(asked.seen)
       IN  row' = [row EXCEPT ![j].desired = "stopped",
                              ![j].state = IF s = "same" THEN @ ELSE s]
    /\ asked' = NoStop
    /\ UNCHANGED <<removing, runnerVars, crashes>>

(* remove(): the job is asked to stop if the row says it is active.        *)
Remove(j) ==
    /\ j \in Removable \ removing /\ asked = NoStop
    /\ row[j].state \notin {"absent", "removed"}
    /\ asked' = IF row[j].state \in Active
                THEN [job |-> j, seen |-> row[j].state] ELSE asked
    /\ removing' = removing \cup {j}
    /\ UNCHANGED <<row, runnerVars, crashes>>

(* The polls of remove() end, because the job is not active any more or    *)
(* five seconds have passed, and delete_job deletes the row either way.    *)
Delete(j) ==
    /\ asked = NoStop
    /\ j \in removing
    /\ removing' = removing \ {j}
    /\ row' = [row EXCEPT ![j].state = "removed", ![j].claim = NoRunner,
                          ![j].lease = "none"]
    /\ UNCHANGED <<asked, runnerVars, crashes>>

-----------------------------------------------------------------------------
(* Leases and recovery.                                                    *)

(* The flushes of r renew the lease of j: r has not marked it terminal.    *)
Renewing(r, j) ==
    r # NoRunner /\ runs[r][j].state = "running"

(* lease_expires_at passes.                                                *)
LeaseExpires(j) ==
    /\ row[j].lease = "live"
    /\ Punctual => ~Renewing(row[j].claim, j)
    /\ row' = [row EXCEPT ![j].lease = "expired"]
    /\ UNCHANGED <<asked, removing, runnerVars, crashes>>

(* A bug: the lease is kept.                                               *)
ReleasedWithLease(x, s) == [x EXCEPT !.state = s, !.claim = NoRunner]

Released(x, s) == [x EXCEPT !.state = s, !.claim = NoRunner, !.lease = "none"]

(* Three bugs: the lease is not looked at; stopping jobs are forgotten;    *)
(* only they are recovered.                                                *)
ExpiredAnyLease(x) == x.state \in {"running", "stopping"}
ExpiredRunning(x)  == x.state = "running" /\ x.lease = "expired"
ExpiredStopping(x) == x.state = "stopping" /\ x.lease = "expired"

Expired(x) == x.state \in {"running", "stopping"} /\ x.lease = "expired"

(* A bug: one attempt too many.                                            *)
ExhaustedLater(a) == a > MaxAttempts

Exhausted(a) == a >= MaxAttempts

(* _recover_expired_claims, for one row.                                   *)
Recovered(x) ==
    IF ~Expired(x) THEN x
    ELSE IF x.desired = "stopped" THEN Released(x, "stopped")
    ELSE LET a == x.attempts + 1
         IN  [Released(x, IF Exhausted(a) THEN "failed" ELSE "queued")
                 EXCEPT !.attempts = a]

-----------------------------------------------------------------------------
(* A runner process.                                                       *)

(* Everything a process knows is lost with it.  A new process that has not *)
(* polled yet is not told apart from one that has not been started.        *)
Lost(r) ==
    /\ loop' = [loop EXCEPT ![r] = "poll"]
    /\ told' = [told EXCEPT ![r] = NoJob]
    /\ task' = [task EXCEPT ![r] = NoJob]
    /\ taskPc' = [taskPc EXCEPT ![r] = "none"]
    /\ cancelled' = [cancelled EXCEPT ![r] = FALSE]
    /\ runs' = [runs EXCEPT ![r] = [j \in Jobs |-> NoRun]]
    /\ flush' = [flush EXCEPT ![r] = NoFlush]
    /\ late' = [late EXCEPT ![r] = {}]

(* The process is killed.                                                  *)
Crash(r) ==
    /\ crashes < MaxCrashes
    /\ crashes' = crashes + 1
    /\ Lost(r)
    /\ UNCHANGED <<row, asked, removing>>

(* A database call of the poll loop raises, or the process is interrupted: *)
(* asyncio.run() cancels the task of the job, which marks its run stopped  *)
(* and flushes it, and waits for it before the process ends.               *)
LoopFails(r) ==
    /\ crashes < MaxCrashes
    /\ loop[r] \in {"poll", "desired", "sending"}
    /\ crashes' = crashes + 1
    /\ loop' = [loop EXCEPT ![r] = "exit"]
    /\ cancelled' = [cancelled EXCEPT ![r] = task[r] # NoJob]
    /\ IF loop[r] # "sending" THEN UNCHANGED <<flush, late>>
       ELSE /\ flush' = [flush EXCEPT ![r] = NoFlush]
            /\ \/ UNCHANGED late
               \/ ~flush[r].sent /\ late' = [late EXCEPT ![r] = @ \cup {flush[r]}]
    /\ UNCHANGED <<row, asked, removing, told, task, taskPc, runs>>

Exit(r) ==
    /\ loop[r] = "exit" /\ task[r] = NoJob
    /\ Lost(r)
    /\ UNCHANGED <<row, asked, removing, crashes>>

-----------------------------------------------------------------------------
(* The poll loop.                                                          *)

Claimable(x, j, r) ==
    /\ x.state = "queued" /\ x.desired = "running"
    /\ Target[j] \in {NoRunner, r}

(* claim_jobs, then the new task runs until it has registered the job.     *)
(* Any claimable row may be the one: rows locked by others are skipped.    *)
(* A runner that has a task does not claim, and recovers nothing.          *)
ClaimJob(r) ==
    LET recovered == [j \in Jobs |-> Recovered(row[j])]
        claimable == {j \in Jobs : Claimable(recovered[j], j, r)}
    IN  /\ loop[r] = "poll" /\ task[r] = NoJob
        /\ \/ /\ claimable = {}
              /\ row' = recovered
              /\ loop' = [loop EXCEPT ![r] = "flush"]
              /\ UNCHANGED <<task, taskPc, runs>>
           \/ \E j \in claimable :
                LET a == recovered[j].attempts
                IN  /\ row' = [recovered EXCEPT
                                 ![j].state = "running", ![j].claim = r,
                                 ![j].lease = "live", ![j].from = a,
                                 ![j].late = FALSE]
                    /\ loop' = [loop EXCEPT ![r] = "desired"]
                    /\ task' = [task EXCEPT ![r] = j]
                    /\ taskPc' = [taskPc EXCEPT ![r] = "run"]
                    /\ runs' = [runs EXCEPT ![r][j] =
                                  [state |-> "running", version |-> 1,
                                   flushed |-> FALSE, attempt |-> a]]
        /\ UNCHANGED <<asked, removing, told, cancelled, flush, late, crashes>>

(* desired_job_states.                                                     *)
ReadDesired(r) ==
    /\ loop[r] = "desired" \/ (loop[r] = "poll" /\ task[r] # NoJob)
    /\ \/ \E j \in Jobs :
            /\ task[r] = j /\ row[j].claim = r /\ row[j].desired = "stopped"
            /\ told' = [told EXCEPT ![r] = j]
            /\ loop' = [loop EXCEPT ![r] = "reconcile"]
       \/ /\ \A j \in Jobs :
               ~(task[r] = j /\ row[j].claim = r /\ row[j].desired = "stopped")
          /\ loop' = [loop EXCEPT ![r] = "flush"]
          /\ UNCHANGED told
    /\ UNCHANGED <<row, asked, removing, task, taskPc, cancelled, runs, flush,
                   late, crashes>>

(* _reconcile cancels the task it was told about.  If the task has ended   *)
(* since its job was read, executions has no such key: the KeyError ends   *)
(* the poll loop and with it the runner.                                   *)
Reconcile(r) ==
    /\ loop[r] = "reconcile"
    /\ \/ /\ told[r] # task[r]
          /\ Lost(r)
       \/ /\ told[r] = task[r]
          /\ cancelled' = [cancelled EXCEPT ![r] = TRUE]
          /\ told' = [told EXCEPT ![r] = NoJob]
          /\ loop' = [loop EXCEPT ![r] = "flush"]
          /\ UNCHANGED <<task, taskPc, runs, flush, late>>
    /\ UNCHANGED <<row, asked, removing, crashes>>

-----------------------------------------------------------------------------
(* Flushing: _flush_lock is held from collecting the payload to accepting  *)
(* it, or until the coroutine that holds it is cancelled.                  *)

Payload(r, by, due) ==
    [by |-> by, sent |-> FALSE,
     jobs |-> [j \in Jobs |-> IF j \in due THEN runs[r][j] ELSE NoRun],
     active |-> {j \in Jobs : runs[r][j].state = "running"}]

(* A bug: a payload is applied to rows the runner has lost.                *)
AppliedToAnyRow(x, j, r, p, isLate) ==
    IF p.jobs[j] = NoRun THEN x
    ELSE IF p.jobs[j].state \in Final
         THEN [Released(x, p.jobs[j].state) EXCEPT !.from = p.jobs[j].attempt]
         ELSE [x EXCEPT !.state = "running", !.lease = "live", !.claim = r,
                        !.from = p.jobs[j].attempt]

(* flush_runner_state, for the row x of job j: only the claim counts.      *)
Applied(x, j, r, p, isLate) ==
    IF x.claim # r THEN x
    ELSE IF p.jobs[j] # NoRun
    THEN LET y == [x EXCEPT !.from = p.jobs[j].attempt, !.late = isLate]
         IN  IF p.jobs[j].state \in Final THEN Released(y, p.jobs[j].state)
             ELSE [y EXCEPT !.state = "running", !.lease = "live"]
    ELSE IF j \in p.active THEN [x EXCEPT !.lease = "live"] ELSE x

(* The transaction of the thread commits.                                  *)
Send(r) ==
    /\ flush[r] # NoFlush /\ ~flush[r].sent
    /\ row' = [j \in Jobs |-> Applied(row[j], j, r, flush[r], FALSE)]
    /\ flush' = [flush EXCEPT ![r].sent = TRUE]
    /\ UNCHANGED <<asked, removing, loop, told, task, taskPc, cancelled, runs,
                   late, crashes>>

SendLate(r) ==
    /\ \E p \in late[r] :
         /\ row' = [j \in Jobs |-> Applied(row[j], j, r, p, TRUE)]
         /\ late' = [late EXCEPT ![r] = @ \ {p}]
    /\ UNCHANGED <<asked, removing, loop, told, task, taskPc, cancelled, runs,
                   flush, crashes>>

(* _accept_flush: what changed since the payload was collected is still    *)
(* to be sent.                                                             *)
Accepted(r) ==
    [j \in Jobs |->
        IF flush[r].jobs[j] # NoRun
        THEN [runs[r][j] EXCEPT !.flushed = TRUE,
                !.version = IF @ = flush[r].jobs[j].version THEN 0 ELSE @]
        ELSE runs[r][j]]

(* A bug: a run is discarded although its last state was not sent.         *)
FlushedEarly(run) == run.state \in Final

(* terminal_flush_complete.                                                *)
Flushed(run) == run.state \in Final /\ run.version = 0

(* flush_due of the poll loop.  Without a run there may be a heartbeat,    *)
(* which renews leases; a flush that touches no job is left out.           *)
CollectInLoop(r, due) ==
    /\ loop[r] = "flush" /\ flush[r] = NoFlush
    /\ Overdue(r) \subseteq due
    /\ due # {} \/ taskPc[r] = "run"
    /\ flush' = [flush EXCEPT ![r] = Payload(r, "loop", due)]
    /\ loop' = [loop EXCEPT ![r] = "sending"]
    /\ UNCHANGED <<row, asked, removing, told, task, taskPc, cancelled, runs,
                   late, crashes>>

(* The end of a turn: _discard_flushed_terminals.                          *)
EndTurn(r, buffered) ==
    /\ runs' = [runs EXCEPT ![r] =
                  [j \in Jobs |-> IF j # task[r] /\ Flushed(buffered[j])
                                  THEN NoRun ELSE buffered[j]]]
    /\ loop' = [loop EXCEPT ![r] = "poll"]

NothingDue(r) ==
    /\ loop[r] = "flush" /\ flush[r] = NoFlush
    /\ Overdue(r) = {}
    /\ EndTurn(r, runs[r])
    /\ UNCHANGED <<row, asked, removing, told, task, taskPc, cancelled, flush,
                   late, crashes>>

AcceptInLoop(r) ==
    /\ loop[r] = "sending" /\ flush[r].sent
    /\ EndTurn(r, Accepted(r))
    /\ flush' = [flush EXCEPT ![r] = NoFlush]
    /\ UNCHANGED <<row, asked, removing, told, task, taskPc, cancelled, late,
                   crashes>>

-----------------------------------------------------------------------------
(* The task of a job: execute(), with the run itself left open.            *)

Event(r) ==
    /\ taskPc[r] = "run"
    /\ runs[r][task[r]].version < MaxVersion
    /\ runs' = [runs EXCEPT ![r][task[r]].version = @ + 1]
    /\ UNCHANGED <<row, asked, removing, loop, told, task, taskPc, cancelled,
                   flush, late, crashes>>

MarkTerminal(run, s) == [run EXCEPT !.state = s, !.version = @ + 1]

(* arun() returns or raises; a cancelled run does not succeed.  The        *)
(* delivery of CancelledError is the case "stopped".                       *)
Finish(r, s) ==
    /\ taskPc[r] = "run"
    /\ s = "succeeded" => ~cancelled[r]
    /\ s = "stopped" => cancelled[r]
    /\ runs' = [runs EXCEPT ![r][task[r]] = MarkTerminal(@, s)]
    /\ cancelled' = [cancelled EXCEPT ![r] = FALSE]
    /\ taskPc' = [taskPc EXCEPT ![r] = "flush"]
    /\ UNCHANGED <<row, asked, removing, loop, told, task, flush, late, crashes>>

(* The forced flush of the finally clause takes the job of the task along, *)
(* if the poll loop has not sent it already.                               *)
CollectForced(r, due) ==
    /\ taskPc[r] = "flush" /\ ~cancelled[r] /\ flush[r] = NoFlush
    /\ Overdue(r) \cup (Dirty(r) \cap {task[r]}) \subseteq due
    /\ due # {}
    /\ flush' = [flush EXCEPT ![r] = Payload(r, "task", due)]
    /\ taskPc' = [taskPc EXCEPT ![r] = "sending"]
    /\ UNCHANGED <<row, asked, removing, loop, told, task, cancelled, runs, late,
                   crashes>>

(* The task is done: _finished.                                            *)
EndTask(r, buffered) ==
    /\ runs' = [runs EXCEPT ![r] =
                  IF Flushed(buffered[task[r]])
                  THEN [buffered EXCEPT ![task[r]] = NoRun] ELSE buffered]
    /\ task' = [task EXCEPT ![r] = NoJob]
    /\ taskPc' = [taskPc EXCEPT ![r] = "none"]
    /\ cancelled' = [cancelled EXCEPT ![r] = FALSE]

NothingToForce(r) ==
    /\ taskPc[r] = "flush" /\ ~cancelled[r] /\ flush[r] = NoFlush
    /\ task[r] \notin Dirty(r) /\ Overdue(r) = {}
    /\ EndTask(r, runs[r])
    /\ UNCHANGED <<row, asked, removing, loop, told, flush, late, crashes>>

AcceptForced(r) ==
    /\ taskPc[r] = "sending" /\ flush[r].sent /\ ~cancelled[r]
    /\ EndTask(r, Accepted(r))
    /\ flush' = [flush EXCEPT ![r] = NoFlush]
    /\ UNCHANGED <<row, asked, removing, loop, told, late, crashes>>

(* The forced flush raises: the task ends with the run still buffered.     *)
ForcedFails(r) ==
    /\ taskPc[r] = "sending" /\ ~cancelled[r]
    /\ EndTask(r, runs[r])
    /\ flush' = [flush EXCEPT ![r] = NoFlush]
    /\ UNCHANGED <<row, asked, removing, loop, told, late, crashes>>

(* A second cancellation interrupts the forced flush, waiting for the lock *)
(* or for the thread.  The thread is not interrupted.                      *)
CancelForced(r) ==
    /\ taskPc[r] \in {"flush", "sending"} /\ cancelled[r]
    /\ EndTask(r, runs[r])
    /\ IF taskPc[r] = "flush" THEN UNCHANGED <<flush, late>>
       ELSE /\ flush' = [flush EXCEPT ![r] = NoFlush]
            /\ late' = [late EXCEPT ![r] =
                          IF flush[r].sent THEN @ ELSE @ \cup {flush[r]}]
    /\ UNCHANGED <<row, asked, removing, loop, told, crashes>>

-----------------------------------------------------------------------------
(* The specification.                                                      *)

Backend ==
    \/ \E j \in Jobs : Submit(j) \/ ReadForStop(j) \/ Remove(j) \/ Delete(j)
    \/ WriteStop

PollLoop(r) ==
    \/ ClaimJob(r) \/ ReadDesired(r) \/ Reconcile(r)
    \/ NothingDue(r) \/ AcceptInLoop(r) \/ Exit(r)
    \/ \E due \in SUBSET Dirty(r) : CollectInLoop(r, due)

FinishAny(r) == \E s \in Final : Finish(r, s)

ForcedFlush(r) ==
    \/ \E due \in SUBSET Dirty(r) : CollectForced(r, due)
    \/ NothingToForce(r) \/ AcceptForced(r) \/ ForcedFails(r) \/ CancelForced(r)

Next ==
    \/ Backend
    \/ \E j \in Jobs : LeaseExpires(j)
    \/ \E r \in Runners :
        \/ Crash(r) \/ LoopFails(r) \/ PollLoop(r) \/ Send(r) \/ SendLate(r)
        \/ Event(r) \/ FinishAny(r) \/ ForcedFlush(r)

(* Handlers that have begun go on; a lease that nobody renews expires; the *)
(* coroutines and database calls of a process go on, and a run that is     *)
(* cancelled ends; _flush_lock serves its waiters in order; a runner that  *)
(* went down is started again (by whoever operates it).                    *)
CancelledEnds(r) == cancelled[r] /\ FinishAny(r)

Fairness ==
    /\ WF_vars(WriteStop)
    /\ \A j \in Jobs : WF_vars(LeaseExpires(j))
    /\ \A r \in Runners :
        /\ WF_vars(PollLoop(r)) /\ WF_vars(Send(r))
        /\ WF_vars(CancelledEnds(r)) /\ SF_vars(ForcedFlush(r))

Spec == Init /\ [][Next]_vars
FairSpec == Spec /\ Fairness

-----------------------------------------------------------------------------
(* Properties.                                                             *)

(* Every variable holds a value of its type.                               *)
TypeOK ==
    /\ row \in [Jobs -> Row]
    /\ asked \in {NoStop} \cup [job : Jobs, seen : Active \cup Final]
    /\ removing \subseteq Jobs
    /\ loop \in [Runners -> {"poll", "desired", "reconcile", "flush", "sending",
                             "exit"}]
    /\ told \in [Runners -> Jobs \cup {NoJob}]
    /\ task \in [Runners -> Jobs \cup {NoJob}]
    /\ taskPc \in [Runners -> {"none", "run", "flush", "sending"}]
    /\ cancelled \in [Runners -> BOOLEAN]
    /\ runs \in [Runners -> [Jobs -> {NoRun} \cup Run]]
    /\ flush \in [Runners -> {NoFlush} \cup Sent]
    /\ late \in [Runners -> SUBSET Sent]
    /\ crashes \in 0..MaxCrashes

(* A row has a lease exactly while it has a claim; a queued job has none,  *)
(* a running one has one, and a job with a result has given it up.  "Fail  *)
(* those that have exhausted their attempts": such a job never waits for a *)
(* runner or runs again, whatever requests were decided on stale reads.    *)
Consistent(x) ==
    /\ x.claim # NoRunner <=> x.lease # "none"
    /\ x.state = "running" => x.claim # NoRunner
    /\ x.state \in {"absent", "queued", "succeeded", "failed", "removed"}
         => x.claim = NoRunner
    /\ x.attempts = MaxAttempts => x.state \notin {"queued", "running"}

RowsAreConsistent == \A j \in Jobs : Consistent(row[j])

(* What a row says of a claimed job, and the success of a job, come from   *)
(* the attempt the row counts: a runner that stalled, lost the job and     *)
(* comes back cannot report its old attempt.  The exception is a payload   *)
(* whose coroutine was cancelled: it may bring the old attempt of a job    *)
(* that the same runner has claimed again in the meantime.                 *)
ReportsAreCurrent ==
    \A j \in Jobs :
        row[j].claim # NoRunner \/ row[j].state = "succeeded"
            => row[j].from = row[j].attempts \/ row[j].late

(* _accept_flush finds every run of its payload in the buffer: none is     *)
(* discarded or replaced while it is on its way to the database.           *)
SentRunsAreBuffered ==
    \A r \in Runners, j \in Jobs :
        flush[r] # NoFlush /\ flush[r].jobs[j] # NoRun
            => /\ runs[r][j] # NoRun
               /\ runs[r][j].attempt = flush[r].jobs[j].attempt

(* If runners renew in time, a job is executed by one runner at a time,    *)
(* whatever crashes, stops and recoveries come in between.                 *)
Executing(r, j) == task[r] = j /\ taskPc[r] = "run"
OneExecutor ==
    \A j \in Jobs : \A r, s \in Runners :
        Executing(r, j) /\ Executing(s, j) => r = s

(* A job that is asked to stop does not keep its claim for good: its run   *)
(* is cancelled, or its lease runs out and a runner recovers it.  Only a   *)
(* runner without a task recovers, so the stop may have to wait while all  *)
(* runners are busy with other jobs.                                       *)
AllBusyWithOthers(j) == \A r \in Runners : task[r] \notin {NoJob, j}
StopIsObeyed ==
    \A j \in Jobs :
        row[j].desired = "stopped" /\ row[j].claim # NoRunner
            ~> \/ row[j].claim = NoRunner \/ row[j].state \in Final
               \/ AllBusyWithOthers(j)

(* Every submitted job is settled, whichever runners crash, if every run   *)
(* ends by itself: it ends or is removed.  The one exception is a stop     *)
(* decided on a stale read, which can leave a row "stopping" without a     *)
(* claim.                                                                  *)
RunsEnd == \A r \in Runners : WF_vars(FinishAny(r))
Settled(x) ==
    \/ x.state \in Final \cup {"removed"}
    \/ x.state = "stopping" /\ x.claim = NoRunner
JobsSettle ==
    RunsEnd => \A j \in Jobs : row[j].state = "queued" ~> Settled(row[j])

(* "A still-running job can be stopped before its record is pruned"        *)
(* (backend/jobs/api.py): no runner executes a job whose row is deleted.   *)
StoppedBeforePruned ==
    [][\A j \in Jobs : row[j].state # "removed" /\ row'[j].state = "removed"
         => \A r \in Runners : ~Executing(r, j)]_vars
=============================================================================
