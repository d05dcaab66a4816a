----------------------------- MODULE JobProofs ------------------------------
(***************************************************************************)
(* Proofs about JobCoordination, for any runners and jobs, any limit of    *)
(* attempts and any number of crashes.  Core is the inductive invariant    *)
(* behind the types, the consistency of the rows and the safety of a flush *)
(* that is on its way.  On it rests what claims are for: a job is executed *)
(* by one runner at a time if leases are renewed in time, and what a row   *)
(* says comes from the attempt it counts even if they are not.             *)
(***************************************************************************)
EXTENDS JobCoordination, TLAPS

(* A claimed job has an attempt left to lose, a new one has lost none.     *)
RowOK(x) ==
    /\ Consistent(x)
    /\ x.claim # NoRunner => x.attempts < MaxAttempts
    /\ x.state = "absent" => x.attempts = 0

(* A runner has a task exactly while it has a job k, and that job is in    *)
(* its buffer b, still running while execute() is.                         *)
TaskOK(k, pc, b) ==
    /\ pc = "none" <=> k = NoJob
    /\ k # NoJob => b[k] # NoRun
    /\ pc = "run" => b[k].state = "running"

(* The payload f on its way belongs to the coroutine that waits for it.    *)
FlushOwned(l, pc, f) ==
    /\ f # NoFlush => \/ f.by = "loop" /\ l = "sending"
                      \/ f.by = "task" /\ pc = "sending"
    /\ l = "sending" => f # NoFlush /\ f.by = "loop"
    /\ pc = "sending" => f # NoFlush /\ f.by = "task"

(* What it carries is still in the buffer, dirty and of the same attempt.  *)
FlushBuffered(b, f) ==
    \A j \in Jobs :
        f # NoFlush /\ f.jobs[j] # NoRun
            => b[j] # NoRun /\ b[j].version > 0 /\ b[j].attempt = f.jobs[j].attempt

RunnerOK(r) ==
    /\ TaskOK(task[r], taskPc[r], runs[r])
    /\ FlushOwned(loop[r], taskPc[r], flush[r])
    /\ FlushBuffered(runs[r], flush[r])

Core ==
    /\ TypeOK
    /\ \A j \in Jobs : RowOK(row[j])
    /\ \A r \in Runners : RunnerOK(r)

-----------------------------------------------------------------------------
(* What the transactions do to one row.                                    *)

LEMMA ReleasedRow ==
    ASSUME NEW x \in Row, NEW s \in {"queued"} \cup Final
    PROVE  /\ Released(x, s) \in Row
           /\ Released(x, s).state = s /\ Released(x, s).claim = NoRunner
           /\ Released(x, s).lease = "none"
           /\ Released(x, s).attempts = x.attempts
           /\ Released(x, s).from = x.from /\ Released(x, s).late = x.late
           /\ Released(x, s).desired = x.desired
  BY DEF Released, Row, Active, Final

LEMMA RecoveredRow ==
    ASSUME NEW x \in Row, RowOK(x)
    PROVE  /\ Recovered(x) \in Row
           /\ RowOK(Recovered(x))
           /\ Expired(x) => Recovered(x).claim = NoRunner
           /\ Expired(x) => Recovered(x).state \in {"stopped", "failed", "queued"}
           /\ ~Expired(x) => Recovered(x) = x
           /\ Recovered(x).from = x.from /\ Recovered(x).late = x.late
  <1> USE JobAssumption
  <1>1. CASE ~Expired(x)
    BY <1>1 DEF Recovered
  <1>2. CASE Expired(x) /\ x.desired = "stopped"
    <2>1. Recovered(x) = Released(x, "stopped")  BY <1>2 DEF Recovered
    <2> QED BY <1>2, <2>1, ReleasedRow DEF RowOK, Consistent, Final, Row
  <1>3. CASE Expired(x) /\ x.desired # "stopped"
    <2> DEFINE a == x.attempts + 1
               s == IF Exhausted(a) THEN "failed" ELSE "queued"
               y == Released(x, s)
    <2>1. Recovered(x) = [y EXCEPT !.attempts = a]  BY <1>3 DEF Recovered
    <2>2. x.claim # NoRunner /\ x.attempts < MaxAttempts /\ x.attempts \in Nat
      BY <1>3 DEF Expired, RowOK, Consistent, Row
    <2>3. s \in {"failed", "queued"} /\ (a = MaxAttempts => s = "failed")
      BY <2>2 DEF Exhausted
    <2>4. a \in 0..MaxAttempts  BY <2>2
    <2>5. /\ y \in Row /\ y.state = s /\ y.claim = NoRunner /\ y.lease = "none"
          /\ y.from = x.from /\ y.late = x.late
      BY <2>3, ReleasedRow DEF Final
    <2> HIDE DEF y, s, a
    <2>6. /\ Recovered(x) \in Row /\ Recovered(x).state = s
          /\ Recovered(x).claim = NoRunner /\ Recovered(x).lease = "none"
          /\ Recovered(x).attempts = a
          /\ Recovered(x).from = x.from /\ Recovered(x).late = x.late
      BY <2>1, <2>4, <2>5 DEF Row
    <2> QED BY <1>3, <2>3, <2>6 DEF RowOK, Consistent
  <1> QED BY <1>1, <1>2, <1>3

LEMMA AppliedRow ==
    ASSUME NEW x \in Row, RowOK(x), NEW j \in Jobs, NEW r \in Runners,
           NEW p \in Sent, NEW b \in BOOLEAN
    PROVE  LET y == Applied(x, j, r, p, b)
           IN  /\ y \in Row
               /\ RowOK(y)
               /\ x.claim # r => y = x
               /\ x.claim = r =>
                    /\ \/ y.claim = r /\ y.lease = "live"
                       \/ y.claim = NoRunner /\ y.state \in Final
                       \/ y = x
                    /\ y.attempts = x.attempts
                    /\ IF p.jobs[j] = NoRun
                       THEN y.from = x.from /\ y.late = x.late
                       ELSE y.from = p.jobs[j].attempt /\ y.late = b
  <1> USE JobAssumption
  <1> DEFINE q == p.jobs[j]
             y == [x EXCEPT !.from = q.attempt, !.late = b]
  <1>0. q \in {NoRun} \cup Run /\ x.claim \in Runners \cup {NoRunner}
    BY DEF Sent, Row
  <1>1. CASE x.claim # r
    BY <1>1 DEF Applied
  <1>2. CASE x.claim = r /\ q = NoRun
    <2>1. Applied(x, j, r, p, b) = x \/ Applied(x, j, r, p, b) = [x EXCEPT !.lease = "live"]
      BY <1>2 DEF Applied
    <2>2. LET z == [x EXCEPT !.lease = "live"]
          IN  /\ z \in Row /\ z.claim = x.claim /\ z.lease = "live" /\ z.state = x.state
              /\ z.attempts = x.attempts /\ z.from = x.from /\ z.late = x.late
      BY DEF Row
    <2>3. r # NoRunner  OBVIOUS
    <2> QED BY <1>2, <2>1, <2>2, <2>3 DEF RowOK, Consistent
  <1>3. CASE x.claim = r /\ q # NoRun
    <2>1. q \in Run  BY <1>0, <1>3
    <2>2. q.attempt \in 0..MaxAttempts /\ q.state \in {"running"} \cup Final
      BY <2>1 DEF Run
    <2>3. /\ y \in Row /\ y.from = q.attempt /\ y.late = b
          /\ y.attempts = x.attempts /\ y.claim = r
      BY <1>3, <2>2 DEF Row
    <2>4. x.attempts < MaxAttempts  BY <1>3 DEF RowOK
    <2> HIDE DEF y, q
    <2>5. CASE q.state \in Final
      <3>1. Applied(x, j, r, p, b) = Released(y, q.state)
        BY <1>3, <2>5 DEF Applied, y, q
      <3> QED BY <1>3, <2>3, <2>4, <2>5, <3>1, ReleasedRow
              DEF RowOK, Consistent, Final, q
    <2>6. CASE q.state \notin Final
      <3> DEFINE z == [y EXCEPT !.state = "running", !.lease = "live"]
      <3>1. Applied(x, j, r, p, b) = z
        BY <1>3, <2>6 DEF Applied, y, q
      <3>2. /\ z \in Row /\ z.state = "running" /\ z.lease = "live" /\ z.claim = r
            /\ z.from = q.attempt /\ z.late = b /\ z.attempts = x.attempts
        BY <2>3 DEF Row, Active
      <3>3. r # NoRunner /\ x.attempts \in Nat  BY DEF Row
      <3> HIDE DEF z
      <3> QED BY <1>3, <2>4, <3>1, <3>2, <3>3 DEF RowOK, Consistent, q
    <2> QED BY <2>5, <2>6
  <1> QED BY <1>1, <1>2, <1>3

-----------------------------------------------------------------------------
(* Steps of the processes.                                                 *)

Buffers == [Jobs -> {NoRun} \cup Run]

RunnerTypes ==
    /\ loop \in [Runners -> {"poll", "desired", "reconcile", "flush", "sending",
                             "exit"}]
    /\ told \in [Runners -> Jobs \cup {NoJob}]
    /\ task \in [Runners -> Jobs \cup {NoJob}]
    /\ taskPc \in [Runners -> {"none", "run", "flush", "sending"}]
    /\ cancelled \in [Runners -> BOOLEAN]
    /\ runs \in [Runners -> Buffers]
    /\ flush \in [Runners -> {NoFlush} \cup Sent]
    /\ late \in [Runners -> SUBSET Sent]

Running == RunnerTypes /\ \A r \in Runners : RunnerOK(r)

LEMMA CoreRuns == Core => Running
  BY DEF Core, TypeOK, Running, RunnerTypes, Buffers

LEMMA RunIsSome ==
    ASSUME NEW x \in Run
    PROVE  x # NoRun /\ x.state # "none" /\ x.version \in Nat
           /\ x.attempt \in 0..MaxAttempts
  BY DEF Run, NoRun, Final

LEMMA FlushedIsRun ==
    ASSUME NEW x \in {NoRun} \cup Run, Flushed(x)
    PROVE  x \in Run /\ x.version = 0
  BY DEF Flushed, NoRun, Final

LEMMA SentIsSome ==
    ASSUME NEW p \in Sent
    PROVE  p # NoFlush /\ p.by \in {"loop", "task"}
           /\ p.jobs \in Buffers
  BY DEF Sent, NoFlush, Buffers

(* A process that does not step keeps what it has.                         *)
Others(r) ==
    \A s \in Runners \ {r} :
        /\ loop'[s] = loop[s] /\ task'[s] = task[s] /\ taskPc'[s] = taskPc[s]
        /\ runs'[s] = runs[s] /\ flush'[s] = flush[s]

LEMMA OneSteps ==
    ASSUME Running, NEW r \in Runners, RunnerTypes', Others(r), RunnerOK(r)'
    PROVE  Running'
  BY DEF Running, Others, RunnerOK

LEMMA LostStep ==
    ASSUME Running, NEW r \in Runners, Lost(r)
    PROVE  Running'
  <1>1. RunnerTypes'
    BY DEF Lost, Running, RunnerTypes, Buffers
  <1>2. Others(r)
    BY DEF Lost, Running, RunnerTypes, Others
  <1>3. /\ loop'[r] = "poll" /\ task'[r] = NoJob /\ taskPc'[r] = "none"
        /\ flush'[r] = NoFlush
    BY DEF Lost, Running, RunnerTypes
  <1>4. RunnerOK(r)'
    BY <1>3 DEF RunnerOK, TaskOK, FlushOwned, FlushBuffered
  <1> QED BY <1>1, <1>2, <1>4, OneSteps

LEMMA LoopFailsStep ==
    ASSUME Running, NEW r \in Runners, LoopFails(r)
    PROVE  Running'
  <1>1. RunnerTypes'
    <2>1. flush' \in [Runners -> {NoFlush} \cup Sent]
      BY DEF LoopFails, Running, RunnerTypes
    <2>2. late' \in [Runners -> SUBSET Sent]
      <3>1. CASE late' = late  BY <3>1 DEF Running, RunnerTypes
      <3>2. CASE loop[r] = "sending" /\ late' = [late EXCEPT ![r] = @ \cup {flush[r]}]
        <4>1. flush[r] \in Sent
          BY <3>2 DEF Running, RunnerTypes, RunnerOK, FlushOwned
        <4> QED BY <3>2, <4>1 DEF Running, RunnerTypes
      <3> QED BY <3>1, <3>2 DEF LoopFails
    <2> QED BY <2>1, <2>2 DEF LoopFails, Running, RunnerTypes
  <1>2. Others(r)
    BY DEF LoopFails, Running, RunnerTypes, Others
  <1>3. /\ loop'[r] = "exit" /\ task'[r] = task[r] /\ taskPc'[r] = taskPc[r]
        /\ runs'[r] = runs[r]
        /\ flush'[r] = IF loop[r] = "sending" THEN NoFlush ELSE flush[r]
    BY DEF LoopFails, Running, RunnerTypes
  <1>4. RunnerOK(r)'
    BY <1>3 DEF Running, RunnerOK, TaskOK, FlushOwned, FlushBuffered
  <1> QED BY <1>1, <1>2, <1>4, OneSteps

(* What claim_jobs means for the process that called it.                   *)
LEMMA ClaimJobCases ==
    ASSUME NEW r \in Runners, ClaimJob(r)
    PROVE  /\ loop[r] = "poll" /\ task[r] = NoJob
           /\ UNCHANGED <<asked, removing, told, cancelled, flush, late, crashes>>
           /\ \/ /\ row' = [j \in Jobs |-> Recovered(row[j])]
                 /\ loop' = [loop EXCEPT ![r] = "flush"]
                 /\ UNCHANGED <<task, taskPc, runs>>
              \/ \E j \in Jobs :
                   LET x == Recovered(row[j])
                   IN  /\ Claimable(x, j, r)
                       /\ row' = [i \in Jobs |->
                                    IF i = j THEN [x EXCEPT !.state = "running",
                                                     !.claim = r, !.lease = "live",
                                                     !.from = x.attempts,
                                                     !.late = FALSE]
                                    ELSE Recovered(row[i])]
                       /\ loop' = [loop EXCEPT ![r] = "desired"]
                       /\ task' = [task EXCEPT ![r] = j]
                       /\ taskPc' = [taskPc EXCEPT ![r] = "run"]
                       /\ runs' = [runs EXCEPT ![r][j] =
                                     [state |-> "running", version |-> 1,
                                      flushed |-> FALSE, attempt |-> x.attempts]]
  <1> DEFINE recovered == [j \in Jobs |-> Recovered(row[j])]
             claimable == {j \in Jobs : Claimable(recovered[j], j, r)}
  <1>1. CASE claimable = {} /\ row' = recovered
              /\ loop' = [loop EXCEPT ![r] = "flush"] /\ UNCHANGED <<task, taskPc, runs>>
    BY <1>1 DEF ClaimJob
  <1>2. ASSUME NEW j \in claimable,
               row' = [recovered EXCEPT
                         ![j].state = "running", ![j].claim = r, ![j].lease = "live",
                         ![j].from = recovered[j].attempts, ![j].late = FALSE]
        PROVE  LET x == Recovered(row[j])
               IN  row' = [i \in Jobs |->
                             IF i = j THEN [x EXCEPT !.state = "running", !.claim = r,
                                              !.lease = "live", !.from = x.attempts,
                                              !.late = FALSE]
                             ELSE Recovered(row[i])]
    BY <1>2
  <1> QED BY <1>1, <1>2 DEF ClaimJob

LEMMA ClaimJobStep ==
    ASSUME Running, NEW r \in Runners, ClaimJob(r), TypeOK, \A j \in Jobs : RowOK(row[j])
    PROVE  Running'
  <1> USE JobAssumption
  <1>1. loop[r] = "poll" /\ task[r] = NoJob /\ UNCHANGED <<told, cancelled, flush, late>>
    BY ClaimJobCases
  <1>2. taskPc[r] = "none" /\ flush[r] = NoFlush
    BY <1>1 DEF Running, RunnerTypes, RunnerOK, TaskOK, FlushOwned
  <1>3. ASSUME UNCHANGED <<task, taskPc, runs>>, loop' = [loop EXCEPT ![r] = "flush"]
        PROVE  Running'
    <2>1. RunnerTypes' /\ Others(r) /\ loop'[r] = "flush"
      BY <1>1, <1>3 DEF Running, RunnerTypes, Others
    <2>2. RunnerOK(r)'
      BY <1>1, <1>2, <1>3, <2>1 DEF Running, RunnerOK, TaskOK, FlushOwned, FlushBuffered
    <2> QED BY <2>1, <2>2, OneSteps
  <1>4. ASSUME NEW j \in Jobs,
               loop' = [loop EXCEPT ![r] = "desired"],
               task' = [task EXCEPT ![r] = j],
               taskPc' = [taskPc EXCEPT ![r] = "run"],
               runs' = [runs EXCEPT ![r][j] = [state |-> "running", version |-> 1,
                                               flushed |-> FALSE,
                                               attempt |-> Recovered(row[j]).attempts]]
        PROVE  Running'
    <2> DEFINE new == [state |-> "running", version |-> 1, flushed |-> FALSE,
                       attempt |-> Recovered(row[j]).attempts]
    <2>1. Recovered(row[j]).attempts \in 0..MaxAttempts
      BY RecoveredRow DEF TypeOK, Row
    <2>2. new \in Run /\ new.state = "running"
      BY <2>1 DEF Run
    <2>3. new # NoRun  BY <2>2, RunIsSome
    <2> HIDE DEF new
    <2>4. runs' = [runs EXCEPT ![r][j] = new]  BY <1>4 DEF new
    <2>5. runs' \in [Runners -> Buffers] /\ runs'[r][j] = new
      BY <2>2, <2>4 DEF Running, RunnerTypes, Buffers
    <2>6. RunnerTypes' /\ Others(r)
      BY <1>1, <1>4, <2>4, <2>5 DEF Running, RunnerTypes, Others
    <2>7. /\ loop'[r] = "desired" /\ task'[r] = j /\ taskPc'[r] = "run"
          /\ flush'[r] = NoFlush
      BY <1>1, <1>2, <1>4 DEF Running, RunnerTypes
    <2>8. RunnerOK(r)'
      BY <2>2, <2>3, <2>5, <2>7 DEF RunnerOK, TaskOK, FlushOwned, FlushBuffered
    <2> QED BY <2>6, <2>8, OneSteps
  <1> QED BY <1>3, <1>4, ClaimJobCases

LEMMA TurnsStep ==
    ASSUME Running, NEW r \in Runners,
           ReadDesired(r) \/ Reconcile(r) \/ Send(r) \/ SendLate(r)
    PROVE  Running'
  <1>1. CASE ReadDesired(r)
    <2>1. RunnerTypes' /\ Others(r)
      BY <1>1 DEF ReadDesired, Running, RunnerTypes, Others
    <2>2. loop[r] # "sending" /\ loop'[r] # "sending"
      BY <1>1 DEF ReadDesired, Running, RunnerTypes
    <2>3. RunnerOK(r)'
      BY <1>1, <2>2 DEF ReadDesired, Running, RunnerOK, TaskOK, FlushOwned, FlushBuffered
    <2> QED BY <2>1, <2>3, OneSteps
  <1>2. CASE Reconcile(r) /\ told[r] = task[r]
    <2>1. RunnerTypes' /\ Others(r)
      BY <1>2, LostStep DEF Reconcile, Running, RunnerTypes, Others
    <2>2. loop[r] # "sending" /\ loop'[r] # "sending"
      BY <1>2 DEF Reconcile, Running, RunnerTypes
    <2>3. RunnerOK(r)'
      BY <1>2, <2>2 DEF Reconcile, Running, RunnerOK, TaskOK, FlushOwned, FlushBuffered
    <2> QED BY <2>1, <2>3, OneSteps
  <1>3. CASE Reconcile(r) /\ told[r] # task[r]
    BY <1>3, LostStep DEF Reconcile
  <1>4. CASE Send(r)
    <2> DEFINE p == [flush[r] EXCEPT !.sent = TRUE]
    <2>1. flush[r] \in Sent  BY <1>4 DEF Send, Running, RunnerTypes
    <2>2. p \in Sent /\ p.by = flush[r].by /\ p.jobs = flush[r].jobs
      BY <2>1 DEF Sent
    <2>3. flush' = [flush EXCEPT ![r] = p]  BY <1>4 DEF Send
    <2> HIDE DEF p
    <2>4. RunnerTypes' /\ Others(r) /\ flush'[r] = p
      BY <1>4, <2>2, <2>3 DEF Send, Running, RunnerTypes, Others
    <2>5. RunnerOK(r)'
      BY ZenonT(30), <1>4, <2>2, <2>4, SentIsSome
         DEF Send, Running, RunnerOK, TaskOK, FlushOwned, FlushBuffered
    <2> QED BY <2>4, <2>5, OneSteps
  <1>5. CASE SendLate(r)
    <2>1. RunnerTypes' /\ Others(r)
      BY <1>5 DEF SendLate, Running, RunnerTypes, Others
    <2>2. RunnerOK(r)'
      BY <1>5 DEF SendLate, Running, RunnerOK, TaskOK, FlushOwned, FlushBuffered
    <2> QED BY <2>1, <2>2, OneSteps
  <1> QED BY <1>1, <1>2, <1>3, <1>4, <1>5

-----------------------------------------------------------------------------
(* Flushing.                                                               *)

LEMMA PayloadIsSent ==
    ASSUME Running, NEW r \in Runners, NEW by \in {"loop", "task"},
           NEW due \in SUBSET Dirty(r)
    PROVE  LET p == Payload(r, by, due)
           IN  /\ p \in Sent /\ p # NoFlush /\ p.by = by
               /\ FlushBuffered(runs[r], p)
  <1> DEFINE p == Payload(r, by, due)
  <1>1. runs[r] \in Buffers  BY DEF Running, RunnerTypes
  <1>2. \A j \in Jobs : p.jobs[j] = IF j \in due THEN runs[r][j] ELSE NoRun
    BY DEF Payload
  <1>3. p \in Sent /\ p.by = by
    BY <1>1 DEF Payload, Sent, Buffers
  <1>4. \A j \in due : runs[r][j] # NoRun /\ runs[r][j].version > 0
    BY DEF Dirty, Present
  <1> HIDE DEF p
  <1>5. FlushBuffered(runs[r], p)
    BY <1>2, <1>4 DEF FlushBuffered
  <1> QED BY <1>3, <1>5, SentIsSome DEF p

LEMMA CollectStep ==
    ASSUME Running, NEW r \in Runners, NEW due \in SUBSET Dirty(r),
           CollectInLoop(r, due) \/ CollectForced(r, due)
    PROVE  Running'
  <1>1. CASE CollectInLoop(r, due)
    <2> DEFINE p == Payload(r, "loop", due)
    <2>1. p \in Sent /\ p # NoFlush /\ p.by = "loop" /\ FlushBuffered(runs[r], p)
      BY PayloadIsSent
    <2>2. flush' = [flush EXCEPT ![r] = p]  BY <1>1 DEF CollectInLoop
    <2> HIDE DEF p
    <2>3. RunnerTypes' /\ Others(r) /\ flush'[r] = p /\ loop'[r] = "sending"
      BY <1>1, <2>1, <2>2 DEF CollectInLoop, Running, RunnerTypes, Others
    <2>4. RunnerOK(r)'
      BY <1>1, <2>1, <2>3 DEF CollectInLoop, Running, RunnerOK, TaskOK, FlushOwned
    <2> QED BY <2>3, <2>4, OneSteps
  <1>2. CASE CollectForced(r, due)
    <2> DEFINE p == Payload(r, "task", due)
    <2>1. p \in Sent /\ p # NoFlush /\ p.by = "task" /\ FlushBuffered(runs[r], p)
      BY PayloadIsSent
    <2>2. flush' = [flush EXCEPT ![r] = p]  BY <1>2 DEF CollectForced
    <2> HIDE DEF p
    <2>3. RunnerTypes' /\ Others(r) /\ flush'[r] = p /\ taskPc'[r] = "sending"
      BY <1>2, <2>1, <2>2 DEF CollectForced, Running, RunnerTypes, Others
    <2>4. RunnerOK(r)'
      BY <1>2, <2>1, <2>3 DEF CollectForced, Running, RunnerOK, TaskOK, FlushOwned
    <2> QED BY <2>3, <2>4, OneSteps
  <1> QED BY <1>1, <1>2

(* Accepting a flush changes versions, and no more.                        *)
LEMMA AcceptedRuns ==
    ASSUME Running, NEW r \in Runners, flush[r] # NoFlush
    PROVE  /\ Accepted(r) \in Buffers
           /\ \A j \in Jobs : /\ Accepted(r)[j] = NoRun <=> runs[r][j] = NoRun
                              /\ Accepted(r)[j].state = runs[r][j].state
                              /\ Accepted(r)[j].attempt = runs[r][j].attempt
  <1>1. runs[r] \in Buffers  BY DEF Running, RunnerTypes
  <1>2. ASSUME NEW j \in Jobs
        PROVE  /\ Accepted(r)[j] \in {NoRun} \cup Run
               /\ Accepted(r)[j] = NoRun <=> runs[r][j] = NoRun
               /\ Accepted(r)[j].state = runs[r][j].state
               /\ Accepted(r)[j].attempt = runs[r][j].attempt
    <2> DEFINE x == runs[r][j]
               v == IF x.version = flush[r].jobs[j].version THEN 0 ELSE x.version
               y == [x EXCEPT !.flushed = TRUE, !.version = v]
    <2>1. CASE flush[r].jobs[j] = NoRun
      BY <1>1, <2>1 DEF Accepted, Buffers
    <2>2. CASE flush[r].jobs[j] # NoRun
      <3>1. x \in Run
        BY <1>1, <2>2 DEF Running, RunnerOK, FlushBuffered, Buffers
      <3>2. Accepted(r)[j] = y
        BY <2>2 DEF Accepted
      <3>3. v \in Nat  BY <3>1 DEF Run
      <3> HIDE DEF v
      <3>4. y \in Run /\ y.state = x.state /\ y.attempt = x.attempt
        BY <3>1, <3>3 DEF Run
      <3> QED BY <3>1, <3>2, <3>4, RunIsSome
    <2> QED BY <2>1, <2>2
  <1>3. Accepted(r) = [j \in Jobs |-> Accepted(r)[j]]
    BY DEF Accepted
  <1> QED BY <1>2, <1>3 DEF Buffers

(* The end of a turn takes nothing away from the task.                     *)
LEMMA EndTurnStep ==
    ASSUME Running, NEW r \in Runners, NEW b \in Buffers, EndTurn(r, b),
           \A j \in Jobs : (b[j] = NoRun <=> runs[r][j] = NoRun)
                           /\ b[j].state = runs[r][j].state,
           taskPc[r] # "sending",
           flush' = [flush EXCEPT ![r] = NoFlush],
           UNCHANGED <<told, task, taskPc, cancelled, late>>
    PROVE  Running'
  <1> DEFINE c == [j \in Jobs |-> IF j # task[r] /\ Flushed(b[j]) THEN NoRun ELSE b[j]]
  <1>1. c \in Buffers /\ (task[r] \in Jobs => c[task[r]] = b[task[r]])
    BY DEF Buffers
  <1>2. runs' = [runs EXCEPT ![r] = c] /\ loop' = [loop EXCEPT ![r] = "poll"]
    BY DEF EndTurn
  <1> HIDE DEF c
  <1>3. RunnerTypes' /\ Others(r)
    BY <1>1, <1>2 DEF Running, RunnerTypes, Others
  <1>4. runs'[r] = c /\ loop'[r] = "poll" /\ flush'[r] = NoFlush
    BY <1>2 DEF Running, RunnerTypes
  <1>5. task[r] \in Jobs \cup {NoJob} /\ TaskOK(task[r], taskPc[r], runs[r])
    BY DEF Running, RunnerTypes, RunnerOK
  <1>6. TaskOK(task'[r], taskPc'[r], runs'[r])
    BY <1>1, <1>4, <1>5 DEF TaskOK
  <1>7. RunnerOK(r)'
    BY <1>4, <1>6 DEF RunnerOK, FlushOwned, FlushBuffered
  <1> QED BY <1>3, <1>7, OneSteps

LEMMA TurnEndsStep ==
    ASSUME Running, NEW r \in Runners, NothingDue(r) \/ AcceptInLoop(r)
    PROVE  Running'
  <1>1. CASE NothingDue(r)
    <2>1. flush' = [flush EXCEPT ![r] = NoFlush]
      BY <1>1 DEF NothingDue, Running, RunnerTypes
    <2>2. taskPc[r] # "sending"
      BY <1>1 DEF NothingDue, Running, RunnerOK, FlushOwned
    <2>3. runs[r] \in Buffers  BY DEF Running, RunnerTypes
    <2> QED BY <1>1, <2>1, <2>2, <2>3, EndTurnStep DEF NothingDue
  <1>2. CASE AcceptInLoop(r)
    <2>1. flush[r] # NoFlush /\ flush[r].by = "loop"
      BY <1>2 DEF AcceptInLoop, Running, RunnerOK, FlushOwned
    <2>2. taskPc[r] # "sending"
      BY <2>1 DEF Running, RunnerOK, FlushOwned
    <2>3. /\ EndTurn(r, Accepted(r)) /\ flush' = [flush EXCEPT ![r] = NoFlush]
          /\ UNCHANGED <<told, task, taskPc, cancelled, late>>
      BY <1>2 DEF AcceptInLoop
    <2>4. /\ Accepted(r) \in Buffers
          /\ \A j \in Jobs : (Accepted(r)[j] = NoRun <=> runs[r][j] = NoRun)
                             /\ Accepted(r)[j].state = runs[r][j].state
      BY <2>1, AcceptedRuns
    <2> QED BY <2>2, <2>3, <2>4, EndTurnStep
  <1> QED BY <1>1, <1>2

-----------------------------------------------------------------------------
(* The task of a job.                                                      *)

(* A run that goes on, or ends, stays in the buffer and gets dirtier.      *)
LEMMA RunChanges ==
    ASSUME Running, NEW r \in Runners, taskPc[r] = "run", NEW x \in Run,
           runs' = [runs EXCEPT ![r][task[r]] = x],
           x.attempt = runs[r][task[r]].attempt,
           x.version = runs[r][task[r]].version + 1,
           NEW pc \in {"run", "flush"}, pc = "run" => x.state = "running",
           taskPc' = [taskPc EXCEPT ![r] = pc],
           cancelled' \in [Runners -> BOOLEAN],
           UNCHANGED <<loop, told, task, flush, late>>
    PROVE  Running'
  <1>1. task[r] \in Jobs /\ runs[r][task[r]] \in Run
    BY DEF Running, RunnerTypes, Buffers, RunnerOK, TaskOK
  <1>2. /\ runs' \in [Runners -> Buffers] /\ runs'[r][task[r]] = x
        /\ \A j \in Jobs \ {task[r]} : runs'[r][j] = runs[r][j]
    BY <1>1 DEF Running, RunnerTypes, Buffers
  <1>3. RunnerTypes' /\ Others(r)
    BY <1>2 DEF Running, RunnerTypes, Others
  <1>4. taskPc'[r] = pc /\ pc # "none" /\ pc # "sending" /\ x # NoRun
    BY RunIsSome DEF Running, RunnerTypes
  <1>5. TaskOK(task'[r], taskPc'[r], runs'[r])
    BY <1>1, <1>2, <1>4, JobAssumption DEF TaskOK
  <1>6. FlushOwned(loop'[r], taskPc'[r], flush'[r])
    BY <1>4 DEF Running, RunnerOK, FlushOwned
  <1>7. FlushBuffered(runs'[r], flush'[r])
    <2>1. runs[r][task[r]].version \in Nat /\ x.version > 0
      BY <1>1, RunIsSome
    <2> QED BY <1>1, <1>2, <1>4, <2>1 DEF Running, RunnerOK, FlushBuffered
  <1> QED BY <1>3, <1>5, <1>6, <1>7, OneSteps DEF RunnerOK

LEMMA RunStep ==
    ASSUME Running, NEW r \in Runners, Event(r) \/ FinishAny(r)
    PROVE  Running'
  <1> DEFINE old == runs[r][task[r]]
  <1>1. taskPc[r] = "run" /\ task[r] \in Jobs /\ old \in Run
    BY DEF Event, FinishAny, Finish, Running, RunnerTypes, Buffers, RunnerOK, TaskOK
  <1>2. CASE Event(r)
    <2> DEFINE x == [old EXCEPT !.version = @ + 1]
    <2>1. /\ x \in Run /\ x.attempt = old.attempt /\ x.version = old.version + 1
          /\ x.state = old.state
      BY <1>1 DEF Run
    <2>2. runs' = [runs EXCEPT ![r][task[r]] = x]
      BY <1>1, <1>2 DEF Event, Running, RunnerTypes, Buffers
    <2>3. taskPc' = [taskPc EXCEPT ![r] = "run"] /\ cancelled' \in [Runners -> BOOLEAN]
      BY <1>1, <1>2 DEF Event, Running, RunnerTypes
    <2>4. old.state = "running"  BY <1>1 DEF Running, RunnerOK, TaskOK
    <2>5. UNCHANGED <<loop, told, task, flush, late>>  BY <1>2 DEF Event
    <2> HIDE DEF x
    <2> QED BY <1>1, <2>1, <2>2, <2>3, <2>4, <2>5, RunChanges
  <1>3. ASSUME NEW s \in Final, Finish(r, s)
        PROVE  Running'
    <2> DEFINE x == MarkTerminal(old, s)
    <2>1. x \in Run /\ x.attempt = old.attempt /\ x.version = old.version + 1
      <3> HIDE DEF old
      <3>1. old.version + 1 \in Nat  BY <1>1 DEF Run
      <3> QED BY <1>1, <3>1 DEF MarkTerminal, Run
    <2>2. runs' = [runs EXCEPT ![r][task[r]] = x]
      BY <1>3 DEF Finish
    <2>3. taskPc' = [taskPc EXCEPT ![r] = "flush"] /\ cancelled' \in [Runners -> BOOLEAN]
      BY <1>3 DEF Finish, Running, RunnerTypes
    <2>4. UNCHANGED <<loop, told, task, flush, late>>  BY <1>3 DEF Finish
    <2> HIDE DEF x
    <2> QED BY <1>1, <2>1, <2>2, <2>3, <2>4, RunChanges
  <1> QED BY <1>2, <1>3 DEF FinishAny

LEMMA EndTaskStep ==
    ASSUME Running, NEW r \in Runners, NEW b \in Buffers, EndTask(r, b),
           taskPc[r] \in {"flush", "sending"},
           \A j \in Jobs : /\ b[j] = NoRun <=> runs[r][j] = NoRun
                           /\ b[j].attempt = runs[r][j].attempt,
           flush[r] # NoFlush /\ flush[r].by = "loop" => b = runs[r],
           flush' = [flush EXCEPT ![r] = IF taskPc[r] = "sending" THEN NoFlush ELSE @],
           late' \in [Runners -> SUBSET Sent],
           UNCHANGED <<loop, told>>
    PROVE  Running'
  <1> USE JobAssumption
  <1> DEFINE k == task[r]
             c == IF Flushed(b[k]) THEN [b EXCEPT ![k] = NoRun] ELSE b
  <1>1. k \in Jobs
    BY DEF Running, RunnerTypes, RunnerOK, TaskOK
  <1>2. /\ c \in Buffers /\ \A j \in Jobs \ {k} : c[j] = b[j]
        /\ ~Flushed(b[k]) => c[k] = b[k]
    BY <1>1 DEF Buffers
  <1>3. /\ runs' = [runs EXCEPT ![r] = c] /\ task' = [task EXCEPT ![r] = NoJob]
        /\ taskPc' = [taskPc EXCEPT ![r] = "none"]
        /\ cancelled' = [cancelled EXCEPT ![r] = FALSE]
    BY DEF EndTask
  <1> HIDE DEF c
  <1>4. RunnerTypes' /\ Others(r)
    BY <1>2, <1>3 DEF Running, RunnerTypes, Others
  <1>5. /\ runs'[r] = c /\ task'[r] = NoJob /\ taskPc'[r] = "none" /\ loop'[r] = loop[r]
        /\ flush'[r] = IF taskPc[r] = "sending" THEN NoFlush ELSE flush[r]
    BY <1>3 DEF Running, RunnerTypes
  <1>6. FlushOwned(loop'[r], taskPc'[r], flush'[r])
    BY <1>5 DEF Running, RunnerOK, FlushOwned
  <1>7. FlushBuffered(runs'[r], flush'[r])
    <2> SUFFICES ASSUME NEW j \in Jobs, flush'[r] # NoFlush, flush'[r].jobs[j] # NoRun
                 PROVE  c[j] # NoRun /\ c[j].version > 0
                        /\ c[j].attempt = flush[r].jobs[j].attempt
      BY <1>5 DEF FlushBuffered
    <2>1. flush'[r] = flush[r] /\ flush[r] # NoFlush /\ flush[r].by = "loop"
      BY <1>5 DEF Running, RunnerOK, FlushOwned
    <2>2. /\ b[j] # NoRun /\ b[j].version > 0
          /\ b[j].attempt = flush[r].jobs[j].attempt
      BY <2>1 DEF Running, RunnerOK, FlushBuffered
    <2>3. ~Flushed(b[j])
      BY <2>2 DEF Flushed
    <2> QED BY <1>2, <2>2, <2>3
  <1>8. TaskOK(task'[r], taskPc'[r], runs'[r])
    BY <1>5 DEF TaskOK
  <1> QED BY <1>4, <1>5, <1>6, <1>7, <1>8, OneSteps DEF RunnerOK

LEMMA ForcedFlushStep ==
    ASSUME Running, NEW r \in Runners, ForcedFlush(r)
    PROVE  Running'
  <1>1. CASE \E due \in SUBSET Dirty(r) : CollectForced(r, due)
    BY <1>1, CollectStep
  <1>2. runs[r] \in Buffers /\ late \in [Runners -> SUBSET Sent]
        /\ flush \in [Runners -> {NoFlush} \cup Sent]
    BY DEF Running, RunnerTypes
  <1>3. taskPc[r] = "sending" => flush[r] \in Sent /\ flush[r].by = "task"
    BY <1>2 DEF Running, RunnerOK, FlushOwned
  <1>4. CASE NothingToForce(r)
    <2>1. flush' = [flush EXCEPT ![r] = IF taskPc[r] = "sending" THEN NoFlush ELSE @]
      BY <1>2, <1>4 DEF NothingToForce
    <2>2. EndTask(r, runs[r]) /\ taskPc[r] = "flush" /\ UNCHANGED <<loop, told, late>>
      BY <1>4 DEF NothingToForce
    <2> QED BY <1>2, <2>1, <2>2, EndTaskStep
  <1>5. CASE AcceptForced(r)
    <2>1. /\ EndTask(r, Accepted(r)) /\ taskPc[r] = "sending"
          /\ flush' = [flush EXCEPT ![r] = NoFlush] /\ UNCHANGED <<loop, told, late>>
      BY <1>5 DEF AcceptForced
    <2>2. flush' = [flush EXCEPT ![r] = IF taskPc[r] = "sending" THEN NoFlush ELSE @]
      BY <1>2, <2>1
    <2>3. flush[r] # NoFlush /\ flush[r].by # "loop"
      BY <1>3, <2>1, SentIsSome
    <2>4. /\ Accepted(r) \in Buffers
          /\ \A j \in Jobs : /\ Accepted(r)[j] = NoRun <=> runs[r][j] = NoRun
                             /\ Accepted(r)[j].attempt = runs[r][j].attempt
      BY <2>3, AcceptedRuns
    <2> QED BY <1>2, <2>1, <2>2, <2>3, <2>4, EndTaskStep
  <1>6. CASE ForcedFails(r)
    <2>1. /\ EndTask(r, runs[r]) /\ taskPc[r] = "sending"
          /\ flush' = [flush EXCEPT ![r] = NoFlush] /\ UNCHANGED <<loop, told, late>>
      BY <1>6 DEF ForcedFails
    <2>2. flush' = [flush EXCEPT ![r] = IF taskPc[r] = "sending" THEN NoFlush ELSE @]
      BY <1>2, <2>1
    <2> QED BY <1>2, <2>1, <2>2, EndTaskStep
  <1>7. CASE CancelForced(r)
    <2>1. /\ EndTask(r, runs[r]) /\ taskPc[r] \in {"flush", "sending"}
          /\ UNCHANGED <<loop, told>>
      BY <1>7 DEF CancelForced
    <2>2. late' \in [Runners -> SUBSET Sent]
      BY <1>2, <1>3, <1>7 DEF CancelForced
    <2>3. flush' = [flush EXCEPT ![r] = IF taskPc[r] = "sending" THEN NoFlush ELSE @]
      BY <1>2, <1>7 DEF CancelForced
    <2> QED BY <1>2, <2>1, <2>2, <2>3, EndTaskStep
  <1> QED BY <1>1, <1>4, <1>5, <1>6, <1>7 DEF ForcedFlush

-----------------------------------------------------------------------------
(* Every step.                                                             *)

RunnerStep(r) ==
    \/ Crash(r) \/ LoopFails(r) \/ PollLoop(r) \/ Send(r) \/ SendLate(r)
    \/ Event(r) \/ FinishAny(r) \/ ForcedFlush(r)

LEMMA RunnersStep ==
    ASSUME Core, [Next]_vars
    PROVE  Running'
  <1>1. Running  BY CoreRuns
  <1>2. CASE UNCHANGED runnerVars
    BY <1>1, <1>2 DEF runnerVars, Running, RunnerTypes, RunnerOK
  <1>3. ASSUME NEW r \in Runners, PollLoop(r)
        PROVE  Running'
    <2>1. CASE Exit(r)  BY <1>1, <2>1, LostStep DEF Exit
    <2>2. CASE ClaimJob(r)  BY <1>1, <2>2, ClaimJobStep DEF Core
    <2> QED BY <1>1, <1>3, <2>1, <2>2, TurnsStep, TurnEndsStep, CollectStep
            DEF PollLoop
  <1>4. ASSUME NEW r \in Runners, RunnerStep(r)
        PROVE  Running'
    <2>1. CASE Crash(r)  BY <1>1, <2>1, LostStep DEF Crash
    <2> QED BY <1>1, <1>3, <1>4, <2>1, LoopFailsStep, TurnsStep, RunStep,
               ForcedFlushStep DEF RunnerStep
  <1>5. CASE Backend \/ UNCHANGED vars \/ \E j \in Jobs : LeaseExpires(j)
    BY <1>2, <1>5 DEF Backend, Submit, ReadForStop, Remove, Delete, WriteStop,
                      LeaseExpires, vars
  <1> QED BY <1>4, <1>5 DEF Next, RunnerStep

(* The rows, and what the requests of the backend may have seen.           *)
LEMMA RowsStep ==
    ASSUME Core, [Next]_vars
    PROVE  row' \in [Jobs -> Row] /\ \A j \in Jobs : RowOK(row'[j])
  <1> USE JobAssumption
  <1>1. row \in [Jobs -> Row] /\ \A j \in Jobs : RowOK(row[j])
    BY DEF Core, TypeOK
  <1>2. CASE UNCHANGED row  BY <1>1, <1>2
  <1>3. ASSUME NEW j \in Jobs, NEW x \in Row, RowOK(x), row' = [row EXCEPT ![j] = x]
        PROVE  row' \in [Jobs -> Row] /\ \A i \in Jobs : RowOK(row'[i])
    BY <1>1, <1>3
  <1>4. ASSUME NEW j \in Jobs, Submit(j)
        PROVE  row' \in [Jobs -> Row] /\ \A i \in Jobs : RowOK(row'[i])
    <2> DEFINE x == [row[j] EXCEPT !.state = "queued"]
    <2>1. /\ x \in Row /\ x.state = "queued" /\ x.claim = row[j].claim
          /\ x.lease = row[j].lease /\ x.attempts = row[j].attempts
          /\ row[j].state = "absent"
      BY <1>1, <1>4 DEF Submit, Row, Active
    <2>2. row' = [row EXCEPT ![j] = x]
      BY <1>1, <1>4 DEF Submit
    <2> HIDE DEF x
    <2>3. RowOK(x)
      BY <1>1, <2>1 DEF RowOK, Consistent
    <2> QED BY <1>3, <2>1, <2>2, <2>3
  <1>5. CASE WriteStop
    <2> DEFINE s == Decided(asked.seen)
               v == IF s = "same" THEN row[asked.job].state ELSE s
               x == [row[asked.job] EXCEPT !.desired = "stopped", !.state = v]
    <2>1. asked.job \in Jobs /\ s \in {"stopped", "stopping", "same"}
      BY <1>5 DEF WriteStop, Core, TypeOK, Decided
    <2>2. row' = [row EXCEPT ![asked.job] = x]
      BY <1>1, <1>5, <2>1 DEF WriteStop
    <2>3. /\ v \in {"stopped", "stopping", row[asked.job].state}
          /\ row[asked.job] \in Row
      BY <1>1, <2>1
    <2> HIDE DEF s, v
    <2>4. /\ x \in Row /\ x.claim = row[asked.job].claim
          /\ x.lease = row[asked.job].lease /\ x.attempts = row[asked.job].attempts
          /\ x.state = v
      BY <2>3 DEF Row, Active, Final
    <2> HIDE DEF x
    <2>5. RowOK(x)
      BY <1>1, <2>1, <2>3, <2>4 DEF RowOK, Consistent
    <2> QED BY <1>3, <2>1, <2>2, <2>4, <2>5
  <1>6. ASSUME NEW j \in Jobs, Delete(j)
        PROVE  row' \in [Jobs -> Row] /\ \A i \in Jobs : RowOK(row'[i])
    <2> DEFINE x == [row[j] EXCEPT !.state = "removed", !.claim = NoRunner,
                                   !.lease = "none"]
    <2>1. row' = [row EXCEPT ![j] = x]
      BY <1>1, <1>6 DEF Delete
    <2>2. x \in Row /\ x.state = "removed" /\ x.claim = NoRunner /\ x.lease = "none"
      BY ZenonT(30), <1>1 DEF Row
    <2> HIDE DEF x
    <2>3. RowOK(x)
      BY <2>2 DEF RowOK, Consistent
    <2> QED BY <1>3, <2>1, <2>2, <2>3
  <1>7. ASSUME NEW j \in Jobs, LeaseExpires(j)
        PROVE  row' \in [Jobs -> Row] /\ \A i \in Jobs : RowOK(row'[i])
    <2> DEFINE x == [row[j] EXCEPT !.lease = "expired"]
    <2>1. x \in Row /\ RowOK(x)
      BY <1>1, <1>7 DEF LeaseExpires, Row, RowOK, Consistent
    <2>2. row' = [row EXCEPT ![j] = x]
      BY <1>1, <1>7 DEF LeaseExpires
    <2> QED BY <1>3, <2>1, <2>2
  <1>8. ASSUME NEW r \in Runners, ClaimJob(r)
        PROVE  row' \in [Jobs -> Row] /\ \A i \in Jobs : RowOK(row'[i])
    <2>1. \A i \in Jobs : Recovered(row[i]) \in Row /\ RowOK(Recovered(row[i]))
      BY <1>1, RecoveredRow
    <2>2. CASE row' = [i \in Jobs |-> Recovered(row[i])]
      BY <2>1, <2>2
    <2>3. ASSUME NEW j \in Jobs, Claimable(Recovered(row[j]), j, r)
          PROVE  LET x == Recovered(row[j])
                     y == [x EXCEPT !.state = "running", !.claim = r, !.lease = "live",
                                    !.from = x.attempts, !.late = FALSE]
                 IN  y \in Row /\ RowOK(y)
      <3> DEFINE x == Recovered(row[j])
      <3>1. x \in Row /\ RowOK(x) /\ x.state = "queued"
        BY <2>1, <2>3 DEF Claimable
      <3> HIDE DEF x
      <3>2. x.attempts \in 0..MaxAttempts /\ x.attempts # MaxAttempts
        BY <3>1 DEF RowOK, Consistent, Row
      <3>3. x.attempts < MaxAttempts  BY <3>2
      <3> DEFINE y == [x EXCEPT !.state = "running", !.claim = r, !.lease = "live",
                                !.from = x.attempts, !.late = FALSE]
      <3>4. /\ y \in Row /\ y.state = "running" /\ y.claim = r /\ y.lease = "live"
            /\ y.attempts = x.attempts
        BY <3>1, <3>2 DEF Row, Active
      <3> HIDE DEF y
      <3>5. RowOK(y)  BY <3>2, <3>3, <3>4 DEF RowOK, Consistent
      <3> QED BY <3>4, <3>5 DEF x, y
    <2>4. ASSUME NEW j \in Jobs,
                 LET x == Recovered(row[j])
                 IN  /\ Claimable(x, j, r)
                     /\ row' = [i \in Jobs |->
                                  IF i = j THEN [x EXCEPT !.state = "running",
                                                   !.claim = r, !.lease = "live",
                                                   !.from = x.attempts, !.late = FALSE]
                                  ELSE Recovered(row[i])]
          PROVE  row' \in [Jobs -> Row] /\ \A i \in Jobs : RowOK(row'[i])
      <3> DEFINE x == Recovered(row[j])
                 y == [x EXCEPT !.state = "running", !.claim = r, !.lease = "live",
                                !.from = x.attempts, !.late = FALSE]
      <3>1. y \in Row /\ RowOK(y)
        BY <2>3, <2>4
      <3>2. row' = [i \in Jobs |-> IF i = j THEN y ELSE Recovered(row[i])]
        BY <2>4
      <3> HIDE DEF y
      <3> QED BY <2>1, <3>1, <3>2
    <2> QED BY <1>8, <2>2, <2>4, ClaimJobCases
  <1>9. ASSUME NEW r \in Runners, Send(r) \/ SendLate(r)
        PROVE  row' \in [Jobs -> Row] /\ \A i \in Jobs : RowOK(row'[i])
    <2>1. ASSUME NEW p \in Sent, NEW b \in BOOLEAN,
                 row' = [j \in Jobs |-> Applied(row[j], j, r, p, b)]
          PROVE  row' \in [Jobs -> Row] /\ \A i \in Jobs : RowOK(row'[i])
      BY <1>1, <2>1, AppliedRow
    <2>2. CASE Send(r)
      <3>1. flush[r] \in Sent  BY <2>2 DEF Send, Core, TypeOK
      <3> QED BY <2>1, <2>2, <3>1 DEF Send
    <2>3. CASE SendLate(r)
      <3>1. late[r] \subseteq Sent  BY DEF Core, TypeOK
      <3> QED BY <2>1, <2>3, <3>1 DEF SendLate
    <2> QED BY <1>9, <2>2, <2>3
  <1>10. ASSUME NEW r \in Runners, RunnerStep(r), ~ClaimJob(r), ~Send(r), ~SendLate(r)
         PROVE  UNCHANGED row
    BY <1>10 DEF RunnerStep, Crash, LoopFails, PollLoop, ReadDesired, Reconcile,
                 NothingDue, AcceptInLoop, Exit, CollectInLoop, Event, FinishAny,
                 Finish, ForcedFlush, CollectForced, NothingToForce, AcceptForced,
                 ForcedFails, CancelForced
  <1>11. CASE Backend \/ UNCHANGED vars
    BY <1>2, <1>4, <1>5, <1>6, <1>11 DEF Backend, ReadForStop, Remove, vars
  <1> QED BY <1>2, <1>7, <1>8, <1>9, <1>10, <1>11 DEF Next, RunnerStep

LEMMA RequestsStep ==
    ASSUME Core, [Next]_vars
    PROVE  /\ asked' \in {NoStop} \cup [job : Jobs, seen : Active \cup Final]
           /\ removing' \subseteq Jobs
           /\ crashes' \in 0..MaxCrashes
  <1> USE JobAssumption
  <1>1. CASE Backend
    <2>1. \A j \in Jobs : row[j].state \notin {"absent", "removed"}
                            => row[j].state \in Active \cup Final
      BY DEF Core, TypeOK, Row
    <2>2. /\ asked \in {NoStop} \cup [job : Jobs, seen : Active \cup Final]
          /\ removing \subseteq Jobs /\ crashes \in 0..MaxCrashes
      BY DEF Core, TypeOK
    <2>3. CASE WriteStop  BY <2>2, <2>3 DEF WriteStop
    <2>4. ASSUME NEW j \in Jobs, Submit(j) \/ Delete(j)
          PROVE  asked' = asked /\ removing' \subseteq removing /\ crashes' = crashes
      BY <2>4 DEF Submit, Delete
    <2>5. ASSUME NEW j \in Jobs, ReadForStop(j) \/ Remove(j)
          PROVE  /\ asked' \in {asked} \cup [job : Jobs, seen : Active \cup Final]
                 /\ removing' \subseteq removing \cup {j} /\ crashes' = crashes
      BY <2>1, <2>5 DEF ReadForStop, Remove
    <2> QED BY <1>1, <2>2, <2>3, <2>4, <2>5 DEF Backend
  <1>2. CASE UNCHANGED vars \/ \E j \in Jobs : LeaseExpires(j)
    BY <1>2 DEF Core, TypeOK, vars, LeaseExpires
  <1>3. ASSUME NEW r \in Runners, RunnerStep(r)
        PROVE  UNCHANGED <<asked, removing>> /\ crashes' \in 0..MaxCrashes
    <2>1. CASE ClaimJob(r)  BY <2>1, ClaimJobCases DEF Core, TypeOK
    <2>2. CASE Crash(r) \/ LoopFails(r)
      BY <2>2 DEF Core, TypeOK, Crash, LoopFails
    <2>3. CASE ~ClaimJob(r) /\ ~Crash(r) /\ ~LoopFails(r)
      BY <1>3, <2>3 DEF Core, TypeOK, RunnerStep, PollLoop, ReadDesired, Reconcile,
         NothingDue, AcceptInLoop, Exit, CollectInLoop, Send, SendLate, Event,
         FinishAny, Finish, ForcedFlush, CollectForced, NothingToForce, AcceptForced,
         ForcedFails, CancelForced
    <2> QED BY <2>1, <2>2, <2>3
  <1> QED BY <1>1, <1>2, <1>3 DEF Next, RunnerStep, Core, TypeOK

LEMMA CoreInit == Init => Core
  <1> USE JobAssumption
  <1> SUFFICES ASSUME Init PROVE Core  OBVIOUS
  <1> DEFINE new == [state |-> "absent", desired |-> "running", claim |-> NoRunner,
                     lease |-> "none", attempts |-> 0, from |-> 0, late |-> FALSE]
  <1>1. /\ new \in Row /\ new.state = "absent" /\ new.claim = NoRunner
        /\ new.lease = "none" /\ new.attempts = 0
    BY DEF Row
  <1>2. row = [j \in Jobs |-> new]  BY DEF Init
  <1> HIDE DEF new
  <1>3. row \in [Jobs -> Row] /\ \A j \in Jobs : RowOK(row[j])
    BY <1>1, <1>2 DEF RowOK, Consistent
  <1>4. TypeOK
    <2>1. RunnerTypes
      BY DEF Init, RunnerTypes, Buffers
    <2>2. crashes = 0 /\ asked = NoStop /\ removing = {}  BY DEF Init
    <2> QED BY <1>3, <2>1, <2>2 DEF RunnerTypes, Buffers, TypeOK
  <1>5. \A r \in Runners : RunnerOK(r)
    BY DEF Init, RunnerOK, TaskOK, FlushOwned, FlushBuffered
  <1> QED BY <1>3, <1>4, <1>5 DEF Core

LEMMA CoreStep == Core /\ [Next]_vars => Core'
  <1> SUFFICES ASSUME Core, [Next]_vars PROVE Core'  OBVIOUS
  <1>1. Running'  BY RunnersStep
  <1>2. row' \in [Jobs -> Row] /\ \A j \in Jobs : RowOK(row'[j])  BY RowsStep
  <1>3. TypeOK'
    BY <1>1, <1>2, RequestsStep DEF Running, RunnerTypes, Buffers, TypeOK
  <1> QED BY <1>1, <1>2, <1>3 DEF Core, Running

-----------------------------------------------------------------------------
(* The theorems.                                                           *)

(* Types, rows, and payloads on their way, in every reachable state.       *)
THEOREM CoreHolds == Spec => []Core
  <1> QED BY CoreInit, CoreStep, PTL DEF Spec

(* Every variable keeps its type; attempts never exceed RUN_MAX_ATTEMPTS,  *)
(* and no operation is applied to a run that the buffer does not have.     *)
THEOREM TypeCorrect == Spec => []TypeOK
  <1>1. Core => TypeOK  BY DEF Core
  <1> QED BY <1>1, CoreHolds, PTL

(* Claims, leases, states and attempts of a row always go together, though *)
(* stop requests are decided on states that may be out of date.            *)
THEOREM RowsStayConsistent == Spec => []RowsAreConsistent
  <1>1. Core => RowsAreConsistent  BY DEF Core, RowOK, RowsAreConsistent
  <1> QED BY <1>1, CoreHolds, PTL

(* Neither a finished task nor the end of a turn discards or replaces a    *)
(* run whose state is on its way to the database.                          *)
THEOREM SentRunsStayBuffered == Spec => []SentRunsAreBuffered
  <1>1. Core => SentRunsAreBuffered
    BY DEF Core, RunnerOK, FlushBuffered, SentRunsAreBuffered
  <1> QED BY <1>1, CoreHolds, PTL

-----------------------------------------------------------------------------
(* One executor.                                                           *)

(* The executor of a job holds its claim, or the row was settled, removed  *)
(* or marked stopping under it, and then nobody can claim it any more.     *)
Holds(r, j) ==
    \/ row[j].claim = r /\ row[j].lease = "live"
    \/ /\ row[j].claim = NoRunner
       /\ row[j].state \in Final \cup {"removed", "stopping"}

Exclusive ==
    /\ \A r \in Runners, j \in Jobs : Executing(r, j) => Holds(r, j)
    /\ OneExecutor

(* A task begins where its runner claims the job, which was queued.        *)
LEMMA ExecutionBegins ==
    ASSUME Core, [Next]_vars, NEW r \in Runners, NEW j \in Jobs,
           Executing(r, j)', ~Executing(r, j)
    PROVE  /\ Recovered(row[j]).state = "queued"
           /\ row'[j].claim = r /\ row'[j].lease = "live"
           /\ \A s \in Runners \ {r} : Executing(s, j)' <=> Executing(s, j)
  <1>1. Running  BY CoreRuns
  <1>2. ASSUME NEW s \in Runners, ClaimJob(s)
        PROVE  /\ Recovered(row[j]).state = "queued"
               /\ row'[j].claim = r /\ row'[j].lease = "live"
               /\ \A q \in Runners \ {r} : Executing(q, j)' <=> Executing(q, j)
    <2>1. PICK k \in Jobs :
            LET x == Recovered(row[k])
            IN  /\ Claimable(x, k, s)
                /\ row' = [i \in Jobs |->
                             IF i = k THEN [x EXCEPT !.state = "running", !.claim = s,
                                              !.lease = "live", !.from = x.attempts,
                                              !.late = FALSE]
                             ELSE Recovered(row[i])]
                /\ task' = [task EXCEPT ![s] = k]
                /\ taskPc' = [taskPc EXCEPT ![s] = "run"]
      <3>1. ~UNCHANGED <<task, taskPc>>  BY DEF Executing
      <3> QED BY <1>2, <3>1, ClaimJobCases
    <2> DEFINE x == Recovered(row[k])
    <2>2. /\ task' = [task EXCEPT ![s] = k] /\ taskPc' = [taskPc EXCEPT ![s] = "run"]
          /\ Claimable(x, k, s)
      BY <2>1
    <2>3. s = r /\ k = j
      BY <1>1, <2>2 DEF Executing, Running, RunnerTypes
    <2>4. \A q \in Runners \ {r} : Executing(q, j)' <=> Executing(q, j)
      BY <1>1, <2>2, <2>3 DEF Executing, Running, RunnerTypes
    <2>5. x \in Row
      BY RecoveredRow DEF Core, TypeOK
    <2>6. row'[k] = [x EXCEPT !.state = "running", !.claim = s, !.lease = "live",
                              !.from = x.attempts, !.late = FALSE]
      BY <2>1
    <2> HIDE DEF x
    <2>7. row'[k].claim = s /\ row'[k].lease = "live"
      BY <2>5, <2>6 DEF Row
    <2> QED BY <2>2, <2>3, <2>4, <2>7 DEF Claimable, x
  <1>3. ASSUME NEW s \in Runners, Lost(s)
        PROVE  FALSE
    BY <1>1, <1>3 DEF Lost, Executing, Running, RunnerTypes
  <1>4. ASSUME NEW s \in Runners, NEW b, EndTask(s, b)
        PROVE  FALSE
    BY <1>1, <1>4 DEF EndTask, Executing, Running, RunnerTypes
  <1>5. ASSUME NEW s \in Runners, RunnerStep(s), ~ClaimJob(s)
        PROVE  FALSE
    <2>1. CASE UNCHANGED <<task, taskPc>>  BY <2>1 DEF Executing
    <2>2. CASE FinishAny(s)
      BY <1>1, <2>2 DEF FinishAny, Finish, Executing, Running, RunnerTypes
    <2>3. CASE \E due \in SUBSET Dirty(s) : CollectForced(s, due)
      BY <1>1, <2>3 DEF CollectForced, Executing, Running, RunnerTypes
    <2>4. CASE Crash(s) \/ Exit(s) \/ Reconcile(s)
      BY <1>3, <2>1, <2>4 DEF Crash, Exit, Reconcile
    <2>5. CASE NothingToForce(s) \/ AcceptForced(s) \/ ForcedFails(s) \/ CancelForced(s)
      BY <1>4, <2>5 DEF NothingToForce, AcceptForced, ForcedFails, CancelForced
    <2>6. CASE LoopFails(s) \/ ReadDesired(s) \/ NothingDue(s) \/ AcceptInLoop(s)
               \/ (\E due \in SUBSET Dirty(s) : CollectInLoop(s, due))
               \/ Send(s) \/ SendLate(s) \/ Event(s)
      BY <2>1, <2>6 DEF LoopFails, ReadDesired, NothingDue, AcceptInLoop,
                        CollectInLoop, Send, SendLate, Event
    <2> QED BY <1>5, <2>2, <2>3, <2>4, <2>5, <2>6 DEF RunnerStep, PollLoop, ForcedFlush
  <1>6. CASE UNCHANGED <<task, taskPc>>  BY <1>6 DEF Executing
  <1>7. CASE Backend \/ UNCHANGED vars \/ \E i \in Jobs : LeaseExpires(i)
    BY <1>6, <1>7 DEF Backend, Submit, ReadForStop, Remove, Delete, WriteStop,
                      LeaseExpires, vars, runnerVars
  <1> QED BY <1>2, <1>5, <1>7 DEF Next, RunnerStep

(* Nothing that happens to the row takes the job from its executor.        *)
LEMMA HoldsStep ==
    ASSUME Core, Punctual, [Next]_vars, NEW r \in Runners, NEW j \in Jobs,
           Executing(r, j), Holds(r, j)
    PROVE  Holds(r, j)' /\ Recovered(row[j]).state # "queued"
  <1> USE JobAssumption
  <1>1. row[j] \in Row /\ RowOK(row[j])
    BY DEF Core, TypeOK
  <1>2. Renewing(r, j)
    BY DEF Executing, Core, RunnerOK, TaskOK, Renewing
  <1>3. row[j].state # "queued" /\ row[j].state # "absent" /\ ~Expired(row[j])
    BY <1>1 DEF Holds, RowOK, Consistent, Expired, Final
  <1>4. Recovered(row[j]) = row[j]
    BY <1>3 DEF Recovered
  <1>5. row \in [Jobs -> Row]  BY DEF Core, TypeOK
  <1>6. CASE row'[j] = row[j]
    BY <1>3, <1>4, <1>6 DEF Holds
  <1>7. CASE WriteStop
    <2> DEFINE s == Decided(asked.seen)
               v == IF s = "same" THEN row[j].state ELSE s
               x == [row[j] EXCEPT !.desired = "stopped", !.state = v]
    <2>1. asked.job \in Jobs /\ s \in {"stopped", "stopping", "same"}
      BY <1>7 DEF WriteStop, Core, TypeOK, Decided
    <2>2. asked.job = j => row'[j] = x
      BY <1>5, <1>7, <2>1 DEF WriteStop
    <2>3. asked.job # j => row'[j] = row[j]
      BY <1>5, <1>7, <2>1 DEF WriteStop
    <2>4. v \in {"stopped", "stopping", row[j].state}  BY <2>1
    <2> HIDE DEF v
    <2>5. x.claim = row[j].claim /\ x.lease = row[j].lease /\ x.state = v
      BY <1>1 DEF Row
    <2> HIDE DEF x
    <2>6. asked.job = j => Holds(r, j)'
      BY <2>2, <2>4, <2>5 DEF Holds, Final
    <2> QED BY <1>3, <1>4, <1>6, <2>3, <2>6
  <1>8. ASSUME NEW i \in Jobs, Submit(i)
        PROVE  row'[j] = row[j]
    BY <1>3, <1>5, <1>8 DEF Submit
  <1>9. ASSUME NEW i \in Jobs, Delete(i)
        PROVE  Holds(r, j)'
    <2>1. i # j => row'[j] = row[j]
      BY <1>5, <1>9 DEF Delete
    <2>2. i = j => row'[j].claim = NoRunner /\ row'[j].state = "removed"
      BY <1>1, <1>5, <1>9 DEF Delete, Row
    <2> QED BY <1>6, <2>1, <2>2 DEF Holds
  <1>10. ASSUME NEW i \in Jobs, LeaseExpires(i)
         PROVE  row'[j] = row[j]
    <2>1. i # j
      BY <1>1, <1>2, <1>10 DEF LeaseExpires, Holds, RowOK, Consistent
    <2> QED BY <1>5, <1>10, <2>1 DEF LeaseExpires
  <1>11. ASSUME NEW s \in Runners, ClaimJob(s)
         PROVE  row'[j] = row[j]
    <2>1. CASE row' = [i \in Jobs |-> Recovered(row[i])]
      BY <1>4, <2>1
    <2>2. ASSUME NEW k \in Jobs,
                 LET x == Recovered(row[k])
                 IN  /\ Claimable(x, k, s)
                     /\ row' = [i \in Jobs |->
                                  IF i = k THEN [x EXCEPT !.state = "running",
                                                   !.claim = s, !.lease = "live",
                                                   !.from = x.attempts, !.late = FALSE]
                                  ELSE Recovered(row[i])]
          PROVE  row'[j] = row[j]
      <3>1. k # j  BY <1>3, <1>4, <2>2 DEF Claimable
      <3> QED BY <1>4, <2>2, <3>1
    <2> QED BY <1>11, <2>1, <2>2, ClaimJobCases
  <1>12. ASSUME NEW s \in Runners, Send(s) \/ SendLate(s)
         PROVE  Holds(r, j)'
    <2>1. PICK p \in Sent, b \in BOOLEAN : row'[j] = Applied(row[j], j, s, p, b)
      <3>1. CASE Send(s)
        <4>1. flush[s] \in Sent  BY <3>1 DEF Send, Core, TypeOK
        <4> QED BY <3>1, <4>1 DEF Send
      <3>2. CASE SendLate(s)
        <4>1. late[s] \subseteq Sent  BY DEF Core, TypeOK
        <4> QED BY <3>2, <4>1 DEF SendLate
      <3> QED BY <1>12, <3>1, <3>2
    <2>2. CASE row[j].claim # s
      BY <1>1, <1>6, <2>1, <2>2, AppliedRow
    <2>3. CASE row[j].claim = s
      <3>1. s = r  BY <2>3 DEF Holds
      <3>2. \/ row'[j].claim = r /\ row'[j].lease = "live"
            \/ row'[j].claim = NoRunner /\ row'[j].state \in Final
            \/ row'[j] = row[j]
        BY <1>1, <2>1, <2>3, <3>1, AppliedRow
      <3> QED BY <1>6, <3>2 DEF Holds
    <2> QED BY <2>2, <2>3
  <1>13. ASSUME NEW s \in Runners, RunnerStep(s), ~ClaimJob(s), ~Send(s), ~SendLate(s)
         PROVE  UNCHANGED row
    BY <1>13 DEF RunnerStep, Crash, LoopFails, PollLoop, ReadDesired, Reconcile,
                 NothingDue, AcceptInLoop, Exit, CollectInLoop, Event, FinishAny,
                 Finish, ForcedFlush, CollectForced, NothingToForce, AcceptForced,
                 ForcedFails, CancelForced
  <1>14. CASE Backend \/ UNCHANGED vars
    BY <1>3, <1>4, <1>6, <1>7, <1>8, <1>9, <1>14
       DEF Backend, ReadForStop, Remove, vars
  <1>15. Holds(r, j)'
    BY <1>6, <1>10, <1>11, <1>12, <1>13, <1>14 DEF Next, RunnerStep
  <1> QED BY <1>3, <1>4, <1>15

LEMMA ExclusiveStep ==
    ASSUME Core, Punctual, Exclusive, [Next]_vars
    PROVE  Exclusive'
  <1> USE JobAssumption
  <1>1. ASSUME NEW r \in Runners, NEW j \in Jobs, Executing(r, j)'
        PROVE  Holds(r, j)'
    BY <1>1, ExecutionBegins, HoldsStep DEF Exclusive, Holds
  <1>2. ASSUME NEW j \in Jobs, NEW r \in Runners, NEW s \in Runners,
               Executing(r, j)', Executing(s, j)', ~Executing(r, j)
        PROVE  r = s
    <2>1. Recovered(row[j]).state = "queued"
      BY <1>2, ExecutionBegins
    <2>2. r # s => Executing(s, j)
      BY <1>2, ExecutionBegins
    <2> QED BY <2>1, <2>2, HoldsStep DEF Exclusive
  <1>3. OneExecutor'
    BY <1>2 DEF Exclusive, OneExecutor
  <1> QED BY <1>1, <1>3 DEF Exclusive

(* A job is executed by one runner at a time, whatever crashes, stops,     *)
(* removals and recoveries come in between, if runners renew in time.      *)
THEOREM OneExecutorAtATime ==
    ASSUME Punctual
    PROVE  Spec => []OneExecutor
  <1>1. Init => Exclusive
    BY JobAssumption DEF Init, Exclusive, OneExecutor, Executing
  <1>2. Core /\ Exclusive /\ [Next]_vars => Exclusive'
    BY ExclusiveStep
  <1>3. Exclusive => OneExecutor
    BY DEF Exclusive
  <1> QED BY <1>1, <1>2, <1>3, CoreHolds, PTL DEF Spec

-----------------------------------------------------------------------------
(* Current reports.                                                        *)

(* A runner that holds a claim has the run of that claim in its buffer, if *)
(* any: the same attempt.                                                  *)
Current(r, j) ==
    row[j].claim = r /\ runs[r][j] # NoRun
        => runs[r][j].attempt = row[j].attempts

Reported(x) ==
    x.claim # NoRunner \/ x.state = "succeeded" => x.from = x.attempts \/ x.late

AllCurrent ==
    /\ \A r \in Runners, j \in Jobs : Current(r, j)
    /\ \A j \in Jobs : Reported(row[j])

(* A buffered run stays, goes, or is the one of a claim made in this step. *)
Kept(r, j) ==
    \/ runs'[r][j] = NoRun
    \/ runs[r][j] # NoRun /\ runs'[r][j].attempt = runs[r][j].attempt
NewClaim(r, j) ==
    /\ row'[j].claim = r /\ row'[j].from = row'[j].attempts
    /\ runs'[r][j].attempt = row'[j].attempts

LEMMA KeptByOthers ==
    ASSUME Running, NEW r \in Runners, NEW b \in Buffers, runs' = [runs EXCEPT ![r] = b],
           NEW q \in Runners, NEW j \in Jobs,
           b[j] = NoRun \/ (runs[r][j] # NoRun /\ b[j].attempt = runs[r][j].attempt)
    PROVE  Kept(q, j)
  BY DEF Running, RunnerTypes, Kept

LEMMA ClaimMade ==
    ASSUME Core, NEW s \in Runners, NEW k \in Jobs,
           LET x == Recovered(row[k])
           IN  /\ row' = [i \in Jobs |->
                            IF i = k THEN [x EXCEPT !.state = "running", !.claim = s,
                                             !.lease = "live", !.from = x.attempts,
                                             !.late = FALSE]
                            ELSE Recovered(row[i])]
               /\ runs' = [runs EXCEPT ![s][k] =
                             [state |-> "running", version |-> 1, flushed |-> FALSE,
                              attempt |-> x.attempts]]
    PROVE  NewClaim(s, k)
  <1> DEFINE x == Recovered(row[k])
  <1>1. x \in Row  BY RecoveredRow DEF Core, TypeOK
  <1>2. row'[k] = [x EXCEPT !.state = "running", !.claim = s, !.lease = "live",
                            !.from = x.attempts, !.late = FALSE]
    OBVIOUS
  <1>3. runs'[s][k].attempt = x.attempts
    BY CoreRuns DEF Running, RunnerTypes, Buffers
  <1> HIDE DEF x
  <1>4. row'[k].claim = s /\ row'[k].attempts = x.attempts /\ row'[k].from = x.attempts
    BY <1>1, <1>2 DEF Row
  <1> QED BY <1>3, <1>4 DEF NewClaim

LEMMA BufferStep ==
    ASSUME Core, [Next]_vars, NEW q \in Runners, NEW j \in Jobs
    PROVE  Kept(q, j) \/ NewClaim(q, j)
  <1>1. Running /\ \A r \in Runners : runs[r] \in Buffers
    BY CoreRuns DEF Running, RunnerTypes
  <1>2. ASSUME UNCHANGED runs PROVE Kept(q, j)
    BY <1>2 DEF Kept
  <1>3. ASSUME NEW r \in Runners, Lost(r)
        PROVE  Kept(q, j)
    BY <1>1, <1>3 DEF Lost, Running, RunnerTypes, Kept
  <1>4. ASSUME NEW r \in Runners, ClaimJob(r)
        PROVE  Kept(q, j) \/ NewClaim(q, j)
    <2>1. ASSUME NEW k \in Jobs,
                 LET x == Recovered(row[k])
                 IN  /\ row' = [i \in Jobs |->
                                  IF i = k THEN [x EXCEPT !.state = "running",
                                                   !.claim = r, !.lease = "live",
                                                   !.from = x.attempts, !.late = FALSE]
                                  ELSE Recovered(row[i])]
                     /\ runs' = [runs EXCEPT ![r][k] =
                                   [state |-> "running", version |-> 1,
                                    flushed |-> FALSE, attempt |-> x.attempts]]
          PROVE  Kept(q, j) \/ NewClaim(q, j)
      <3>1. CASE q = r /\ j = k
        BY <2>1, <3>1, ClaimMade
      <3>2. CASE ~(q = r /\ j = k)
        <4>1. runs'[q][j] = runs[q][j]
          BY <1>1, <2>1, <3>2 DEF Running, RunnerTypes, Buffers
        <4> QED BY <4>1 DEF Kept
      <3> QED BY <3>1, <3>2
    <2> QED BY <1>2, <1>4, <2>1, ClaimJobCases
  <1>5. ASSUME NEW r \in Runners, NEW b \in Buffers, EndTurn(r, b) \/ EndTask(r, b),
               b = runs[r] \/ (b = Accepted(r) /\ flush[r] # NoFlush)
        PROVE  Kept(q, j)
    <2>1. (b[j] = NoRun <=> runs[r][j] = NoRun) /\ b[j].attempt = runs[r][j].attempt
      BY <1>1, <1>5, AcceptedRuns
    <2>2. PICK c \in Buffers : /\ runs' = [runs EXCEPT ![r] = c]
                               /\ c[j] = b[j] \/ c[j] = NoRun
      <3>1. CASE EndTurn(r, b)
        <4> DEFINE c == [i \in Jobs |-> IF i # task[r] /\ Flushed(b[i]) THEN NoRun ELSE b[i]]
        <4>1. c \in Buffers /\ (c[j] = b[j] \/ c[j] = NoRun)
          BY DEF Buffers
        <4> QED BY <3>1, <4>1 DEF EndTurn
      <3>2. CASE EndTask(r, b)
        <4> DEFINE c == IF Flushed(b[task[r]]) THEN [b EXCEPT ![task[r]] = NoRun] ELSE b
        <4>1. c \in Buffers /\ (c[j] = b[j] \/ c[j] = NoRun)
          BY DEF Buffers
        <4> QED BY <3>2, <4>1 DEF EndTask
      <3> QED BY <1>5, <3>1, <3>2
    <2> QED BY ZenonT(30), <1>1, <2>1, <2>2, KeptByOthers
  <1>6. ASSUME NEW r \in Runners, Event(r) \/ FinishAny(r)
        PROVE  Kept(q, j)
    <2> DEFINE k == task[r]
    <2>1. k \in Jobs /\ runs[r][k] \in Run
      BY <1>1, <1>6 DEF Event, FinishAny, Finish, Running, RunnerTypes, Buffers,
                        RunnerOK, TaskOK
    <2>2. PICK x \in Run : /\ runs' = [runs EXCEPT ![r][k] = x]
                           /\ x.attempt = runs[r][k].attempt
      <3>1. CASE Event(r)
        <4> DEFINE x == [runs[r][k] EXCEPT !.version = @ + 1]
        <4>1. x \in Run /\ x.attempt = runs[r][k].attempt  BY <2>1 DEF Run
        <4>2. runs' = [runs EXCEPT ![r][k] = x]
          BY <1>1, <2>1, <3>1 DEF Event, Running, RunnerTypes, Buffers
        <4> QED BY <4>1, <4>2
      <3>2. ASSUME NEW s \in Final, Finish(r, s)
            PROVE  \E x \in Run : /\ runs' = [runs EXCEPT ![r][k] = x]
                                  /\ x.attempt = runs[r][k].attempt
        <4> DEFINE old == runs[r][k]
                   x == MarkTerminal(old, s)
        <4>1. runs' = [runs EXCEPT ![r][k] = x]  BY <3>2 DEF Finish
        <4>2. old \in Run /\ old.version + 1 \in Nat  BY <2>1 DEF Run
        <4> HIDE DEF old
        <4>3. x \in Run /\ x.attempt = old.attempt  BY <4>2 DEF MarkTerminal, Run
        <4> QED BY <4>1, <4>3 DEF old
      <3> QED BY <1>6, <3>1, <3>2 DEF FinishAny
    <2>3. runs'[q][j] = IF q = r /\ j = k THEN x ELSE runs[q][j]
      BY <1>1, <2>1, <2>2 DEF Running, RunnerTypes, Buffers
    <2> QED BY <2>1, <2>2, <2>3, RunIsSome DEF Kept
  <1>7. ASSUME NEW r \in Runners, RunnerStep(r), ~ClaimJob(r)
        PROVE  Kept(q, j)
    <2>1. CASE Crash(r) \/ Exit(r) \/ Reconcile(r)
      BY <1>2, <1>3, <2>1 DEF Crash, Exit, Reconcile
    <2>2. CASE NothingDue(r) \/ NothingToForce(r) \/ ForcedFails(r) \/ CancelForced(r)
      <3>1. EndTurn(r, runs[r]) \/ EndTask(r, runs[r])
        BY <2>2 DEF NothingDue, NothingToForce, ForcedFails, CancelForced
      <3>2. runs[r] \in Buffers  BY <1>1
      <3> QED BY <1>5, <3>1, <3>2
    <2>3. CASE AcceptInLoop(r) \/ AcceptForced(r)
      <3>1. flush[r] # NoFlush
        BY <1>1, <2>3 DEF AcceptInLoop, AcceptForced, Running, RunnerOK, FlushOwned
      <3> QED BY <1>1, <1>5, <2>3, <3>1, AcceptedRuns DEF AcceptInLoop, AcceptForced
    <2>4. CASE UNCHANGED runs  BY <1>2, <2>4
    <2>5. CASE LoopFails(r) \/ ReadDesired(r) \/ Send(r) \/ SendLate(r)
               \/ \E due \in SUBSET Dirty(r) : CollectInLoop(r, due) \/ CollectForced(r, due)
      BY <2>4, <2>5 DEF LoopFails, ReadDesired, Send, SendLate, CollectInLoop,
                        CollectForced
    <2> QED BY <1>6, <1>7, <2>1, <2>2, <2>3, <2>5 DEF RunnerStep, PollLoop, ForcedFlush
  <1>8. CASE Backend \/ UNCHANGED vars \/ \E i \in Jobs : LeaseExpires(i)
    BY <1>2, <1>8 DEF Backend, Submit, ReadForStop, Remove, Delete, WriteStop,
                      LeaseExpires, vars, runnerVars
  <1> QED BY <1>4, <1>7, <1>8 DEF Next, RunnerStep

(* What happens to a row: it is claimed, or its claim and its attempts go  *)
(* together, and only the holder of the claim reports.                     *)
RowKept(r, j) ==
    /\ row'[j].claim = r => row[j].claim = r /\ row'[j].attempts = row[j].attempts

LEMMA RowsReport ==
    ASSUME Core, AllCurrent, [Next]_vars, NEW j \in Jobs
    PROVE  /\ Reported(row'[j])
           /\ \A r \in Runners : RowKept(r, j) \/ NewClaim(r, j)
  <1> USE JobAssumption
  <1> DEFINE Goal == /\ Reported(row'[j])
                     /\ \A r \in Runners : RowKept(r, j) \/ NewClaim(r, j)
  <1>1. row \in [Jobs -> Row] /\ row[j] \in Row /\ RowOK(row[j]) /\ Reported(row[j])
    BY DEF Core, TypeOK, AllCurrent
  <1>2. Running /\ \A r \in Runners : runs[r] \in Buffers
    BY CoreRuns DEF Running, RunnerTypes
  <1>3. ASSUME row'[j] = row[j] PROVE Goal
    BY <1>1, <1>3 DEF RowKept
  <1>4. ASSUME row'[j].claim \in {row[j].claim, NoRunner}, row'[j].state # "succeeded",
               row'[j].attempts = row[j].attempts, row'[j].from = row[j].from,
               row'[j].late = row[j].late
        PROVE  Goal
    BY <1>1, <1>4 DEF Reported, RowKept
  <1>5. CASE Backend
    <2>1. CASE WriteStop
      <3> DEFINE s == Decided(asked.seen)
                 v == IF s = "same" THEN row[j].state ELSE s
                 x == [row[j] EXCEPT !.desired = "stopped", !.state = v]
      <3>1. asked.job \in Jobs /\ s \in {"stopped", "stopping", "same"}
        BY <2>1 DEF WriteStop, Core, TypeOK, Decided
      <3>2. (asked.job = j => row'[j] = x) /\ (asked.job # j => row'[j] = row[j])
        BY <1>1, <2>1, <3>1 DEF WriteStop
      <3>3. v \in {"stopped", "stopping", row[j].state}  BY <3>1
      <3> HIDE DEF v
      <3>4. /\ x.claim = row[j].claim /\ x.state = v /\ x.attempts = row[j].attempts
            /\ x.from = row[j].from /\ x.late = row[j].late
        BY <1>1 DEF Row
      <3> HIDE DEF x
      <3>5. asked.job = j => Goal
        BY <1>1, <3>2, <3>3, <3>4 DEF Reported, RowKept
      <3> QED BY <1>3, <3>2, <3>5
    <2>2. ASSUME NEW i \in Jobs, Submit(i) \/ Delete(i)
          PROVE  Goal
      <3>1. CASE i # j  BY <1>1, <1>3, <2>2, <3>1 DEF Submit, Delete
      <3>2. CASE i = j
        BY <1>1, <1>4, <2>2, <3>2 DEF Submit, Delete, Row
      <3> QED BY <3>1, <3>2
    <2> QED BY <1>3, <1>5, <2>1, <2>2 DEF Backend, ReadForStop, Remove
  <1>6. ASSUME NEW i \in Jobs, LeaseExpires(i)
        PROVE  Goal
    <2> DEFINE x == [row[j] EXCEPT !.lease = "expired"]
    <2>1. row'[j] = row[j] \/ row'[j] = x
      BY <1>1, <1>6 DEF LeaseExpires
    <2>2. /\ x.claim = row[j].claim /\ x.state = row[j].state
          /\ x.attempts = row[j].attempts /\ x.from = row[j].from /\ x.late = row[j].late
      BY <1>1 DEF Row
    <2> HIDE DEF x
    <2> QED BY <1>1, <1>3, <2>1, <2>2 DEF Reported, RowKept
  <1>7. ASSUME NEW s \in Runners, ClaimJob(s)
        PROVE  Goal
    <2> DEFINE x == Recovered(row[j])
    <2>1. /\ x \in Row
          /\ x = row[j] \/ (x.claim = NoRunner /\ x.state # "succeeded")
      BY <1>1, RecoveredRow
    <2>2. row'[j] = x => Goal
      BY <1>1, <1>3, <2>1 DEF Reported, RowKept
    <2>3. CASE row' = [i \in Jobs |-> Recovered(row[i])]
      BY <2>2, <2>3
    <2>4. ASSUME NEW k \in Jobs,
                 LET z == Recovered(row[k])
                 IN  /\ row' = [i \in Jobs |->
                                  IF i = k THEN [z EXCEPT !.state = "running",
                                                   !.claim = s, !.lease = "live",
                                                   !.from = z.attempts, !.late = FALSE]
                                  ELSE Recovered(row[i])]
                     /\ runs' = [runs EXCEPT ![s][k] =
                                   [state |-> "running", version |-> 1,
                                    flushed |-> FALSE, attempt |-> z.attempts]]
          PROVE  Goal
      <3>1. CASE k # j  BY <2>2, <2>4, <3>1
      <3>2. CASE k = j
        <4>1. NewClaim(s, j)  BY <2>4, <3>2, ClaimMade
        <4> QED BY <4>1 DEF NewClaim, Reported, RowKept
      <3> QED BY <3>1, <3>2
    <2> QED BY <1>7, <2>3, <2>4, ClaimJobCases
  <1>8. ASSUME NEW s \in Runners, Send(s) \/ SendLate(s)
        PROVE  Goal
    <2>1. PICK p \in Sent, b \in BOOLEAN :
            /\ row'[j] = Applied(row[j], j, s, p, b)
            /\ b \/ (flush[s] # NoFlush /\ p = flush[s])
      <3>1. CASE Send(s)
        <4>1. flush[s] \in Sent /\ flush[s] # NoFlush  BY <3>1 DEF Send, Core, TypeOK
        <4> QED BY <3>1, <4>1 DEF Send
      <3>2. CASE SendLate(s)
        <4>1. late[s] \subseteq Sent  BY DEF Core, TypeOK
        <4> QED BY <3>2, <4>1 DEF SendLate
      <3> QED BY <1>8, <3>1, <3>2
    <2>2. CASE row[j].claim # s
      BY <1>1, <1>3, <2>1, <2>2, AppliedRow
    <2>3. CASE row[j].claim = s
      <3>1. /\ row'[j].claim \in {s, NoRunner}
            /\ row'[j].attempts = row[j].attempts
            /\ IF p.jobs[j] = NoRun
               THEN row'[j].from = row[j].from /\ row'[j].late = row[j].late
               ELSE row'[j].from = p.jobs[j].attempt /\ row'[j].late = b
        BY <1>1, <2>1, <2>3, AppliedRow
      <3>2. ~b /\ p.jobs[j] # NoRun => p.jobs[j].attempt = row[j].attempts
        BY <1>2, <2>1, <2>3 DEF AllCurrent, Current, Core, RunnerOK, FlushBuffered
      <3>3. s # NoRunner  OBVIOUS
      <3>4. row[j].from = row[j].attempts \/ row[j].late
        BY <1>1, <2>3, <3>3 DEF Reported
      <3>5. row'[j].from = row'[j].attempts \/ row'[j].late
        <4>1. CASE row'[j].from = row[j].from /\ row'[j].late = row[j].late
          BY <3>1, <3>4, <4>1
        <4>2. CASE ~b /\ p.jobs[j] # NoRun /\ row'[j].from = p.jobs[j].attempt
          BY <3>1, <3>2, <4>2
        <4>3. CASE b /\ row'[j].late = b
          BY <4>3, Zenon
        <4> QED BY <3>1, <4>1, <4>2, <4>3
      <3> QED BY <2>3, <3>1, <3>3, <3>5 DEF Reported, RowKept
    <2> QED BY <2>2, <2>3
  <1>9. ASSUME NEW s \in Runners, RunnerStep(s), ~ClaimJob(s), ~Send(s), ~SendLate(s)
        PROVE  UNCHANGED row
    BY <1>9 DEF RunnerStep, Crash, LoopFails, PollLoop, ReadDesired, Reconcile,
                NothingDue, AcceptInLoop, Exit, CollectInLoop, Event, FinishAny,
                Finish, ForcedFlush, CollectForced, NothingToForce, AcceptForced,
                ForcedFails, CancelForced
  <1>10. CASE UNCHANGED vars  BY <1>3, <1>10 DEF vars
  <1> QED BY <1>3, <1>5, <1>6, <1>7, <1>8, <1>9, <1>10 DEF Next, RunnerStep

LEMMA CurrentStep ==
    ASSUME Core, AllCurrent, [Next]_vars
    PROVE  AllCurrent'
  <1>1. \A j \in Jobs : Reported(row'[j])
    BY RowsReport
  <1>2. ASSUME NEW r \in Runners, NEW j \in Jobs
        PROVE  Current(r, j)'
    <2>1. RowKept(r, j) \/ NewClaim(r, j)  BY RowsReport
    <2>2. CASE NewClaim(r, j)  BY <2>2 DEF NewClaim, Current
    <2>3. CASE RowKept(r, j) /\ Kept(r, j)
      BY <2>3 DEF RowKept, Kept, AllCurrent, Current
    <2> QED BY <2>1, <2>2, <2>3, BufferStep
  <1> QED BY <1>1, <1>2 DEF AllCurrent

(* What a row says of a claimed job, and the success of a job, come from   *)
(* the attempt the row counts, unless a payload came late: a runner that   *)
(* stalls and comes back cannot report an attempt it has lost.             *)
THEOREM ReportsStayCurrent == Spec => []ReportsAreCurrent
  <1>1. Init => AllCurrent
    BY DEF Init, AllCurrent, Current, Reported
  <1>2. Core /\ AllCurrent /\ [Next]_vars => AllCurrent'
    BY CurrentStep
  <1>3. AllCurrent => ReportsAreCurrent
    BY DEF AllCurrent, Reported, ReportsAreCurrent
  <1> QED BY <1>1, <1>2, <1>3, CoreHolds, PTL DEF Spec
=============================================================================
