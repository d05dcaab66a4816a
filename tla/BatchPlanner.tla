---------------------------- MODULE BatchPlanner ----------------------------
(***************************************************************************)
(* BatchPlanner.build_batches (planning/batch_planner.py): how the tasks a *)
(* worker collected are cut into execute() batches.                        *)
(*                                                                         *)
(* A task is a record with its weight in bytes and the key sort_by reads.  *)
(* A policy has a mode, two sizes and sortBy; NodeRuntimeConfig validates  *)
(* both sizes to be at least 1.  byteTarget 0 stands for "no byte target". *)
(***************************************************************************)
EXTENDS Naturals, Sequences, FiniteSets

CountCap(policy) ==
    IF policy.max < policy.preferred THEN policy.max ELSE policy.preferred

(* Python's sort is stable: equal keys keep their order.                   *)
Sorted(tasks) ==
    LET Before(i, j) == \/ tasks[i].key < tasks[j].key
                        \/ tasks[i].key = tasks[j].key /\ i < j
        Place(j) == 1 + Cardinality({i \in DOMAIN tasks : Before(i, j)})
    IN  [k \in DOMAIN tasks |-> tasks[CHOOSE j \in DOMAIN tasks : Place(j) = k]]

Chunks(tasks, cap) ==
    [k \in 1..((Len(tasks) + cap - 1) \div cap) |->
        SubSeq(tasks, (k - 1) * cap + 1,
               IF k * cap < Len(tasks) THEN k * cap ELSE Len(tasks))]

(* Three bugs: an empty batch is closed before an oversized task; a batch  *)
(* may not fill the byte target; the count cap is forgotten.               *)
MustCloseEmpty(plan, task, cap, byteTarget) ==
    Len(plan.current) >= cap \/ plan.bytes + task.weight > byteTarget
MustCloseEarly(plan, task, cap, byteTarget) ==
    /\ plan.current # <<>>
    /\ Len(plan.current) >= cap \/ plan.bytes + task.weight >= byteTarget
MustCloseByBytes(plan, task, cap, byteTarget) ==
    plan.current # <<>> /\ plan.bytes + task.weight > byteTarget

(* The batch being filled is closed by the count cap, or by the next task  *)
(* if that would push it over the byte target.                             *)
MustClose(plan, task, cap, byteTarget) ==
    /\ plan.current # <<>>
    /\ \/ Len(plan.current) >= cap
       \/ plan.bytes + task.weight > byteTarget

(* The plan after each task: batches closed, the one being filled.         *)
Placed(plan, task, cap, byteTarget) ==
    IF MustClose(plan, task, cap, byteTarget)
    THEN [closed  |-> Append(plan.closed, plan.current),
          current |-> <<task>>,
          bytes   |-> task.weight]
    ELSE [closed  |-> plan.closed,
          current |-> Append(plan.current, task),
          bytes   |-> plan.bytes + task.weight]

Filled(tasks, cap, byteTarget) ==
    LET after[k \in 0..Len(tasks)] ==
            IF k = 0 THEN [closed |-> <<>>, current |-> <<>>, bytes |-> 0]
            ELSE Placed(after[k - 1], tasks[k], cap, byteTarget)
    IN  after

ByteBatches(tasks, cap, byteTarget) ==
    LET plan == Filled(tasks, cap, byteTarget)[Len(tasks)]
    IN  IF plan.current = <<>> THEN plan.closed
        ELSE Append(plan.closed, plan.current)

BuildBatches(tasks, policy, byteTarget) ==
    LET group == IF policy.sortBy THEN Sorted(tasks) ELSE tasks
    IN  IF policy.mode = "disabled"
        THEN [i \in DOMAIN tasks |-> <<tasks[i]>>]
        ELSE IF byteTarget = 0
             THEN Chunks(group, CountCap(policy))
             ELSE ByteBatches(group, CountCap(policy), byteTarget)
=============================================================================
