----------------------------- MODULE BatchPlans -----------------------------
(***************************************************************************)
(* What the batch planner promises of every input.  The variables are the  *)
(* arguments of build_batches.                                             *)
(***************************************************************************)
EXTENDS BatchPlanner

VARIABLES tasks, policy, byteTarget

Task == [weight : Nat, key : Nat]
Policy == [mode : {"micro_batch", "disabled"}, preferred : Nat \ {0},
           max : Nat \ {0}, sortBy : BOOLEAN]

Input ==
    /\ tasks \in Seq(Task)
    /\ policy \in Policy
    /\ byteTarget \in Nat

plan  == BuildBatches(tasks, policy, byteTarget)
group == IF policy.sortBy /\ policy.mode # "disabled" THEN Sorted(tasks) ELSE tasks
cap   == IF policy.mode = "disabled" THEN 1 ELSE CountCap(policy)

(* f[1] + ... + f[k].                                                      *)
SumTo(f, k) ==
    LET sum[i \in 0..k] == IF i = 0 THEN 0 ELSE sum[i - 1] + f[i]
    IN  sum[k]

Bytes(s) == SumTo([i \in DOMAIN s |-> s[i].weight], Len(s))

(* The tasks in the first k batches of p.                                  *)
Taken(p, k) == SumTo([i \in DOMAIN p |-> Len(p[i])], k)

(* A batch execute() may be given: a single task, or one within both caps. *)
Fits(s) ==
    \/ Len(s) = 1
    \/ Len(s) <= cap /\ (byteTarget = 0 \/ Bytes(s) <= byteTarget)

Partitions(p, g) ==
    /\ Taken(p, Len(p)) = Len(g)
    /\ \A i \in DOMAIN p :
        /\ p[i] # <<>> /\ Fits(p[i])
        /\ p[i] = SubSeq(g, Taken(p, i - 1) + 1, Taken(p, i))

(* No task is lost, duplicated or reordered against the policy, no batch   *)
(* is empty, and a batch over a cap is a single oversized task.            *)
PlanIsAPartition == Partitions(plan, group)

(* Every way to cut the tasks, in order, into batches that may be given.   *)
(* A cut is the set of positions at which a batch ends.                    *)
Cuts(g) ==
    {cut \in SUBSET (1..Len(g)) :
        /\ Len(g) > 0 => Len(g) \in cut
        /\ \A i \in cut, j \in {0} \cup cut :
            j < i /\ (\A k \in cut : k <= j \/ i <= k)
                => Fits(SubSeq(g, j + 1, i))}

(* No other cut respecting the caps needs fewer execute() calls: filling   *)
(* greedily wastes nothing.                                                *)
PlanIsShortest == \A cut \in Cuts(group) : Len(plan) <= Cardinality(cut)

(* "batches only ever get smaller ... small-item behaviour is unchanged":  *)
(* a byte target no batch reaches does not change the plan, and one that   *)
(* is reached never produces fewer batches.                                *)
BytesOnlyShrinkBatches ==
    policy.mode # "disabled" =>
        LET byCount == Chunks(group, cap)
        IN  /\ Len(plan) >= Len(byCount)
            /\ (\A i \in DOMAIN byCount : Bytes(byCount[i]) <= byteTarget)
                  => plan = byCount
=============================================================================
