----------------------------- MODULE MCPlanning -----------------------------
(***************************************************************************)
(* Planning for TLC: build_batches on every input up to the bounds, and    *)
(* the sorting of every graph up to the bounds.  An initial state is an    *)
(* input of one of them.                                                   *)
(***************************************************************************)
EXTENDS BatchPlans, GraphOrder

CONSTANTS MaxTasks, MaxWeight, MaxSize, MaxTarget, Keys, a, b, c, d

MCNodes == <<a, b, c, d>>

Planner ==
    /\ tasks \in UNION {[1..k -> [weight : 1..MaxWeight, key : Keys]] : k \in 0..MaxTasks}
    /\ policy \in [mode : {"micro_batch", "disabled"}, preferred : 1..MaxSize,
                   max : 1..MaxSize, sortBy : BOOLEAN]
    /\ byteTarget \in 0..MaxTarget

NoPlan ==
    /\ tasks = <<>> /\ byteTarget = 0
    /\ policy = [mode |-> "disabled", preferred |-> 1, max |-> 1, sortBy |-> FALSE]

NoGraph ==
    /\ edges = <<>> /\ indegree = [m \in NodeSet |-> 0]
    /\ queue = <<>> /\ result = Nodes /\ verdict = "sorted"

MCInit ==
    \/ Planner /\ NoGraph
    \/ NoPlan /\ Init
MCNext == Next /\ UNCHANGED <<tasks, policy, byteTarget>>
MCSpec == MCInit /\ [][MCNext]_<<vars, tasks, policy, byteTarget>>
=============================================================================
