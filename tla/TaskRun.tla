------------------------------- MODULE TaskRun -------------------------------
(***************************************************************************)
(* What one run of a graph promises, without queues, workers or waiting:   *)
(* a run spreads from its inputs like a diffusing computation.  A task is  *)
(* created by main while it seeds the inputs, or by a task that is itself  *)
(* alive; the run is completed only when no task is alive and every input  *)
(* item has been taken; a run that stops early creates nothing any more.   *)
(***************************************************************************)
EXTENDS Naturals

CONSTANTS
    Tasks,      \* identities of tasks
    Nodes,      \* the nodes; only input nodes have items to take
    MaxItems    \* items an input node may start with

VARIABLES
    left,       \* left[n]: input items of n nobody has taken
    live,       \* the tasks created and not finished
    seeding,    \* main has not looked at every input yet
    status      \* "running", "completed" or "aborted"

vars == <<left, live, seeding, status>>

Init ==
    /\ left \in [Nodes -> 0..MaxItems]
    /\ live = {}
    /\ seeding = TRUE
    /\ status = "running"

Spawn(t) ==
    /\ status = "running"
    /\ seeding \/ live # {}
    /\ t \notin live
    /\ live' = live \cup {t}
    /\ UNCHANGED <<left, seeding, status>>

Finish(t) ==
    /\ status # "completed"
    /\ t \in live
    /\ live' = live \ {t}
    /\ UNCHANGED <<left, seeding, status>>

(* Items are taken by a task that is alive.                                *)
Take(n) ==
    /\ status = "running"
    /\ live # {}
    /\ \E k \in 0..MaxItems : k < left[n] /\ left' = [left EXCEPT ![n] = k]
    /\ UNCHANGED <<live, seeding, status>>

Seeded ==
    /\ status = "running" /\ seeding
    /\ seeding' = FALSE
    /\ UNCHANGED <<left, live, status>>

Complete ==
    /\ status = "running" /\ ~seeding
    /\ live = {}
    /\ \A n \in Nodes : left[n] = 0
    /\ status' = "completed"
    /\ UNCHANGED <<left, live, seeding>>

Abort ==
    /\ status = "running"
    /\ status' = "aborted"
    /\ seeding' = FALSE
    /\ UNCHANGED <<left, live>>

Next ==
    \/ \E t \in Tasks : Spawn(t) \/ Finish(t)
    \/ \E n \in Nodes : Take(n)
    \/ Seeded \/ Complete \/ Abort

Spec == Init /\ [][Next]_vars
=============================================================================
