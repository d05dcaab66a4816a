----------------------------- MODULE MCScheduler -----------------------------
(***************************************************************************)
(* Instances of Scheduler for TLC: two small graphs with tight queues.     *)
(***************************************************************************)
EXTENDS Scheduler, TLC

CONSTANTS src, mid, left, right, out

(* A chain src -> mid -> out.  mid and out wait for two tasks, but the     *)
(* queue of out holds one: only backpressure or the end can flush it.      *)
ChainEdges    == {<<src, mid>>, <<mid, out>>}
ChainPriority == (src :> 0) @@ (mid :> 1) @@ (out :> 2)
ChainQueueMax == (src :> 1) @@ (mid :> 2) @@ (out :> 1)
ChainTarget   == (src :> 1) @@ (mid :> 2) @@ (out :> 2)

(* A fork src -> left, right and a join of both in out.                    *)
ForkEdges    == {<<src, left>>, <<src, right>>, <<left, out>>, <<right, out>>}
ForkPriority == (src :> 0) @@ (left :> 1) @@ (right :> 2) @@ (out :> 3)
ForkQueueMax == (src :> 1) @@ (left :> 1) @@ (right :> 1) @@ (out :> 2)
ForkTarget   == (src :> 1) @@ (left :> 1) @@ (right :> 1) @@ (out :> 2)

-----------------------------------------------------------------------------

(* The pool of identities is large enough for this instance: no step is    *)
(* disabled because every identity is in use.                              *)
PoolSuffices == Live # Tasks
=============================================================================
