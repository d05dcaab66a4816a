-------------------------- MODULE MCJobCoordination --------------------------
(***************************************************************************)
(* Instances of JobCoordination for TLC.                                   *)
(***************************************************************************)
EXTENDS JobCoordination, TLC

(* No job is meant for a particular runner.                                *)
CONSTANTS r1, r2, j1, j2
AnyTarget == [j \in Jobs |-> NoRunner]

Interchangeable == Permutations(Runners)
=============================================================================
