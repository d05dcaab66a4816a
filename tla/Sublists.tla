------------------------------ MODULE Sublists ------------------------------
(***************************************************************************)
(* A part of a sequence, by its positions.  SelectSeq of the Sequences     *)
(* module is evaluated by TLC only; this one can be reasoned about.        *)
(***************************************************************************)
EXTENDS Naturals, FiniteSets

(* Element k of a set of numbers, in ascending order.                      *)
Nth(I, k) == CHOOSE i \in I : Cardinality({j \in I : j <= i}) = k

(* The elements of s at the positions I, in their order.                   *)
Sublist(s, I) == [k \in 1..Cardinality(I) |-> s[Nth(I, k)]]
=============================================================================
