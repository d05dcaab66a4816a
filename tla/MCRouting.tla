----------------------------- MODULE MCRouting -----------------------------
(***************************************************************************)
(* Three graphs for TLC.  A port takes single packets unless it is listed. *)
(***************************************************************************)
EXTENDS Routing, TLC

CONSTANTS src, model, other, lft, right, merge, pack, clone

E(a, o, b, p) == <<a, o, b, p>>

(* The edges of a list, by the output they leave.                          *)
TargetsOf(edges) ==
    [n \in Nodes |-> [o \in Outputs[n] |->
        [i \in DOMAIN SelectSeq(edges, LAMBDA e : e[1] = n /\ e[2] = o) |->
            LET e == SelectSeq(edges, LAMBDA x : x[1] = n /\ x[2] = o)[i]
            IN  [to |-> e[3], port |-> e[4]]]]]

MCOutputs ==
    [n \in Nodes |-> IF n \in {src, other} THEN {"x", "z"} ELSE IF n = model THEN {"c"}
                     ELSE IF n \in {lft, right} THEN {"y", "z"} ELSE {}]
MCInputs ==
    [n \in Nodes |-> IF n \in {src, model, other} THEN {}
                     ELSE IF n = merge THEN {"a", "b", "ck", "opt"}
                     ELSE IF n = pack THEN {"p", "q"}
                     ELSE IF n = clone THEN {"audio", "transcript"} ELSE {"in"}]
MCBroadcast == {<<merge, "ck">>}
MCList == {<<pack, "p">>}
MCOptional == {<<clone, "transcript">>, <<merge, "opt">>}
MCQueueMax == [n \in Nodes |-> 1]

(* Two branches that meet again in merge, beside a checkpoint that is      *)
(* broadcast, and in pack, which another source feeds as well.  The        *)
(* optional port of merge runs dry when right has a z for one y only.      *)
MCTargets == TargetsOf(
    <<E(src, "x", lft, "in"), E(src, "x", right, "in"),
      E(lft, "y", merge, "a"), E(right, "y", merge, "b"),
      E(right, "z", merge, "opt"),
      E(model, "c", merge, "ck"),
      E(lft, "z", pack, "p"), E(right, "z", pack, "q"),
      E(other, "x", pack, "p"), E(other, "z", pack, "q")>>)
MCItems == [n \in Nodes |-> IF n \in {src, model, other} THEN 1 ELSE 0]
MCResults ==
    [n \in Nodes |-> IF n = src THEN {<<>>, <<"x">>, <<"x", "x">>}
                     ELSE IF n = model THEN {<<"c">>}
                     ELSE IF n = other THEN {<<"x">>, <<"z", "x", "z">>}
                     ELSE IF n = lft THEN {<<"y">>, <<"y", "z">>, <<"y", "y">>}
                     ELSE IF n = right THEN {<<>>, <<"y", "z">>, <<"z", "y", "y">>}
                     ELSE {<<>>}]
(* It meets the conditions of the theorems.                                *)
MCFrom ==
    [n \in Nodes |-> IF n \in {src, model, other} THEN {n}
                     ELSE IF n = merge THEN {src, model}
                     ELSE IF n = pack THEN {src, other} ELSE {src}]
ASSUME MCAssumption ==
    Targets = MCTargets => /\ Bounds(MCFrom) /\ OneWaitsForBroadcast(MCFrom)
                           /\ OneFeedPerLineage(MCFrom)

(* Two lineages, whose groups are complete but for a late broadcast.       *)
RaceTargets == TargetsOf(
    <<E(src, "x", lft, "in"), E(lft, "y", merge, "a"),
      E(lft, "z", merge, "b"), E(model, "c", merge, "ck")>>)
RaceItems == [n \in Nodes |-> IF n = src THEN 2 ELSE IF n = model THEN 1 ELSE 0]
RaceResults ==
    [n \in Nodes |-> IF n = src THEN {<<"x">>, <<"x", "x">>}
                     ELSE IF n = model THEN {<<"c">>}
                     ELSE IF n = lft THEN {<<"y", "z">>, <<"y", "z", "y">>, <<"z">>}
                     ELSE {<<>>}]

(* A voice is cloned from a recording and its transcript.                  *)
CloneTargets ==
    TargetsOf(<<E(src, "x", clone, "audio"), E(other, "x", clone, "transcript")>>)
CloneItems == [n \in Nodes |-> IF n = clone THEN 0 ELSE 1]
CloneResults == [n \in Nodes |-> IF n = clone THEN {<<>>} ELSE {<<"x">>}]
=============================================================================
