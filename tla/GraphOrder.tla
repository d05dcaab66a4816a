----------------------------- MODULE GraphOrder -----------------------------
(***************************************************************************)
(* The order of a graph: topological_sort, which rejects cycles before a   *)
(* run begins, step by step, and topological_nodes, by which the engine    *)
(* gives its nodes their priority.  Two nodes may be connected by several  *)
(* edges, one for each pair of ports.                                      *)
(***************************************************************************)
EXTENDS Naturals, FiniteSets, SequencesExt, Sublists

CONSTANTS
    Nodes,      \* the nodes of the graph, a sequence in their order
    MaxEdges    \* edges of a graph (a bound)

ASSUME NodesAssumption ==
    /\ Nodes \in Seq(ToSet(Nodes)) /\ IsInjective(Nodes)
    /\ MaxEdges \in Nat

VARIABLES
    edges,      \* graph.edges: pairs of source and target
    indegree,
    queue,      \* nodes without a source that is left
    result,
    verdict     \* "sorting", "sorted" or "cycle"

vars == <<edges, indegree, queue, result, verdict>>

NodeSet == ToSet(Nodes)
Between(n, m) == {i \in DOMAIN edges : edges[i] = <<n, m>>}
Into(m) == {i \in DOMAIN edges : edges[i][2] = m}
Sources(m) == {edges[i][1] : i \in Into(m)}

Init ==
    /\ edges \in UNION {[1..k -> NodeSet \X NodeSet] : k \in 0..MaxEdges}
    /\ indegree = [m \in NodeSet |-> Cardinality(Into(m))]
    /\ queue = Sublist(Nodes, {i \in DOMAIN Nodes : Into(Nodes[i]) = {}})
    /\ result = <<>>
    /\ verdict = "sorting"

(* A bug: several edges to a target count as one.                          *)
LoweredOnce(n) ==
    [m \in NodeSet |-> indegree[m] - IF Between(n, m) = {} THEN 0 ELSE 1]

Lowered(n) == [m \in NodeSet |-> indegree[m] - Cardinality(Between(n, m))]

(* A bug: a target is free as soon as one of its sources is sorted.        *)
FreedEarly(n) ==
    Sublist([i \in DOMAIN edges |-> edges[i][2]], {i \in DOMAIN edges : edges[i][1] = n})

(* The targets of n with no other source left, in the order in which their *)
(* last edges come.                                                        *)
Freed(n) ==
    LET last == {i \in DOMAIN edges :
                    /\ edges[i][1] = n /\ Lowered(n)[edges[i][2]] = 0
                    /\ \A j \in Between(n, edges[i][2]) : j <= i}
    IN  Sublist([i \in DOMAIN edges |-> edges[i][2]], last)

Take ==
    /\ verdict = "sorting" /\ queue # <<>>
    /\ result' = Append(result, Head(queue))
    /\ indegree' = Lowered(Head(queue))
    /\ queue' = Tail(queue) \o Freed(Head(queue))
    /\ UNCHANGED <<edges, verdict>>

Finish ==
    /\ verdict = "sorting" /\ queue = <<>>
    /\ verdict' = IF Len(result) = Len(Nodes) THEN "sorted" ELSE "cycle"
    /\ UNCHANGED <<edges, indegree, queue, result>>

Next == Take \/ Finish
Spec == Init /\ [][Next]_vars

(* topological_nodes: round by round, the nodes whose sources are ordered. *)
Round(s) ==
    LET free == {i \in DOMAIN s.pending : Sources(s.pending[i]) \subseteq ToSet(s.ordered)}
    IN  [ordered |-> s.ordered \o Sublist(s.pending, free),
         pending |-> Sublist(s.pending, DOMAIN s.pending \ free)]

Rounds ==
    LET after[k \in 0..Len(Nodes)] ==
            IF k = 0 THEN [ordered |-> <<>>, pending |-> Nodes] ELSE Round(after[k - 1])
    IN  after[Len(Nodes)]

-----------------------------------------------------------------------------

(* A cycle, as a set of nodes none of which can be the first.              *)
HasCycle ==
    \E S \in SUBSET NodeSet : S # {} /\ \A m \in S : Sources(m) \cap S # {}

Topological(s) ==
    /\ Len(s) = Len(Nodes) /\ ToSet(s) = NodeSet
    /\ \A i, j \in DOMAIN s : s[i] \in Sources(s[j]) => i < j

(* Once sorted, the result lists every node once and after its sources,    *)
(* and so does, if all could be ordered, the order of the priorities.      *)
OrderIsTopological ==
    /\ verdict = "sorted" => Topological(result)
    /\ Rounds.pending = <<>> => Topological(Rounds.ordered)

(* A graph is rejected for a cycle exactly if it has one, parallel edges   *)
(* and self-loops included; topological_nodes never fails on a graph that  *)
(* was accepted.                                                           *)
RejectsExactlyCycles ==
    /\ verdict = "sorted" => ~ HasCycle /\ Rounds.pending = <<>>
    /\ verdict = "cycle" => HasCycle
=============================================================================
