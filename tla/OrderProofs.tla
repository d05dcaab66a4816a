----------------------------- MODULE OrderProofs -----------------------------
(***************************************************************************)
(* The order of a graph, for every graph: topological_sort lists sources   *)
(* first and rejects exactly the graphs with a cycle, and topological_nodes*)
(* orders what was accepted.                                               *)
(***************************************************************************)
EXTENDS GraphOrder, ListProofs

-----------------------------------------------------------------------------
(* Nodes and edges.                                                        *)

EdgesOK == edges \in Seq(NodeSet \X NodeSet)

LEMMA NodesAre ==
    /\ Nodes \in Seq(NodeSet) /\ IsInjective(Nodes) /\ IsFiniteSet(NodeSet)
    /\ Len(Nodes) \in Nat /\ Cardinality(NodeSet) = Len(Nodes) /\ ToSet(Nodes) = NodeSet
  <1>1. Nodes \in Seq(ToSet(Nodes)) /\ IsInjective(Nodes)
    BY NodesAssumption
  <1> QED BY <1>1, DistinctLength DEF NodeSet

LEMMA EdgesAre ==
    ASSUME EdgesOK
    PROVE  /\ Len(edges) \in Nat /\ DOMAIN edges = 1..Len(edges)
           /\ IsFiniteSet(DOMAIN edges)
           /\ \A i \in DOMAIN edges : /\ edges[i][1] \in NodeSet /\ edges[i][2] \in NodeSet
                                      /\ edges[i] = <<edges[i][1], edges[i][2]>>
           /\ \A m : /\ Into(m) \in SUBSET DOMAIN edges /\ Sources(m) \subseteq NodeSet
  <1> DEFINE P == NodeSet \X NodeSet
  <1>1. Len(edges) \in Nat /\ DOMAIN edges = 1..Len(edges)
        /\ \A i \in DOMAIN edges : edges[i] \in P
    <2> edges \in Seq(P)
      BY DEF EdgesOK
    <2> HIDE DEF P
    <2> QED OBVIOUS
  <1>2. IsFiniteSet(DOMAIN edges)
    BY <1>1, FS_Interval
  <1> QED BY <1>1, <1>2 DEF Into, Sources

SourcesFirst(s) == \A i, j \in DOMAIN s : s[i] \in Sources(s[j]) => i < j

(* A list with all nodes, sources first, shows that there is no cycle.     *)
LEMMA SortedHasNoCycle ==
    ASSUME NEW s \in Seq(NodeSet), ToSet(s) = NodeSet, SourcesFirst(s)
    PROVE  ~ HasCycle
  <1> SUFFICES ASSUME NEW S \in SUBSET NodeSet, S # {},
                      \A m \in S : Sources(m) \cap S # {}
               PROVE  FALSE
    BY DEF HasCycle
  <1> DEFINE T == {i \in DOMAIN s : s[i] \in S}
  <1>1. DOMAIN s \subseteq Nat
    OBVIOUS
  <1>2. \A m \in S : \E i \in T : s[i] = m
    BY DEF ToSet
  <1>3. PICK j \in T : \A i \in T : j <= i
    <2>1. T \subseteq Nat /\ T # {}
      BY <1>1, <1>2
    <2> HIDE DEF T
    <2> QED BY <2>1, LeastNatural
  <1>4. PICK m \in S : m \in Sources(s[j])
    OBVIOUS
  <1>5. PICK i \in T : s[i] = m
    BY <1>2
  <1>6. i < j
    BY <1>4, <1>5 DEF SourcesFirst
  <1> QED BY <1>1, <1>3, <1>6

-----------------------------------------------------------------------------
(* topological_sort.                                                       *)

(* The edges into m whose source is not sorted yet.                        *)
Left(m) == {i \in Into(m) : edges[i][1] \notin ToSet(result)}

Sorting ==
    /\ EdgesOK /\ queue \in Seq(NodeSet) /\ result \in Seq(NodeSet)
    /\ indegree = [m \in NodeSet |-> Cardinality(Left(m))]
    /\ IsInjective(queue) /\ IsInjective(result) /\ ToSet(queue) \cap ToSet(result) = {}
    /\ ToSet(queue) \cup ToSet(result) = {m \in NodeSet : Left(m) = {}}
    /\ SourcesFirst(result)
    /\ verdict = "sorted" => Len(result) = Len(Nodes)
    /\ verdict = "cycle" => queue = <<>> /\ Len(result) # Len(Nodes)

LEMMA LeftIs ==
    ASSUME EdgesOK
    PROVE  \A m : /\ Left(m) \in SUBSET DOMAIN edges /\ IsFiniteSet(Left(m))
                  /\ Cardinality(Left(m)) \in Nat
                  /\ Cardinality(Left(m)) = 0 <=> Left(m) = {}
  <1> TAKE m
  <1>1. Left(m) \in SUBSET DOMAIN edges /\ IsFiniteSet(DOMAIN edges)
    BY EdgesAre DEF Left
  <1>2. IsFiniteSet(Left(m))
    BY <1>1, FS_Subset
  <1> QED BY <1>1, <1>2, FS_CardinalityType, FS_EmptySet

LEMMA InitSorting == Init => Sorting
  <1> SUFFICES ASSUME Init PROVE Sorting
    OBVIOUS
  <1> DEFINE I == {i \in DOMAIN Nodes : Into(Nodes[i]) = {}}
  <1>1. EdgesOK
    <2>1. PICK k \in 0..MaxEdges : edges \in [1..k -> NodeSet \X NodeSet]
      BY DEF Init
    <2>2. k \in Nat
      BY NodesAssumption
    <2> QED BY <2>1, <2>2 DEF EdgesOK
  <1>2. queue = Sublist(Nodes, I) /\ result = <<>> /\ verdict = "sorting"
        /\ indegree = [m \in NodeSet |-> Cardinality(Into(m))]
    BY DEF Init
  <1>3. ToSet(result) = {} /\ DOMAIN result = {} /\ result \in Seq(NodeSet)
        /\ IsInjective(result)
    BY <1>2 DEF ToSet, IsInjective
  <1>4. \A m : Left(m) = Into(m)
    BY <1>3 DEF Left
  <1>5. /\ queue \in Seq(NodeSet) /\ IsInjective(queue)
        /\ ToSet(queue) = {Nodes[i] : i \in I}
    <2>1. I \in SUBSET DOMAIN Nodes
      OBVIOUS
    <2> HIDE DEF I
    <2> QED BY <1>2, <2>1, NodesAre, SublistIs
  <1>6. {Nodes[i] : i \in I} = {m \in NodeSet : Into(m) = {}}
    <2>1. \A m \in NodeSet : \E i \in DOMAIN Nodes : Nodes[i] = m
      BY NodesAre DEF ToSet
    <2>2. \A i \in DOMAIN Nodes : Nodes[i] \in NodeSet
      BY NodesAre
    <2> QED BY <2>1, <2>2
  <1> QED BY <1>1, <1>2, <1>3, <1>4, <1>5, <1>6 DEF Sorting, SourcesFirst

(* What the edges out of the next node leave of the edges into m.          *)
LEMMA LowersLeft ==
    ASSUME Sorting, NEW h \in ToSet(queue), result' = Append(result, h), edges' = edges
    PROVE  /\ ToSet(result') = ToSet(result) \cup {h}
           /\ \A m : /\ Left(m)' = Left(m) \ Between(h, m)
                     /\ Between(h, m) \in SUBSET Left(m)
           /\ \A m \in NodeSet : Lowered(h)[m] = Cardinality(Left(m)')
  <1> USE DEF Sorting
  <1>1. ToSet(result') = ToSet(result) \cup {h}
    <2>1. h \in NodeSet
      BY DEF ToSet
    <2>2. /\ DOMAIN result' = 1..(Len(result) + 1) /\ DOMAIN result = 1..Len(result)
          /\ Len(result) \in Nat /\ result'[Len(result) + 1] = h
          /\ \A i \in 1..Len(result) : result'[i] = result[i]
      BY <2>1, AppendProperties, LenProperties
    <2>3. \A i : i \in DOMAIN result' <=> i \in DOMAIN result \/ i = Len(result) + 1
      BY <2>2
    <2> QED BY <2>2, <2>3 DEF ToSet
  <1>2. h \notin ToSet(result)
    OBVIOUS
  <1>3. ASSUME NEW m
        PROVE  Left(m)' = Left(m) \ Between(h, m) /\ Between(h, m) \in SUBSET Left(m)
    <2>1. \A i \in DOMAIN edges : i \in Between(h, m) <=> edges[i][1] = h /\ edges[i][2] = m
      BY EdgesAre DEF Between
    <2>2. \A i : i \in Left(m)' <=> /\ i \in DOMAIN edges /\ edges[i][2] = m
                                    /\ edges[i][1] \notin ToSet(result) \cup {h}
      BY <1>1 DEF Left, Into
    <2>3. \A i : i \in Left(m) <=> /\ i \in DOMAIN edges /\ edges[i][2] = m
                                   /\ edges[i][1] \notin ToSet(result)
      BY DEF Left, Into
    <2>4. \A i \in Between(h, m) : i \in DOMAIN edges
      BY DEF Between
    <2> QED BY <1>2, <2>1, <2>2, <2>3, <2>4
  <1>4. ASSUME NEW m \in NodeSet PROVE Lowered(h)[m] = Cardinality(Left(m)')
    <2> DEFINE L == Left(m)
               B == Between(h, m)
    <2>1. L \cap B = B /\ IsFiniteSet(L) /\ indegree[m] = Cardinality(L)
      BY <1>3, LeftIs
    <2>2. Lowered(h)[m] = indegree[m] - Cardinality(B)
      BY DEF Lowered
    <2>3. Left(m)' = L \ B
      BY <1>3
    <2> HIDE DEF L, B, Sorting
    <2>4. Cardinality(L \ B) = Cardinality(L) - Cardinality(L \cap B)
      BY <2>1, FS_Difference
    <2> QED BY <2>1, <2>2, <2>3, <2>4
  <1> QED BY <1>1, <1>3, <1>4

(* The nodes that the next one frees, each once.                           *)
LEMMA FreedIs ==
    ASSUME Sorting, NEW h \in ToSet(queue), result' = Append(result, h), edges' = edges
    PROVE  /\ Freed(h) \in Seq(NodeSet) /\ IsInjective(Freed(h))
           /\ ToSet(Freed(h)) = {m \in NodeSet : Left(m)' = {} /\ Left(m) # {}}
  <1> USE DEF Sorting
  <1> DEFINE targets == [i \in DOMAIN edges |-> edges[i][2]]
             last == {i \in DOMAIN edges :
                         /\ edges[i][1] = h /\ Lowered(h)[edges[i][2]] = 0
                         /\ \A j \in Between(h, edges[i][2]) : j <= i}
  <1>1. Freed(h) = Sublist(targets, last)
    BY DEF Freed
  <1>2. /\ \A m : Left(m)' = Left(m) \ Between(h, m) /\ Between(h, m) \in SUBSET Left(m)
        /\ \A m \in NodeSet : Lowered(h)[m] = Cardinality(Left(m)')
    BY LowersLeft
  <1>3. \A m : Cardinality(Left(m)') = 0 <=> Left(m)' = {}
    <2> TAKE m
    <2> DEFINE L == Left(m)'
    <2>1. L \in SUBSET Left(m) /\ IsFiniteSet(Left(m))
      BY <1>2, LeftIs
    <2> HIDE DEF L
    <2>2. Cardinality(L) = 0 <=> L = {}
      BY <2>1, FS_Subset, FS_EmptySet
    <2> QED BY <2>2 DEF L
  <1>4. targets \in Seq(NodeSet) /\ last \in SUBSET DOMAIN targets
    <2>1. targets \in [1..Len(edges) -> NodeSet] /\ Len(edges) \in Nat
      BY EdgesAre
    <2> QED BY <2>1
  <1>5. /\ \A i \in DOMAIN edges : edges[i][2] \in NodeSet /\ i \in Nat
        /\ \A i \in DOMAIN edges : edges[i][1] = h => i \in Between(h, edges[i][2])
        /\ \A m : \A i \in Between(h, m) :
              i \in DOMAIN edges /\ edges[i][1] = h /\ edges[i][2] = m
    BY EdgesAre DEF Between
  <1>6. ASSUME NEW i \in last, NEW j \in last, targets[i] = targets[j] PROVE i = j
    <2>1. edges[i][2] = edges[j][2] /\ i \in DOMAIN edges /\ j \in DOMAIN edges
      BY <1>6
    <2>2. i \in Between(h, edges[j][2]) /\ j \in Between(h, edges[i][2])
      BY <1>5, <2>1
    <2>3. i <= j /\ j <= i
      BY <2>2
    <2> QED BY <1>5, <2>1, <2>3
  <1>7. {targets[i] : i \in last} = {m \in NodeSet : Left(m)' = {} /\ Left(m) # {}}
    <2>1. ASSUME NEW i \in last
          PROVE  \E m \in NodeSet : targets[i] = m /\ Left(m)' = {} /\ Left(m) # {}
      <3>1. PICK m \in NodeSet : m = edges[i][2]
        BY <1>5
      <3>2. i \in Between(h, m) /\ Lowered(h)[m] = 0
        BY <1>5, <3>1
      <3>3. Left(m)' = {} /\ Left(m) # {}
        BY <1>2, <1>3, <3>2
      <3> QED BY <3>1, <3>3
    <2>2. ASSUME NEW m \in NodeSet, Left(m)' = {}, Left(m) # {}
          PROVE  \E i \in last : targets[i] = m
      <3> DEFINE B == Between(h, m)
      <3>1. B # {} /\ B \in SUBSET (0..Len(edges)) /\ Len(edges) \in Nat
        BY <1>2, <1>5, <2>2, EdgesAre
      <3>2. PICK i \in B : \A j \in B : j <= i
        <4> HIDE DEF B
        <4> QED BY <3>1, Greatest
      <3>3. i \in DOMAIN edges /\ edges[i][1] = h /\ edges[i][2] = m
        BY <1>5
      <3>4. Lowered(h)[m] = 0
        BY <1>2, <1>3, <2>2
      <3>5. i \in last
        BY <3>2, <3>3, <3>4
      <3> QED BY <3>3, <3>5
    <2> HIDE DEF targets, last
    <2> QED BY ZenonT(30), <2>1, <2>2
  <1> HIDE DEF targets, last
  <1>8. /\ Sublist(targets, last) \in Seq(NodeSet)
        /\ ToSet(Sublist(targets, last)) = {targets[i] : i \in last}
    BY <1>4, SublistIs
  <1>9. IsInjective(Sublist(targets, last))
    BY <1>4, <1>6, SublistDistinct
  <1> QED BY <1>1, <1>7, <1>8, <1>9

LEMMA TakeSorting ==
    ASSUME Sorting, Take PROVE Sorting'
  <1> USE DEF Sorting
  <1> DEFINE h == Head(queue)
             new == Freed(h)
  <1>1. /\ verdict = "sorting" /\ queue # <<>> /\ result' = Append(result, h)
        /\ indegree' = Lowered(h) /\ queue' = Tail(queue) \o new
        /\ edges' = edges /\ verdict' = verdict
    BY DEF Take
  <1>2. /\ h \in NodeSet /\ h \in ToSet(queue) /\ Tail(queue) \in Seq(NodeSet)
        /\ IsInjective(Tail(queue)) /\ ToSet(Tail(queue)) = ToSet(queue) \ {h}
    BY <1>1, TailDistinct
  <1> HIDE DEF h
  <1>3. /\ ToSet(result') = ToSet(result) \cup {h}
        /\ \A m : Left(m)' = Left(m) \ Between(h, m)
        /\ \A m \in NodeSet : Lowered(h)[m] = Cardinality(Left(m)')
    BY <1>1, <1>2, LowersLeft
  <1>4. /\ new \in Seq(NodeSet) /\ IsInjective(new)
        /\ ToSet(new) = {m \in NodeSet : Left(m)' = {} /\ Left(m) # {}}
    BY <1>1, <1>2, FreedIs
  <1> HIDE DEF new
  <1>5. ToSet(Tail(queue)) \cap ToSet(new) = {}
    BY <1>2, <1>4
  <1>6. /\ queue' \in Seq(NodeSet) /\ IsInjective(queue')
        /\ ToSet(queue') = (ToSet(queue) \ {h}) \cup ToSet(new)
    <2> DEFINE t == Tail(queue)
    <2>1. t \in Seq(NodeSet) /\ IsInjective(t) /\ ToSet(t) \cap ToSet(new) = {}
          /\ queue' = t \o new /\ ToSet(t) = ToSet(queue) \ {h}
      BY <1>1, <1>2, <1>5
    <2> HIDE DEF t, Sorting
    <2>2. /\ t \o new \in Seq(NodeSet) /\ IsInjective(t \o new)
          /\ ToSet(t \o new) = ToSet(t) \cup ToSet(new)
      <3>1. t \in Seq(NodeSet) /\ new \in Seq(NodeSet)
        BY <1>4, <2>1
      <3>2. t \o new \in Seq(NodeSet) /\ ToSet(t \o new) = ToSet(t) \cup ToSet(new)
        BY <3>1, ConcatDistinct
      <3>3. IsInjective(t) /\ IsInjective(new) /\ ToSet(t) \cap ToSet(new) = {}
              => IsInjective(t \o new)
        BY <3>1, ConcatDistinct
      <3> QED BY <1>4, <2>1, <3>2, <3>3
    <2> QED BY <2>1, <2>2
  <1>7. /\ result' \in Seq(NodeSet) /\ DOMAIN result' = 1..(Len(result) + 1)
        /\ DOMAIN result = 1..Len(result) /\ Len(result) \in Nat
        /\ result'[Len(result) + 1] = h
        /\ \A i \in 1..Len(result) : result'[i] = result[i]
    BY <1>1, <1>2, AppendProperties, LenProperties
  <1>8. h \notin ToSet(result) /\ Left(h) = {}
    BY <1>2
  <1>9. IsInjective(result')
    <2>1. \A i \in 1..Len(result) : result[i] # h
      BY <1>7, <1>8 DEF ToSet
    <2>2. \A i \in DOMAIN result' : i \in 1..Len(result) \/ i = Len(result) + 1
      BY <1>7
    <2> QED BY <1>7, <2>1, <2>2 DEF IsInjective
  <1>10. SourcesFirst(result)'
    <2>1. \A m : Sources(m)' = Sources(m)
      BY <1>1 DEF Sources, Into
    <2>2. \A m \in NodeSet : Left(m) = {} => Sources(m) \subseteq ToSet(result)
      BY DEF Left, Sources
    <2>3. ASSUME NEW i \in DOMAIN result', NEW j \in DOMAIN result',
                 result'[i] \in Sources(result'[j])
          PROVE  i < j
      <3>1. Sources(result'[j]) \subseteq ToSet(result)
        <4>1. result'[j] \in ToSet(result) \cup {h}
          BY <1>3 DEF ToSet
        <4>2. result'[j] \in NodeSet /\ Left(result'[j]) = {}
          BY <1>2, <4>1
        <4> QED BY <2>2, <4>2
      <3>2. i \in 1..Len(result)
        BY <1>7, <1>8, <2>3, <3>1
      <3>3. j \in 1..Len(result) \/ j = Len(result) + 1
        BY <1>7
      <3>4. CASE j \in 1..Len(result)
        BY <1>7, <2>3, <3>2, <3>4 DEF SourcesFirst
      <3> QED BY <1>7, <3>2, <3>3, <3>4
    <2> QED BY <2>1, <2>3 DEF SourcesFirst
  <1>11. indegree' = [m \in NodeSet |-> Cardinality(Left(m))']
    <2>1. indegree' = [m \in NodeSet |-> Lowered(h)[m]]
      BY <1>1 DEF Lowered
    <2> QED BY <1>3, <2>1
  <1>12. /\ ToSet(queue') \cap ToSet(result') = {}
         /\ ToSet(queue') \cup ToSet(result') = {m \in NodeSet : Left(m)' = {}}
    <2>1. \A m : Left(m) = {} => Left(m)' = {}
      BY <1>3
    <2> QED BY <1>2, <1>3, <1>4, <1>6, <2>1
  <1>13. EdgesOK'
    BY <1>1 DEF EdgesOK
  <1> QED BY <1>1, <1>6, <1>7, <1>9, <1>10, <1>11, <1>12, <1>13

LEMMA SpecSorting == Spec => []Sorting
  <1>1. Sorting /\ [Next]_vars => Sorting'
    <2> SUFFICES ASSUME Sorting, [Next]_vars PROVE Sorting'
      OBVIOUS
    <2>1. CASE Take
      BY <2>1, TakeSorting
    <2>2. CASE Finish
      BY <2>2 DEF Finish, Sorting, EdgesOK, Left, Into, SourcesFirst, Sources
    <2>3. CASE UNCHANGED vars
      <3>1. UNCHANGED <<edges, indegree, queue, result, verdict>>
        BY <2>3 DEF vars
      <3>2. \A m : Left(m)' = Left(m) /\ Sources(m)' = Sources(m)
        BY <3>1 DEF Left, Sources, Into
      <3> QED BY <3>1, <3>2 DEF Sorting, EdgesOK, SourcesFirst
    <2> QED BY <2>1, <2>2, <2>3 DEF Next
  <1> QED BY <1>1, InitSorting, PTL DEF Spec

(* Once the queue is empty, what is not sorted is a cycle.                 *)
LEMMA UnsortedIsCycle ==
    ASSUME Sorting, queue = <<>>, Len(result) # Len(Nodes)
    PROVE  HasCycle
  <1> DEFINE S == NodeSet \ ToSet(result)
  <1>1. /\ EdgesOK /\ result \in Seq(NodeSet) /\ IsInjective(result)
        /\ ToSet(queue) \cup ToSet(result) = {m \in NodeSet : Left(m) = {}}
    BY DEF Sorting
  <1>2. ToSet(queue) = {}
    BY DEF ToSet
  <1>3. S # {}
    <2>1. ToSet(result) # NodeSet /\ ToSet(result) \subseteq NodeSet
      BY <1>1, NodesAre, DistinctCovers, DistinctLength
    <2> QED BY <2>1
  <1>4. ASSUME NEW m \in S PROVE Sources(m) \cap S # {}
    <2>1. PICK i \in Into(m) : edges[i][1] \notin ToSet(result)
      BY <1>1, <1>2 DEF Left
    <2>2. edges[i][1] \in Sources(m) /\ Sources(m) \subseteq NodeSet
      BY <1>1, EdgesAre DEF Sources
    <2> QED BY <2>1, <2>2
  <1> HIDE DEF S
  <1>5. S \in SUBSET NodeSet
    BY DEF S
  <1> QED BY <1>3, <1>4, <1>5 DEF HasCycle

-----------------------------------------------------------------------------
(* topological_nodes.                                                      *)

RoundOK(s) ==
    /\ s.ordered \in Seq(NodeSet) /\ s.pending \in Seq(NodeSet)
    /\ IsInjective(s.ordered) /\ IsInjective(s.pending)
    /\ ToSet(s.ordered) \cap ToSet(s.pending) = {}
    /\ ToSet(s.ordered) \cup ToSet(s.pending) = NodeSet
    /\ SourcesFirst(s.ordered)
    /\ \A m \in ToSet(s.ordered) : Sources(m) \subseteq ToSet(s.ordered)

LEMMA RoundKeeps ==
    ASSUME EdgesOK, NEW s, RoundOK(s)
    PROVE  /\ RoundOK(Round(s))
           /\ Len(Round(s).pending) \in Nat /\ Len(s.pending) \in Nat
           /\ ~ HasCycle /\ s.pending # <<>> => Len(Round(s).pending) < Len(s.pending)
           /\ Len(Round(s).pending) <= Len(s.pending)
  <1> DEFINE p == s.pending
             o == s.ordered
             free == {i \in DOMAIN p : Sources(p[i]) \subseteq ToSet(o)}
             rest == DOMAIN p \ free
             ready == Sublist(p, free)
             left == Sublist(p, rest)
             new == o \o ready
  <1>1. Round(s).ordered = new /\ Round(s).pending = left
    BY DEF Round
  <1>2. /\ o \in Seq(NodeSet) /\ p \in Seq(NodeSet) /\ IsInjective(o) /\ IsInjective(p)
        /\ ToSet(o) \cap ToSet(p) = {} /\ ToSet(o) \cup ToSet(p) = NodeSet
        /\ SourcesFirst(o) /\ \A m \in ToSet(o) : Sources(m) \subseteq ToSet(o)
    BY DEF RoundOK
  <1>3. /\ free \in SUBSET DOMAIN p /\ rest \in SUBSET DOMAIN p
        /\ free \cup rest = DOMAIN p /\ free \cap rest = {}
        /\ \A i \in free : Sources(p[i]) \subseteq ToSet(o)
        /\ \A i \in rest : ~ Sources(p[i]) \subseteq ToSet(o)
    OBVIOUS
  <1> HIDE DEF p, o, free, rest
  <1>4. /\ ready \in Seq(NodeSet) /\ IsInjective(ready) /\ ToSet(ready) = {p[i] : i \in free}
    BY <1>2, <1>3, SublistIs
  <1>5. /\ left \in Seq(NodeSet) /\ IsInjective(left) /\ ToSet(left) = {p[i] : i \in rest}
        /\ Len(left) = Cardinality(rest) /\ Cardinality(rest) \in Nat
    BY <1>2, <1>3, SublistIs
  <1> HIDE DEF ready, left
  <1>6. /\ ToSet(ready) \cup ToSet(left) = ToSet(p) /\ ToSet(ready) \cap ToSet(left) = {}
    <2>1. \A i, j \in DOMAIN p : p[i] = p[j] => i = j
      BY <1>2 DEF IsInjective
    <2>2. ToSet(p) = {p[i] : i \in DOMAIN p}
      BY DEF ToSet
    <2> QED BY <1>3, <1>4, <1>5, <2>1, <2>2
  <1>7. ToSet(o) \cap ToSet(ready) = {}
    BY <1>2, <1>6
  <1>8. /\ new \in Seq(NodeSet) /\ ToSet(new) = ToSet(o) \cup ToSet(ready)
        /\ DOMAIN new = 1..(Len(o) + Len(ready)) /\ Len(o) \in Nat /\ DOMAIN o \subseteq 1..Len(o)
        /\ \A i \in DOMAIN new : \/ i \in DOMAIN o /\ new[i] = o[i]
                                 \/ i > Len(o) /\ new[i] \in ToSet(ready)
    <2>1. /\ new \in Seq(NodeSet) /\ ToSet(new) = ToSet(o) \cup ToSet(ready)
          /\ DOMAIN new = 1..(Len(o) + Len(ready)) /\ Len(o) \in Nat
      BY <1>2, <1>4, ConcatDistinct
    <2>2. \A i \in DOMAIN new : \/ i \in DOMAIN o /\ new[i] = o[i]
                                \/ /\ i > Len(o) /\ i - Len(o) \in DOMAIN ready
                                   /\ new[i] = ready[i - Len(o)]
      BY <1>2, <1>4, ConcatDistinct
    <2>3. DOMAIN o = 1..Len(o)
      BY <1>2, LenProperties
    <2> QED BY <2>1, <2>2, <2>3 DEF ToSet
  <1>9. IsInjective(new)
    BY <1>2, <1>4, <1>7, ConcatDistinct
  <1> HIDE DEF new
  <1>10. \A m \in ToSet(new) : Sources(m) \subseteq ToSet(o)
    BY <1>2, <1>3, <1>4, <1>8
  <1>11. SourcesFirst(new)
    <2> SUFFICES ASSUME NEW i \in DOMAIN new, NEW j \in DOMAIN new, new[i] \in Sources(new[j])
                 PROVE  i < j
      BY DEF SourcesFirst
    <2>1. new[i] \in ToSet(o)
      BY <1>10 DEF ToSet
    <2>2. i \in DOMAIN o /\ new[i] = o[i]
      BY <1>7, <1>8, <2>1
    <2>3. CASE j \in DOMAIN o /\ new[j] = o[j]
      BY <1>2, <2>2, <2>3 DEF SourcesFirst
    <2>4. CASE j > Len(o)
      <3>1. i \in 1..Len(o) /\ j \in Nat
        BY <1>8, <2>2
      <3> QED BY <1>8, <2>4, <3>1
    <2> QED BY <1>8, <2>3, <2>4
  <1>12. RoundOK(Round(s))
    BY <1>1, <1>2, <1>5, <1>6, <1>7, <1>8, <1>9, <1>10, <1>11 DEF RoundOK
  <1>13. /\ IsFiniteSet(DOMAIN p) /\ Cardinality(DOMAIN p) = Len(p) /\ Len(p) \in Nat
    <2>1. DOMAIN p = 1..Len(p) /\ Len(p) \in Nat
      BY <1>2, LenProperties
    <2>2. 1 \in Int /\ Len(p) \in Int /\ Len(p) - 1 + 1 = Len(p) /\ (1 > Len(p) => Len(p) = 0)
      BY <2>1
    <2> QED BY <2>1, <2>2, FS_Interval
  <1>14. Cardinality(rest) <= Len(p) /\ (Cardinality(rest) = Len(p) => rest = DOMAIN p)
    BY <1>3, <1>13, FS_Subset
  <1>15. ASSUME ~ HasCycle, p # <<>> PROVE rest # DOMAIN p
    <2> SUFFICES ASSUME rest = DOMAIN p PROVE FALSE
      OBVIOUS
    <2>1. ToSet(p) # {} /\ ToSet(p) \in SUBSET NodeSet
      <3>1. 1 \in DOMAIN p
        BY <1>2, <1>15
      <3> QED BY <1>2, <3>1 DEF ToSet
    <2>2. ASSUME NEW m \in ToSet(p) PROVE Sources(m) \cap ToSet(p) # {}
      <3>1. PICK i \in DOMAIN p : p[i] = m
        BY DEF ToSet
      <3>2. ~ Sources(m) \subseteq ToSet(o)
        BY <1>3, <3>1
      <3>3. Sources(m) \subseteq NodeSet
        BY EdgesAre
      <3> QED BY <1>2, <3>2, <3>3
    <2> DEFINE S == ToSet(p)
    <2> HIDE DEF S
    <2>3. S # {} /\ S \in SUBSET NodeSet /\ \A m \in S : Sources(m) \cap S # {}
      BY <2>1, <2>2 DEF S
    <2> QED BY <1>15, <2>3 DEF HasCycle
  <1>16. p = s.pending
    BY DEF p
  <1> QED BY <1>1, <1>5, <1>12, <1>13, <1>14, <1>15, <1>16

Start == [ordered |-> <<>>, pending |-> Nodes]
Turns(h, n) == h = [k \in 0..n |-> IF k = 0 THEN Start ELSE Round(h[k - 1])]

LEMMA TurnsExist ==
    ASSUME NEW n \in Nat PROVE \E h : Turns(h, n)
  <1> DEFINE T == {k \in 0..n : ~ \E h : Turns(h, k)}
  <1>1. 0 \notin T
    <2> DEFINE h == [k \in 0..0 |-> Start]
    <2>1. Turns(h, 0)  BY DEF Turns
    <2> QED BY <2>1
  <1>2. ASSUME NEW m \in 1..n, m - 1 \notin T PROVE m \notin T
    <2>1. m - 1 \in 0..n /\ m \in Nat /\ m # 0  OBVIOUS
    <2>2. PICK g : Turns(g, m - 1)
      BY <1>2, <2>1
    <2>3. \A k \in 0..(m - 1) : g[k] = IF k = 0 THEN Start ELSE Round(g[k - 1])
      BY <2>2 DEF Turns
    <2> DEFINE h == [k \in 0..m |-> IF k # m THEN g[k] ELSE Round(g[m - 1])]
    <2>4. ASSUME NEW k \in 0..m
          PROVE  h[k] = IF k = 0 THEN Start ELSE Round(h[k - 1])
      <3>1. k # 0 => k - 1 \in 0..m /\ k - 1 # m  BY <2>1
      <3>2. k # 0 => h[k - 1] = g[k - 1]  BY <3>1
      <3>3. CASE k = m
        <4>1. h[k] = Round(g[m - 1])  BY <3>3
        <4> QED BY <2>1, <3>2, <3>3, <4>1
      <3>4. CASE k # m
        <4>1. k \in 0..(m - 1) /\ h[k] = g[k]  BY <2>1, <3>4
        <4> HIDE DEF h
        <4> QED BY <2>3, <3>2, <4>1
      <3> QED BY <3>3, <3>4
    <2>5. DOMAIN h = 0..m /\ h = [k \in DOMAIN h |-> h[k]]
      OBVIOUS
    <2> HIDE DEF h
    <2>6. Turns(h, m)
      BY <2>4, <2>5 DEF Turns
    <2> QED BY <2>6
  <1>3. T = {}
    <2>1. T \in SUBSET (0..n)  OBVIOUS
    <2>2. \A k \in 1..n : k \in T => k - 1 \in T  BY <1>2
    <2> QED BY <1>1, <2>1, <2>2, NoLeast
  <1>4. n \in 0..n  OBVIOUS
  <1> QED BY <1>3, <1>4

LEMMA RoundsEnd ==
    ASSUME EdgesOK
    PROVE  RoundOK(Rounds) /\ (~ HasCycle => Rounds.pending = <<>>)
  <1> DEFINE n == Len(Nodes)
             h == CHOOSE f : Turns(f, n)
             Good(k) == /\ RoundOK(h[k])
                        /\ ~ HasCycle => Len(h[k].pending) <= n - k
             T == {k \in 0..n : ~ Good(k)}
  <1>1. Rounds = h[n]
    BY DEF Rounds, Turns, Start
  <1>2. n \in Nat /\ n \in 0..n
    BY NodesAre
  <1>3. Turns(h, n)
    BY <1>2, TurnsExist
  <1> HIDE DEF h
  <1>4. \A k \in 0..n : h[k] = IF k = 0 THEN Start ELSE Round(h[k - 1])
    BY <1>3 DEF Turns
  <1> HIDE DEF n
  <1>5. Good(0)
    <2>1. h[0] = Start /\ n - 0 = n
      BY <1>2, <1>4
    <2>2. RoundOK(Start) /\ Len(Start.pending) = n
      <3>1. Start.ordered = <<>> /\ Start.pending = Nodes
        BY DEF Start
      <3>2. DOMAIN Start.ordered = {} /\ ToSet(Start.ordered) = {}
        BY <3>1 DEF ToSet
      <3> QED BY <3>1, <3>2, NodesAre DEF RoundOK, IsInjective, SourcesFirst, n
    <2> QED BY <1>2, <2>1, <2>2
  <1>6. ASSUME NEW k \in 1..n, Good(k - 1) PROVE Good(k)
    <2> DEFINE s == h[k - 1]
    <2>1. k \in Nat /\ k # 0 /\ k \in 0..n
      BY <1>2
    <2>2. h[k] = Round(s)
      BY <1>4, <2>1
    <2>3. RoundOK(s) /\ (~ HasCycle => Len(s.pending) <= n - (k - 1))
      BY <1>6
    <2> HIDE DEF s
    <2>4. /\ RoundOK(Round(s)) /\ Len(Round(s).pending) \in Nat /\ Len(s.pending) \in Nat
          /\ ~ HasCycle /\ s.pending # <<>> => Len(Round(s).pending) < Len(s.pending)
          /\ Len(Round(s).pending) <= Len(s.pending)
      BY <2>3, RoundKeeps
    <2>5. s.pending = <<>> => Len(s.pending) = 0
      OBVIOUS
    <2>6. ~ HasCycle => Len(Round(s).pending) <= n - k
      <3> DEFINE a == Len(Round(s).pending)
                 b == Len(s.pending)
      <3>1. a \in Nat /\ b \in Nat /\ a <= b
            /\ (~ HasCycle => b <= n - (k - 1) /\ (b = 0 \/ a < b))
        BY <2>3, <2>4, <2>5
      <3> HIDE DEF a, b
      <3>2. ~ HasCycle => a <= n - k
        BY <1>2, <3>1
      <3> QED BY <3>2 DEF a
    <2> QED BY <2>2, <2>4, <2>6
  <1>7. T = {}
    <2>1. T \in SUBSET (0..n) /\ 0 \notin T
      BY <1>5
    <2>2. \A k \in 1..n : k \in T => k - 1 \in T
      <3> TAKE k \in 1..n
      <3>1. k - 1 \in 0..n
        BY <1>2
      <3> QED BY <1>6, <3>1
    <2> HIDE DEF T
    <2> QED BY <1>2, <2>1, <2>2, NoLeast
  <1>8. Good(n)
    BY <1>2, <1>7
  <1>9. ASSUME ~ HasCycle PROVE Rounds.pending = <<>>
    <2>1. Rounds.pending \in Seq(NodeSet) /\ Len(Rounds.pending) <= n - n
      BY <1>1, <1>8, <1>9 DEF RoundOK
    <2>2. Len(Rounds.pending) = 0
      BY <1>2, <2>1
    <2> QED BY <2>1, <2>2
  <1> QED BY <1>1, <1>8, <1>9

(* For every graph, a sorted result and a finished order of priorities     *)
(* list every node once and after its sources.                             *)
THEOREM OrdersAreTopological == Spec => []OrderIsTopological
  <1>1. Sorting => OrderIsTopological
    <2> SUFFICES ASSUME Sorting PROVE OrderIsTopological
      OBVIOUS
    <2>1. ASSUME NEW s \in Seq(NodeSet), IsInjective(s), SourcesFirst(s),
                 Len(s) = Len(Nodes) \/ ToSet(s) = NodeSet
          PROVE  Topological(s)
      BY <2>1, NodesAre, DistinctCovers DEF Topological, SourcesFirst
    <2>2. verdict = "sorted" => Topological(result)
      BY <2>1 DEF Sorting
    <2>3. ASSUME Rounds.pending = <<>> PROVE Topological(Rounds.ordered)
      <3>1. RoundOK(Rounds)
        BY RoundsEnd DEF Sorting
      <3>2. ToSet(Rounds.pending) = {}
        BY <2>3 DEF ToSet
      <3>3. ToSet(Rounds.ordered) = NodeSet
        BY <3>1, <3>2 DEF RoundOK
      <3> QED BY <2>1, <3>1, <3>3 DEF RoundOK
    <2> QED BY <2>2, <2>3 DEF OrderIsTopological
  <1> QED BY <1>1, SpecSorting, PTL

(* For every graph, topological_sort rejects exactly the cycles, and what  *)
(* it accepts topological_nodes can order.                                 *)
THEOREM CyclesAreRejected == Spec => []RejectsExactlyCycles
  <1>1. Sorting => RejectsExactlyCycles
    <2> SUFFICES ASSUME Sorting PROVE RejectsExactlyCycles
      OBVIOUS
    <2>1. ASSUME verdict = "sorted" PROVE ~ HasCycle
      <3>1. ToSet(result) = NodeSet
        BY <2>1, NodesAre, DistinctCovers DEF Sorting
      <3> QED BY <3>1, SortedHasNoCycle DEF Sorting
    <2>2. ~ HasCycle => Rounds.pending = <<>>
      BY RoundsEnd DEF Sorting
    <2>3. verdict = "cycle" => HasCycle
      BY UnsortedIsCycle DEF Sorting
    <2> QED BY <2>1, <2>2, <2>3 DEF RejectsExactlyCycles
  <1> QED BY <1>1, SpecSorting, PTL
=============================================================================
