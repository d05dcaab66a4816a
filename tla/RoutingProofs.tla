---------------------------- MODULE RoutingProofs ----------------------------
(***************************************************************************)
(* Routing, for every graph: its types, the ledger of the lineage tracker, *)
(* and the packets that a join pairs.                                      *)
(***************************************************************************)
EXTENDS Routing, ListProofs

-----------------------------------------------------------------------------
(* The types, with the tasks as a set.                                     *)

AllBuffers ==
    UNION {[P -> Seq(Packets)] : P \in SUBSET UNION {Inputs[n] : n \in Nodes}}
AllTasks ==
    UNION {{t \in [to : {n}, line : Lineages, nth : Nat, inputs : AllBuffers] :
                IsBuffer(t.inputs, n)} : n \in Nodes}

LEMMA TaskIs ==
    /\ \A n \in Nodes : \A t : IsTask(t, n) => t \in AllTasks /\ t.to = n
    /\ \A t \in AllTasks : t.to \in Nodes /\ IsTask(t, t.to)
  <1>1. ASSUME NEW n \in Nodes, NEW t, IsTask(t, n)
        PROVE  t \in AllTasks /\ t.to = n
    <2>1. t.inputs \in AllBuffers
      BY <1>1 DEF IsTask, IsBuffer, AllBuffers
    <2>2. t \in [to : {n}, line : Lineages, nth : Nat, inputs : AllBuffers]
      BY <1>1, <2>1 DEF IsTask
    <2> QED BY <1>1, <2>2 DEF AllTasks, IsTask
  <1>2. ASSUME NEW t \in AllTasks PROVE t.to \in Nodes /\ IsTask(t, t.to)
    BY DEF AllTasks, IsTask
  <1> QED BY <1>1, <1>2

LEMMA LineageIs ==
    /\ <<>> \notin Lineages
    /\ \A l \in Lineages : l[1] \in Nodes /\ l[2] \in 1..Items[l[1]] /\ l = <<l[1], l[2]>>
    /\ \A n \in Nodes : \A i \in 1..Items[n] : <<n, i>> \in Lineages
  BY DEF Lineages

LEMMA LineOf ==
    /\ NoTask \notin AllTasks /\ NoTask.line \notin Lineages
    /\ \A t \in AllTasks : t.line \in Lineages /\ t # NoTask
  <1>1. NoTask.line = <<>>  BY DEF NoTask
  <1>2. ASSUME NEW t \in AllTasks PROVE t.line \in Lineages
    BY TaskIs DEF IsTask
  <1> QED BY <1>1, <1>2, LineageIs

TypedQueues ==
    /\ left \in [Nodes -> Nat] /\ \A n \in Nodes : left[n] <= Items[n]
    /\ queue \in [Nodes -> Seq(AllTasks)]
    /\ \A n \in Nodes : /\ Len(queue[n]) <= QueueMax[n]
                        /\ \A i \in DOMAIN queue[n] : queue[n][i].to = n

TypedWorkers ==
    /\ turn \in Nodes \cup {NoNode}
    /\ pc \in [Nodes -> {"collect", "execute", "route", "put"}]
    /\ task \in [Nodes -> AllTasks \cup {NoTask}]
    /\ DOMAIN todo = Nodes /\ todo = [n \in Nodes |-> todo[n]]
    /\ edge \in [Nodes -> Nat \ {0}]
    /\ ready \in [Nodes -> Seq(AllTasks)]
    /\ closing \in [Nodes -> SUBSET Lineages]
    /\ \A n \in Nodes : /\ task[n] # NoTask => task[n].to = n
                        /\ todo[n] \in Seq(Outputs[n])
                        /\ pc[n] = "put" <=> ready[n] # <<>>
                        /\ pc[n] = "collect" <=> task[n] = NoTask

TypedJoins ==
    /\ DOMAIN groups = Nodes /\ groups = [n \in Nodes |-> groups[n]]
    /\ DOMAIN broadcasts = Nodes /\ broadcasts = [n \in Nodes |-> broadcasts[n]]
    /\ order \in [Nodes -> Seq(Lineages)]
    /\ JoinsOK
    /\ serial \in [UNION {{n} \X Lineages \X Outputs[n] : n \in Nodes} -> Nat]
    /\ built \in [Nodes \X Lineages -> Nat]

TypedLineages ==
    /\ tracker = [l \in DOMAIN tracker |-> tracker[l]]
    /\ done \subseteq Lineages /\ DOMAIN tracker \subseteq Lineages \ done
    /\ failure \in {"none", "join", "lineage"}

(* All but what the tracker counts.                                        *)
Typed == TypedQueues /\ TypedWorkers /\ TypedJoins /\ TypedLineages

Counted == tracker \in [DOMAIN tracker -> [open : {0, 1}, tasks : Nat, joins : Nat]]

LEMMA TypedIs == Typed /\ Counted => TypeOK
  <1> SUFFICES ASSUME Typed, Counted PROVE TypeOK
    OBVIOUS
  <1>1. \A n \in Nodes : \A t \in ToSet(queue[n]) : IsTask(t, n)
    <2> SUFFICES ASSUME NEW n \in Nodes, NEW i \in DOMAIN queue[n]
                 PROVE  IsTask(queue[n][i], n)
      BY DEF ToSet
    <2>1. queue[n][i] \in AllTasks /\ queue[n][i].to = n
      BY DEF Typed, TypedQueues
    <2> QED BY <2>1, TaskIs
  <1>2. \A n \in Nodes : \A t \in ToSet(ready[n]) : IsTask(t, t.to) /\ t.to \in Nodes
    <2> SUFFICES ASSUME NEW n \in Nodes, NEW i \in DOMAIN ready[n]
                 PROVE  IsTask(ready[n][i], ready[n][i].to) /\ ready[n][i].to \in Nodes
      BY DEF ToSet
    <2>1. ready[n][i] \in AllTasks
      BY DEF Typed, TypedWorkers
    <2> QED BY <2>1, TaskIs
  <1>3. \A n \in Nodes : task[n] # NoTask => IsTask(task[n], n)
    <2> TAKE n \in Nodes
    <2>1. task[n] # NoTask => task[n] \in AllTasks /\ task[n].to = n
      BY DEF Typed, TypedWorkers
    <2> QED BY <2>1, TaskIs
  <1>4. WorkersOK
    BY <1>2, <1>3 DEF WorkersOK, Typed, TypedWorkers
  <1>5. JoinsOK
    BY DEF Typed, TypedJoins
  <1> QED
    BY <1>1, <1>4, <1>5
    DEF Typed, TypedQueues, TypedJoins, TypedLineages, Counted, TypeOK

-----------------------------------------------------------------------------
(* Joins.                                                                  *)

LEMMA SmallestIs ==
    ASSUME NEW S, S \subseteq Nat, S # {}
    PROVE  Smallest(S) \in S /\ \A y \in S : Smallest(S) <= y
  BY LeastNatural DEF Smallest

(* Pops that do not fail take no more of a port than it has.               *)
LEMMA PopsIs ==
    ASSUME NEW m \in Nodes, NEW items, IsBuffer(items, m), NEW b,
           ~ PopFails(m, items, b)
    PROVE  /\ Pops(m, items, b) \in Nat
           /\ Pops(m, items, b) > 0 =>
                /\ RequiredItems(m) \subseteq DOMAIN items
                /\ RequiredBroadcasts(m) \subseteq DOMAIN b
           /\ \A p \in DOMAIN items :
                /\ items[p] \in Seq(Packets) /\ Len(items[p]) \in Nat
                /\ Pops(m, items, b) <= Len(items[p])
           /\ \A p \in RequiredItems(m) : Pops(m, items, b) <= Supply(m, items, p)
  <1> DEFINE k == Pops(m, items, b)
             T == {Supply(m, items, p) : p \in RequiredItems(m)}
  <1>1. \A p \in DOMAIN items : items[p] \in Seq(Packets) /\ Len(items[p]) \in Nat
    BY DEF IsBuffer
  <1>2. \A p : Supply(m, items, p) \in Nat
    BY <1>1 DEF Supply
  <1>3. \A p \in DOMAIN items : Supply(m, items, p) <= Len(items[p])
    <2> TAKE p \in DOMAIN items
    <2>1. items[p] \in Seq(Packets) /\ Len(items[p]) \in Nat
      BY <1>1
    <2>2. items[p] # <<>> => 1 <= Len(items[p])
      BY <2>1
    <2> QED BY <2>1, <2>2 DEF Supply
  <1>4. \A p : p \notin DOMAIN items => Supply(m, items, p) = 0
    BY DEF Supply
  <1>5. CASE ~ RequiredBroadcasts(m) \subseteq DOMAIN b
    <2>1. k = 0
      BY <1>5 DEF Pops
    <2> QED BY <1>1, <1>2, <2>1
  <1>6. CASE RequiredBroadcasts(m) \subseteq DOMAIN b
    <2>1. RequiredItems(m) # {}
      BY <1>6 DEF PopFails
    <2>2. T \subseteq Nat /\ T # {}
      BY <1>2, <2>1
    <2>3. k = Smallest(T)
      BY <1>6 DEF Pops
    <2> HIDE DEF T
    <2>4. k \in T /\ \A y \in T : k <= y
      BY <2>2, <2>3, SmallestIs
    <2>5. k \in Nat
      BY <2>2, <2>4
    <2>6. \A p \in RequiredItems(m) : k <= Supply(m, items, p)
      BY <2>4 DEF T
    <2>7. \A p \in DOMAIN items \ RequiredItems(m) : ~(Supply(m, items, p) < k)
      BY <2>1 DEF PopFails
    <2> HIDE DEF k
    <2>8. \A p \in DOMAIN items : k <= Supply(m, items, p)
      BY <1>2, <2>5, <2>6, <2>7
    <2>9. \A p \in DOMAIN items : k <= Len(items[p])
      BY <1>1, <1>2, <1>3, <2>5, <2>8
    <2>10. k > 0 => RequiredItems(m) \subseteq DOMAIN items
      BY <1>4, <2>5, <2>6
    <2> QED BY <1>1, <1>6, <2>5, <2>6, <2>9, <2>10 DEF k
  <1> QED BY <1>5, <1>6

IsBroadcast(b, m) ==
    DOMAIN b \subseteq Inputs[m] /\ b \in [DOMAIN b -> Packets]

LEMMA PoppedIs ==
    ASSUME NEW m \in Nodes, NEW l \in Lineages, NEW items, IsBuffer(items, m),
           NEW b, IsBroadcast(b, m), ~ PopFails(m, items, b),
           built \in [Nodes \X Lineages -> Nat]
    PROVE  /\ PoppedOf(m, l, items, b) \in Seq(AllTasks)
           /\ DOMAIN PoppedOf(m, l, items, b) = 1..Pops(m, items, b)
           /\ \A k \in 1..Pops(m, items, b) :
                 PoppedOf(m, l, items, b)[k] = Popped(m, l, items, b, k)
           /\ \A k \in 1..Pops(m, items, b) :
                 /\ Popped(m, l, items, b, k) \in AllTasks
                 /\ Popped(m, l, items, b, k).to = m
                 /\ Popped(m, l, items, b, k).line = l
           /\ IsBuffer(Rest(m, items, b), m)
  <1> DEFINE c == Pops(m, items, b)
             I == DOMAIN items \cup DOMAIN b
  <1>1. /\ c \in Nat
        /\ \A p \in DOMAIN items : /\ items[p] \in Seq(Packets)
                                   /\ Len(items[p]) \in Nat /\ c <= Len(items[p])
    BY PopsIs
  <1>2. I \subseteq Inputs[m] /\ \A p \in DOMAIN b : b[p] \in Packets
    BY DEF IsBuffer, IsBroadcast
  <1> HIDE DEF c
  <1>3. ASSUME NEW k \in 1..c
        PROVE  /\ Popped(m, l, items, b, k) \in AllTasks
               /\ Popped(m, l, items, b, k).to = m
               /\ Popped(m, l, items, b, k).line = l
    <2> DEFINE f == [p \in I |-> IF p \in DOMAIN b THEN <<b[p]>>
                                 ELSE IF <<m, p>> \in ListPorts THEN items[p]
                                 ELSE <<items[p][k]>>]
               x == built[<<m, l>>] + k
    <2>1. Popped(m, l, items, b, k) = [to |-> m, line |-> l, nth |-> x, inputs |-> f]
      BY DEF Popped
    <2>2. \A p \in I : f[p] \in Seq(Packets)
      <3> TAKE p \in I
      <3>1. CASE p \in DOMAIN b
        BY <1>2, <3>1
      <3>2. CASE p \notin DOMAIN b
        <4>1. items[p] \in Seq(Packets) /\ k \in 1..Len(items[p])
          BY <1>1, <3>2
        <4>2. items[p][k] \in Packets
          BY <4>1
        <4> QED BY <3>2, <4>1, <4>2
      <3> QED BY <3>1, <3>2
    <2>3. x \in Nat
      BY <1>1
    <2>4. DOMAIN f = I
      OBVIOUS
    <2> HIDE DEF f, x, I
    <2>5. IsBuffer(f, m)
      BY <1>2, <2>2, <2>4, f = [p \in I |-> f[p]] DEF IsBuffer, f
    <2>6. IsTask(Popped(m, l, items, b, k), m)
      BY <2>1, <2>3, <2>5 DEF IsTask
    <2> QED BY <2>1, <2>6, TaskIs
  <1>4. /\ PoppedOf(m, l, items, b) \in Seq(AllTasks)
        /\ DOMAIN PoppedOf(m, l, items, b) = 1..c
        /\ \A k \in 1..c : PoppedOf(m, l, items, b)[k] = Popped(m, l, items, b, k)
    <2>1. PoppedOf(m, l, items, b) = [k \in 1..c |-> Popped(m, l, items, b, k)]
      BY DEF PoppedOf, c
    <2> QED BY <1>1, <1>3, <2>1
  <1>5. IsBuffer(Rest(m, items, b), m)
    <2> DEFINE g == Rest(m, items, b)
    <2>1. g = [p \in DOMAIN items |->
                  IF c = 0 THEN items[p]
                  ELSE IF <<m, p>> \in ListPorts THEN <<>>
                  ELSE SubSeq(items[p], c + 1, Len(items[p]))]
      BY DEF Rest, c
    <2>2. ASSUME NEW p \in DOMAIN items PROVE g[p] \in Seq(Packets)
      <3>1. SubSeq(items[p], c + 1, Len(items[p])) \in Seq(Packets)
        BY <1>1
      <3>2. <<>> \in Seq(Packets)  OBVIOUS
      <3> HIDE DEF g
      <3> QED BY <1>1, <2>1, <3>1, <3>2
    <2> HIDE DEF g
    <2>3. DOMAIN g = DOMAIN items /\ g \in [DOMAIN items -> Seq(Packets)]
      BY <2>1, <2>2
    <2> QED BY <2>3 DEF IsBuffer, g
  <1> QED BY <1>3, <1>4, <1>5 DEF c

-----------------------------------------------------------------------------
(* What a delivery does to the joins of its target.                        *)

IsDelivery(d) ==
    d.to \in Nodes /\ d.port \in Inputs[d.to] /\ d.packet \in Packets

AddedOK(d, r) ==
    LET m == d.to
        l == d.packet.line
    IN  /\ r.opened \subseteq {l} /\ r.opened \cap DOMAIN groups[m] = {}
        /\ r.closed \subseteq DOMAIN groups[m] \cup r.opened
        /\ DOMAIN r.groups = (DOMAIN groups[m] \cup r.opened) \ r.closed
        /\ \A k \in DOMAIN r.groups : IsBuffer(r.groups[k], m)
        /\ IsBroadcast(r.broadcasts, m)
        /\ \A k \in DOMAIN r.popped : r.popped[k] \in Nat
        /\ r.tasks \in Seq(AllTasks)
        /\ \A i \in DOMAIN r.tasks :
              /\ r.tasks[i].to = m
              /\ r.tasks[i].line \in DOMAIN groups[m] \cup {l}

LEMMA OneTask ==
    ASSUME NEW m \in Nodes, NEW l \in Lineages, NEW f, IsBuffer(f, m)
    PROVE  /\ <<Task(m, l, f)>> \in Seq(AllTasks)
           /\ \A i \in DOMAIN <<Task(m, l, f)>> :
                 <<Task(m, l, f)>>[i].to = m /\ <<Task(m, l, f)>>[i].line = l
  <1> DEFINE t == Task(m, l, f)
  <1>1. IsTask(t, m) /\ t.line = l /\ t.to = m
    BY DEF Task, IsTask
  <1>2. t \in AllTasks
    BY <1>1, TaskIs
  <1> HIDE DEF t
  <1>3. <<t>> \in Seq(AllTasks) /\ DOMAIN <<t>> = 1..1 /\ <<t>>[1] = t
    BY <1>2
  <1> QED BY <1>1, <1>3 DEF t

LEMMA SingleOK ==
    ASSUME Typed, NEW d, IsDelivery(d)
    PROVE  AddedOK(d, Single(d))
  <1> DEFINE m == d.to
             l == d.packet.line
             f == [p \in {d.port} |-> <<d.packet>>]
             ts == <<Task(m, l, f)>>
  <1>1. m \in Nodes /\ l \in Lineages /\ d.packet \in Packets /\ d.port \in Inputs[m]
    BY DEF IsDelivery, Packets
  <1>2. IsBuffer(f, m)
    <2>1. <<d.packet>> \in Seq(Packets)  BY <1>1
    <2> QED BY <1>1, <2>1 DEF IsBuffer
  <1>3. Single(d) = [fails |-> FALSE, opened |-> {}, closed |-> {}, popped |-> <<>>,
                     groups |-> groups[m], broadcasts |-> broadcasts[m], tasks |-> ts]
    BY DEF Single
  <1> HIDE DEF f
  <1>4. ts \in Seq(AllTasks) /\ \A i \in DOMAIN ts : ts[i].to = m /\ ts[i].line = l
    BY <1>1, <1>2, OneTask
  <1> HIDE DEF ts
  <1>5. /\ \A k \in DOMAIN groups[m] : IsBuffer(groups[m][k], m)
        /\ IsBroadcast(broadcasts[m], m)
    BY <1>1 DEF Typed, TypedJoins, JoinsOK, IsBroadcast
  <1> QED BY <1>3, <1>4, <1>5 DEF AddedOK

LEMMA WithBroadcast ==
    ASSUME Typed, NEW d, IsDelivery(d)
    PROVE  /\ IsBroadcast(With(broadcasts[d.to], d.port, d.packet), d.to)
           /\ d.port \in DOMAIN With(broadcasts[d.to], d.port, d.packet)
  BY DEF Typed, TypedJoins, JoinsOK, IsBroadcast, IsDelivery, With

LEMMA BroadcastOnlyOK ==
    ASSUME Typed, NEW d, IsDelivery(d), NEW b, IsBroadcast(b, d.to)
    PROVE  AddedOK(d, BroadcastOnly(d, b))
  <1> DEFINE m == d.to
             l == d.packet.line
             f == [p \in DOMAIN b |-> <<b[p]>>]
             ts == <<Task(m, l, f)>>
  <1>1. m \in Nodes /\ l \in Lineages /\ d.packet \in Packets /\ d.port \in Inputs[m]
    BY DEF IsDelivery, Packets
  <1>2. IsBuffer(f, m)
    <2>1. \A p \in DOMAIN b : <<b[p]>> \in Seq(Packets)  BY DEF IsBroadcast
    <2> QED BY <1>1, <2>1 DEF IsBuffer, IsBroadcast
  <1>3. BroadcastOnly(d, b) =
           [fails |-> FALSE, opened |-> {}, closed |-> {}, popped |-> <<>>,
            groups |-> groups[m], broadcasts |-> b, tasks |-> ts]
    BY DEF BroadcastOnly
  <1> HIDE DEF f
  <1>4. ts \in Seq(AllTasks) /\ \A i \in DOMAIN ts : ts[i].to = m /\ ts[i].line = l
    BY <1>1, <1>2, OneTask
  <1> HIDE DEF ts
  <1>5. \A k \in DOMAIN groups[m] : IsBuffer(groups[m][k], m)
    BY <1>1 DEF Typed, TypedJoins, JoinsOK
  <1> QED BY <1>3, <1>4, <1>5 DEF AddedOK

(* The lists of tasks that the groups of m give, in the order of the       *)
(* groups, flattened.                                                      *)
PoppedLists(m, b) ==
    [i \in DOMAIN order[m] |-> PoppedOf(m, order[m][i], groups[m][order[m][i]], b)]

LEMMA PoppedListsIs ==
    ASSUME Typed, NEW m \in Nodes, NEW b, IsBroadcast(b, m),
           ~ PopGroups(m, b).fails
    PROVE  /\ PopGroups(m, b).tasks = FlattenSeq(PoppedLists(m, b))
           /\ \A l \in DOMAIN groups[m] : ~ PopFails(m, groups[m][l], b)
           /\ FlattenSeq(PoppedLists(m, b)) \in Seq(AllTasks)
           /\ \A i \in DOMAIN FlattenSeq(PoppedLists(m, b)) :
                \E l \in DOMAIN groups[m] : \E k \in 1..Pops(m, groups[m][l], b) :
                    FlattenSeq(PoppedLists(m, b))[i] = Popped(m, l, groups[m][l], b, k)
  <1> DEFINE ss == PoppedLists(m, b)
             G(i) == groups[m][order[m][i]]
  <1>1. \A l \in DOMAIN groups[m] : ~ PopFails(m, groups[m][l], b)
    BY DEF PopGroups
  <1>2. PopGroups(m, b).tasks = FlattenSeq(ss)
    BY DEF PopGroups, PoppedLists
  <1>3. /\ \A l \in DOMAIN groups[m] : IsBuffer(groups[m][l], m)
        /\ DOMAIN groups[m] \subseteq Lineages
        /\ \A i \in DOMAIN order[m] : order[m][i] \in DOMAIN groups[m]
        /\ built \in [Nodes \X Lineages -> Nat]
    BY DEF Typed, TypedJoins, JoinsOK, ToSet
  <1>4. Len(order[m]) \in Nat /\ DOMAIN order[m] = 1..Len(order[m])
    <2>1. order[m] \in Seq(Lineages)  BY DEF Typed, TypedJoins
    <2> QED BY <2>1
  <1>5. ASSUME NEW i \in DOMAIN order[m]
        PROVE  /\ ss[i] \in Seq(AllTasks)
               /\ DOMAIN ss[i] = 1..Pops(m, G(i), b)
               /\ \A k \in 1..Pops(m, G(i), b) :
                    ss[i][k] = Popped(m, order[m][i], G(i), b, k)
    <2>1. ss[i] = PoppedOf(m, order[m][i], G(i), b)
      BY DEF PoppedLists
    <2>2. /\ order[m][i] \in Lineages /\ order[m][i] \in DOMAIN groups[m]
          /\ IsBuffer(G(i), m) /\ ~ PopFails(m, G(i), b)
      BY <1>1, <1>3
    <2> HIDE DEF ss, G
    <2> QED BY <1>3, <2>1, <2>2, PoppedIs
  <1>6. DOMAIN ss = DOMAIN order[m] /\ ss = [i \in DOMAIN order[m] |-> ss[i]]
    BY DEF PoppedLists
  <1> HIDE DEF ss
  <1>7. ss \in Seq(Seq(AllTasks))
    <2>1. ss \in [1..Len(order[m]) -> Seq(AllTasks)]  BY <1>4, <1>5, <1>6
    <2> QED BY <1>4, <2>1, IsASeq
  <1>8. /\ FlattenSeq(ss) \in Seq(AllTasks)
        /\ \A k \in DOMAIN FlattenSeq(ss) : \E i \in DOMAIN ss :
             \E j \in DOMAIN ss[i] : FlattenSeq(ss)[k] = ss[i][j]
    BY <1>7, FlattenIs
  <1>9. ASSUME NEW i \in DOMAIN FlattenSeq(ss)
        PROVE  \E l \in DOMAIN groups[m] : \E k \in 1..Pops(m, groups[m][l], b) :
                    FlattenSeq(ss)[i] = Popped(m, l, groups[m][l], b, k)
    <2>1. PICK j \in DOMAIN ss : \E k \in DOMAIN ss[j] : FlattenSeq(ss)[i] = ss[j][k]
      BY <1>8
    <2>2. PICK k \in DOMAIN ss[j] : FlattenSeq(ss)[i] = ss[j][k]
      BY <2>1
    <2>3. j \in DOMAIN order[m] /\ order[m][j] \in DOMAIN groups[m]
      BY <1>3, <1>6
    <2>4. /\ k \in 1..Pops(m, groups[m][order[m][j]], b)
          /\ FlattenSeq(ss)[i] = Popped(m, order[m][j], groups[m][order[m][j]], b, k)
      BY <1>5, <2>2, <2>3
    <2> QED BY <2>3, <2>4
  <1> QED BY <1>1, <1>2, <1>8, <1>9 DEF ss

LEMMA PopGroupsOK ==
    ASSUME Typed, NEW d, IsDelivery(d), NEW b, IsBroadcast(b, d.to),
           ~ PopGroups(d.to, b).fails
    PROVE  AddedOK(d, PopGroups(d.to, b))
  <1> DEFINE m == d.to
             gs == groups[m]
             r == PopGroups(m, b)
             ts == FlattenSeq(PoppedLists(m, b))
  <1>1. m \in Nodes
    BY DEF IsDelivery
  <1>2. /\ r.tasks = ts /\ ts \in Seq(AllTasks)
        /\ \A l \in DOMAIN gs : ~ PopFails(m, gs[l], b)
        /\ \A i \in DOMAIN ts : \E l \in DOMAIN gs :
             \E k \in 1..Pops(m, gs[l], b) : ts[i] = Popped(m, l, gs[l], b, k)
    BY <1>1, PoppedListsIs
  <1> HIDE DEF ts
  <1>3. /\ r.opened = {} /\ r.closed \subseteq DOMAIN gs /\ r.broadcasts = b
        /\ DOMAIN r.groups = DOMAIN gs \ r.closed
        /\ \A l \in DOMAIN r.groups : r.groups[l] = Rest(m, gs[l], b)
        /\ DOMAIN r.popped = DOMAIN gs
        /\ \A l \in DOMAIN gs : r.popped[l] = Pops(m, gs[l], b)
    BY DEF PopGroups
  <1>4. /\ \A l \in DOMAIN gs : IsBuffer(gs[l], m)
        /\ DOMAIN gs \subseteq Lineages
        /\ built \in [Nodes \X Lineages -> Nat]
    BY <1>1 DEF Typed, TypedJoins, JoinsOK
  <1> HIDE DEF r, gs
  <1>5. \A l \in DOMAIN gs : /\ Pops(m, gs[l], b) \in Nat
                             /\ IsBuffer(Rest(m, gs[l], b), m)
    BY <1>1, <1>2, <1>4, PopsIs, PoppedIs
  <1>6. ASSUME NEW i \in DOMAIN ts PROVE ts[i].to = m /\ ts[i].line \in DOMAIN gs
    <2>1. PICK l \in DOMAIN gs :
             \E k \in 1..Pops(m, gs[l], b) : ts[i] = Popped(m, l, gs[l], b, k)
      BY <1>2
    <2>2. PICK k \in 1..Pops(m, gs[l], b) : ts[i] = Popped(m, l, gs[l], b, k)
      BY <2>1
    <2> QED BY <2>2 DEF Popped
  <1>7. \A k \in DOMAIN r.groups : IsBuffer(r.groups[k], m)
    BY <1>3, <1>5
  <1>8. \A k \in DOMAIN r.popped : r.popped[k] \in Nat
    BY <1>3, <1>5
  <1> QED BY <1>2, <1>3, <1>6, <1>7, <1>8 DEF AddedOK, gs, r

LEMMA GrownIs ==
    ASSUME Typed, NEW d, IsDelivery(d)
    PROVE  IsBuffer(Grown(d), d.to) /\ d.port \in DOMAIN Grown(d)
  <1> DEFINE m == d.to
             l == d.packet.line
             old == IF l \in DOMAIN groups[m] THEN groups[m][l] ELSE <<>>
             new == IF d.port \in DOMAIN old
                    THEN Append(old[d.port], d.packet) ELSE <<d.packet>>
  <1>1. m \in Nodes /\ d.packet \in Packets /\ d.port \in Inputs[m]
    BY DEF IsDelivery
  <1>2. IsBuffer(old, m)
    <2>1. \A k \in DOMAIN groups[m] : IsBuffer(groups[m][k], m)
      BY <1>1 DEF Typed, TypedJoins, JoinsOK
    <2>2. IsBuffer(<<>>, m)
      BY DEF IsBuffer
    <2> QED BY <2>1, <2>2
  <1>3. Grown(d) = With(old, d.port, new)
    BY DEF Grown
  <1> HIDE DEF old
  <1>4. new \in Seq(Packets)
    <2>1. d.port \in DOMAIN old => old[d.port] \in Seq(Packets)
      BY <1>2 DEF IsBuffer
    <2> QED BY <1>1, <2>1
  <1> HIDE DEF new
  <1> QED BY <1>1, <1>2, <1>3, <1>4 DEF With, IsBuffer

LEMMA AddItemOK ==
    ASSUME Typed, NEW d, IsDelivery(d), ~ AddItem(d).fails
    PROVE  AddedOK(d, AddItem(d))
  <1> DEFINE m == d.to
             l == d.packet.line
             items == Grown(d)
             b == broadcasts[m]
             full == RequiredItems(m) \subseteq DOMAIN items
             rest == IF full THEN Rest(m, items, b) ELSE items
             ts == IF full THEN PoppedOf(m, l, items, b) ELSE <<>>
             c == IF full THEN Pops(m, items, b) ELSE 0
             r == AddItem(d)
  <1>1. m \in Nodes /\ l \in Lineages /\ IsBuffer(items, m) /\ IsBroadcast(b, m)
        /\ built \in [Nodes \X Lineages -> Nat]
    BY GrownIs DEF IsDelivery, Packets, Typed, TypedJoins, JoinsOK, IsBroadcast
  <1>2. full => ~ PopFails(m, items, b)
    BY DEF AddItem
  <1>3. /\ r.opened = {l} \ DOMAIN groups[m]
        /\ r.closed = IF AllEmpty(rest) THEN {l} ELSE {}
        /\ r.popped = [k \in {l} |-> c] /\ r.broadcasts = b /\ r.tasks = ts
        /\ r.groups = IF AllEmpty(rest) THEN Without(groups[m], {l})
                      ELSE With(groups[m], l, rest)
    BY DEF AddItem
  <1> HIDE DEF r, items, b
  <1>4. /\ IsBuffer(rest, m) /\ c \in Nat /\ ts \in Seq(AllTasks)
        /\ \A i \in DOMAIN ts : ts[i].to = m /\ ts[i].line = l
    <2>1. CASE full
      <3>1. IsBuffer(Rest(m, items, b), m) /\ Pops(m, items, b) \in Nat
        BY <1>1, <1>2, <2>1, PoppedIs, PopsIs
      <3>2. /\ PoppedOf(m, l, items, b) \in Seq(AllTasks)
            /\ \A i \in DOMAIN PoppedOf(m, l, items, b) :
                  /\ PoppedOf(m, l, items, b)[i].to = m
                  /\ PoppedOf(m, l, items, b)[i].line = l
        <4> DEFINE q == PoppedOf(m, l, items, b)
                   K == 1..Pops(m, items, b)
        <4>1. /\ q \in Seq(AllTasks) /\ DOMAIN q = K
              /\ \A k \in K : q[k] = Popped(m, l, items, b, k)
              /\ \A k \in K : /\ Popped(m, l, items, b, k).to = m
                              /\ Popped(m, l, items, b, k).line = l
          BY <1>1, <1>2, <2>1, PoppedIs
        <4> HIDE DEF q, K
        <4> QED BY <4>1 DEF q
      <3> QED BY <2>1, <3>1, <3>2
    <2>2. CASE ~ full
      BY <1>1, <2>2
    <2> QED BY <2>1, <2>2
  <1> HIDE DEF rest, ts, c
  <1>5. \A k \in DOMAIN groups[m] : IsBuffer(groups[m][k], m)
    BY <1>1 DEF Typed, TypedJoins, JoinsOK
  <1>6. /\ DOMAIN r.groups = (DOMAIN groups[m] \cup r.opened) \ r.closed
        /\ \A k \in DOMAIN r.groups : IsBuffer(r.groups[k], m)
    <2>1. CASE AllEmpty(rest)
      BY <1>3, <1>5, <2>1 DEF Without
    <2>2. CASE ~ AllEmpty(rest)
      BY <1>3, <1>4, <1>5, <2>2 DEF With
    <2> QED BY <2>1, <2>2
  <1> QED BY <1>1, <1>3, <1>4, <1>6 DEF AddedOK, r, b

LEMMA AddedIsOK ==
    ASSUME Typed, NEW d, IsDelivery(d), ~ Added(d).fails
    PROVE  AddedOK(d, Added(d))
  <1>1. CASE SingleInput(d.to)
    BY <1>1, SingleOK DEF Added
  <1>2. CASE ~ SingleInput(d.to) /\ <<d.to, d.port>> \in BroadcastPorts
    <2> DEFINE b == With(broadcasts[d.to], d.port, d.packet)
    <2>1. Added(d) = IF RequiredItems(d.to) = {} /\ RequiredBroadcasts(d.to) \subseteq DOMAIN b
                     THEN BroadcastOnly(d, b) ELSE PopGroups(d.to, b)
      BY <1>2 DEF Added, AddBroadcast
    <2>2. IsBroadcast(b, d.to)
      BY WithBroadcast
    <2> HIDE DEF b
    <2> QED BY <2>1, <2>2, BroadcastOnlyOK, PopGroupsOK
  <1>3. CASE ~ SingleInput(d.to) /\ <<d.to, d.port>> \notin BroadcastPorts
    BY <1>3, AddItemOK DEF Added
  <1> QED BY <1>1, <1>2, <1>3

(* The order of the groups stays a list of the groups.                     *)
Fits(s, l, opened, gs) ==
    /\ s \in Seq(Lineages) /\ IsInjective(s) /\ l \in Lineages
    /\ opened \subseteq {l} /\ opened \cap ToSet(s) = {}
    /\ DOMAIN gs \subseteq ToSet(s) \cup opened

LEMMA ReorderedIs ==
    ASSUME NEW s, NEW l, NEW opened, NEW gs, Fits(s, l, opened, gs)
    PROVE  /\ Reordered(s, opened, gs) \in Seq(Lineages)
           /\ IsInjective(Reordered(s, opened, gs))
           /\ ToSet(Reordered(s, opened, gs)) = DOMAIN gs
  <1> USE DEF Fits
  <1> DEFINE all == IF opened = {} THEN s ELSE Append(s, CHOOSE k \in opened : TRUE)
             I == {i \in DOMAIN all : all[i] \in DOMAIN gs}
  <1>1. /\ all \in Seq(Lineages) /\ IsInjective(all)
        /\ ToSet(all) = ToSet(s) \cup opened
    <2>1. CASE opened = {}
      BY <2>1
    <2>2. CASE opened # {}
      <3>1. opened = {l} /\ all = Append(s, l)
        BY <2>2
      <3>2. /\ Append(s, l) \in Seq(Lineages) /\ Len(s) \in Nat
            /\ DOMAIN Append(s, l) = 1..(Len(s) + 1) /\ DOMAIN s = 1..Len(s)
            /\ \A i \in 1..Len(s) : Append(s, l)[i] = s[i]
            /\ Append(s, l)[Len(s) + 1] = l
        BY AppendIs
      <3> DEFINE a == Append(s, l)
      <3>3. \A i \in 1..Len(s) : s[i] # l
        BY <3>1, <3>2 DEF ToSet
      <3> HIDE DEF a
      <3>4. \A i \in DOMAIN a : i \in 1..Len(s) \/ i = Len(s) + 1
        BY <3>2 DEF a
      <3>5. IsInjective(a)
        <4> SUFFICES ASSUME NEW i \in DOMAIN a, NEW j \in DOMAIN a, a[i] = a[j]
                     PROVE  i = j
          BY DEF IsInjective
        <4> QED BY <3>2, <3>3, <3>4 DEF IsInjective, a
      <3>6. ToSet(a) = ToSet(s) \cup {l}
        <4>1. \A i \in DOMAIN a : a[i] \in ToSet(s) \cup {l}
          BY <3>2, <3>4 DEF ToSet, a
        <4>2. \A i \in DOMAIN s : i \in DOMAIN a /\ a[i] = s[i]
          BY <3>2 DEF a
        <4>3. Len(s) + 1 \in DOMAIN a /\ a[Len(s) + 1] = l
          BY <3>2 DEF a
        <4> QED BY <4>1, <4>2, <4>3 DEF ToSet
      <3> QED BY <3>1, <3>2, <3>5, <3>6 DEF a
    <2> QED BY <2>1, <2>2
  <1>2. Reordered(s, opened, gs) = Sublist(all, I)
    BY DEF Reordered
  <1> HIDE DEF all
  <1>3. /\ Sublist(all, I) \in Seq(Lineages) /\ IsInjective(Sublist(all, I))
        /\ ToSet(Sublist(all, I)) = {all[i] : i \in I}
    <2>1. I \in SUBSET DOMAIN all  OBVIOUS
    <2> HIDE DEF I
    <2> QED BY <1>1, <2>1, SublistIs
  <1>4. {all[i] : i \in I} = DOMAIN gs
    <2>1. \A k \in DOMAIN gs : \E i \in DOMAIN all : all[i] = k
      BY <1>1 DEF ToSet
    <2> QED BY <2>1
  <1> QED BY <1>2, <1>3, <1>4

-----------------------------------------------------------------------------
(* What the tracker counts.                                                *)

Working(n) == pc[n] \in {"route", "put"}
Opening(l) == Working(l[1]) /\ task[l[1]].line = l
Born(l) == left[l[1]] < l[2] /\ ~ (pc[l[1]] = "execute" /\ task[l[1]].line = l)

Runners(l) == {n \in Nodes : task[n].line = l /\ ~ IsInput(n)}
Putters(l) == {n \in Nodes : pc[n] = "put" /\ Head(ready[n]).line = l}
Waiters(l) == {n \in Nodes : l \in DOMAIN groups[n]}
Closers(l) == {n \in Nodes : l \in closing[n]}

CountsOf(l) ==
    [open |-> IF Opening(l) THEN 1 ELSE 0,
     tasks |-> Cardinality(Queued(l)) + Cardinality(Runners(l)) + Cardinality(Putters(l)),
     joins |-> Cardinality(Waiters(l)) + Cardinality(Closers(l))]

Balanced(t) ==
    \A l \in Lineages : IF l \in DOMAIN t THEN t[l] = CountsOf(l) ELSE Idle(CountsOf(l))

Ledger ==
    failure # "lineage" =>
        Balanced(tracker) /\ \A l \in DOMAIN tracker : ~ Idle(tracker[l])

(* An input node works on the item that left counts down to; what is       *)
(* tracked or done has been opened.                                        *)
Births ==
    /\ \A n \in Nodes :
        /\ IsInput(n) /\ task[n] # NoTask => task[n].line = <<n, left[n] + 1>>
        /\ todo[n] # <<>> => Working(n)
        /\ closing[n] # {} => pc[n] = "put"
    /\ \A l \in DOMAIN tracker \cup done : Born(l)
    /\ failure # "none" => \E n \in Nodes : Working(n)

-----------------------------------------------------------------------------
(* Where lineages are, and how many of their packets have come to a port.  *)

Places(from) ==
    \A n \in Nodes :
        /\ task[n] # NoTask => task[n].line[1] \in from[n]
        /\ \A i \in DOMAIN queue[n] : queue[n][i].line[1] \in from[n]
        /\ \A i \in DOMAIN ready[n] : ready[n][i].line[1] \in from[ready[n][i].to]
        /\ DOMAIN groups[n] \subseteq Waiting(from, n)

OneLine ==
    \A n \in Nodes : \A i, j \in DOMAIN ready[n] : ready[n][i].line = ready[n][j].line

InStep(t) ==
    \A p \in RequiredItems(t.to) :
        Paired(t.to, p) => t.inputs[p] = <<[line |-> t.line, num |-> t.nth]>>

Count(items, p) == IF p \in DOMAIN items THEN Len(items[p]) ELSE 0

Held(m, l, p) == IF l \in DOMAIN groups[m] THEN Count(groups[m][l], p) ELSE 0

(* The packets of a group go on from number c, at every port that pairs.   *)
Lined(m, l, items, c) ==
    \A p \in DOMAIN items : Paired(m, p) =>
        \A k \in DOMAIN items[p] : items[p][k] = [line |-> l, num |-> c + k]

(* The packet at hand has gone by edge i of output o.                      *)
Passed(n, l, o, i) ==
    task[n].line = l /\ todo[n] # <<>> /\ Head(todo[n]) = o /\ edge[n] > i

Numbered(from) ==
    /\ \A m \in Nodes : \A l \in DOMAIN groups[m] :
          Lined(m, l, groups[m][l], built[<<m, l>>])
    /\ \A m \in Nodes : \A p \in Inputs[m] : Paired(m, p) =>
          \A n \in Nodes : \A o \in Outputs[n] : \A i \in DOMAIN Targets[n][o] :
              \A l \in Lineages : LeadsTo(n, o, i, m, p) /\ l[1] \in from[n] =>
                  built[<<m, l>>] + Held(m, l, p)
                    = serial[<<n, l, o>>] + (IF Passed(n, l, o, i) THEN 1 ELSE 0)

Steps ==
    /\ \A n \in Nodes : DOMAIN broadcasts[n] \subseteq {p \in Inputs[n] : <<n, p>> \in BroadcastPorts}
    /\ \A n \in Nodes : /\ \A i \in DOMAIN queue[n] : InStep(queue[n][i])
                        /\ \A i \in DOMAIN ready[n] : InStep(ready[n][i])

-----------------------------------------------------------------------------
(* Types.                                                                  *)

LEMMA InitTyped == Init => Typed
  <1> SUFFICES ASSUME Init PROVE Typed
    OBVIOUS
  <1> USE GraphAssumption
  <1>1. TypedQueues
    <2>1. \A n \in Nodes : queue[n] = <<>> /\ Len(queue[n]) = 0 /\ DOMAIN queue[n] = {}
      BY DEF Init
    <2>2. \A n \in Nodes : QueueMax[n] \in Nat /\ Items[n] \in Nat
      OBVIOUS
    <2> QED BY <2>1, <2>2 DEF Init, TypedQueues
  <1>2. TypedWorkers
    BY DEF Init, TypedWorkers
  <1>3. TypedJoins
    <2>1. JoinsOK
      <3>1. \A n \in Nodes : /\ DOMAIN groups[n] = {} /\ DOMAIN broadcasts[n] = {}
                             /\ broadcasts[n] \in [{} -> Packets]
                             /\ DOMAIN order[n] = {}
        BY DEF Init
      <3> QED BY <3>1 DEF JoinsOK, IsInjective, ToSet
    <2> QED BY <2>1 DEF Init, TypedJoins
  <1>4. TypedLineages
    BY DEF Init, TypedLineages
  <1> QED BY <1>1, <1>2, <1>3, <1>4 DEF Typed

LEMMA DeliveryIs ==
    ASSUME Typed, NEW n \in Nodes, Routes(n), edge[n] <= Len(Edges(n))
    PROVE  LET d == Delivery(n)
               o == Head(todo[n])
           IN  /\ IsDelivery(d)
               /\ d.packet = [line |-> task[n].line,
                              num |-> serial[<<n, task[n].line, o>>] + 1]
               /\ task[n] \in AllTasks /\ task[n].line \in Lineages
               /\ serial[<<n, task[n].line, o>>] \in Nat
               /\ o \in Outputs[n] /\ todo[n] \in Seq(Outputs[n])
               /\ LeadsTo(n, o, edge[n], d.to, d.port)
  <1> DEFINE d == Delivery(n)
             o == Head(todo[n])
             l == task[n].line
             x == Targets[n][o][edge[n]]
  <1>1. pc[n] = "route" /\ todo[n] # <<>> /\ todo[n] \in Seq(Outputs[n])
    BY DEF Typed, TypedWorkers, Routes
  <1>2. o \in Outputs[n]
    BY <1>1
  <1>3. task[n] \in AllTasks /\ l \in Lineages
    BY <1>1, LineOf DEF Typed, TypedWorkers
  <1>4. serial[<<n, l, o>>] \in Nat
    <2>1. <<n, l, o>> \in UNION {{k} \X Lineages \X Outputs[k] : k \in Nodes}
      BY <1>2, <1>3
    <2> QED BY <2>1 DEF Typed, TypedJoins
  <1>5. edge[n] \in DOMAIN Targets[n][o] /\ x.to \in Nodes /\ x.port \in Inputs[x.to]
    <2> DEFINE E == [to : Nodes, port : UNION {Inputs[m] : m \in Nodes}]
    <2>1. Targets[n][o] \in Seq(E)
      BY <1>2, GraphAssumption
    <2>2. edge[n] \in Nat \ {0} /\ edge[n] <= Len(Targets[n][o])
      BY DEF Typed, TypedWorkers, Edges
    <2>3. edge[n] \in DOMAIN Targets[n][o]
      BY <2>1, <2>2
    <2>4. x \in E
      <3> HIDE DEF E, o
      <3> QED BY <2>1, <2>3
    <2> QED BY <1>2, <2>3, <2>4, GraphAssumption
  <1>6. d = [to |-> x.to, port |-> x.port,
             packet |-> [line |-> l, num |-> serial[<<n, l, o>>] + 1]]
    BY DEF Delivery, Edges
  <1> HIDE DEF d, o, l, x
  <1>7. d.packet \in Packets
    BY <1>3, <1>4, <1>6 DEF Packets
  <1>8. d.to = x.to /\ d.port = x.port
        /\ d.packet = [line |-> l, num |-> serial[<<n, l, o>>] + 1]
    BY <1>6
  <1>9. IsDelivery(d)
    BY <1>5, <1>7, <1>8 DEF IsDelivery
  <1>10. LeadsTo(n, o, edge[n], d.to, d.port)
    BY <1>2, <1>5, <1>8 DEF LeadsTo, x
  <1> QED BY <1>1, <1>2, <1>3, <1>4, <1>8, <1>9, <1>10 DEF d, o, l

(* What Proceed does to the types of the variables it sets.                *)
LEMMA ProceedTyped ==
    ASSUME Typed, NEW n \in Nodes, Working(n), failure = "none",
           NEW ts \in Seq(AllTasks), NEW closed \in SUBSET Lineages,
           NEW t, DOMAIN t \subseteq Lineages \ done, t = [l \in DOMAIN t |-> t[l]],
           Proceed(n, ts, closed, t)
    PROVE  /\ pc' \in [Nodes -> {"collect", "execute", "route", "put"}]
           /\ ready' \in [Nodes -> Seq(AllTasks)]
           /\ closing' \in [Nodes -> SUBSET Lineages]
           /\ \A k \in Nodes : k # n => pc'[k] = pc[k] /\ ready'[k] = ready[k]
                                        /\ closing'[k] = closing[k]
           /\ pc'[n] = "put" <=> ready'[n] # <<>>
           /\ pc'[n] \in {"route", "put"}
           /\ failure' = "none" =>
                 ready'[n] = ts /\ closing'[n] = IF ts = <<>> THEN {} ELSE closed
           /\ failure' # "none" => failure' = "lineage" /\ ready'[n] = ready[n]
                                   /\ closing'[n] = closing[n]
           /\ TypedLineages'
  <1> USE DEF Typed, TypedWorkers, TypedLineages
  <1>1. CASE ts = <<>> /\ closed \subseteq DOMAIN t
    <2>1. /\ Settle(Closed(t, closed))
          /\ pc' = [pc EXCEPT ![n] = "route"]
          /\ ready' = [ready EXCEPT ![n] = <<>>]
          /\ closing' = [closing EXCEPT ![n] = {}]
          /\ failure' = failure
      BY <1>1 DEF Proceed
    <2>2. TypedLineages'
      <3> DEFINE u == Closed(t, closed)
                 idle == {l \in DOMAIN u : Idle(u[l])}
      <3>1. DOMAIN u = DOMAIN t  BY DEF Closed
      <3>2. tracker' = Without(u, idle) /\ done' = done \cup idle
        BY <2>1 DEF Settle
      <3> HIDE DEF u
      <3>3. DOMAIN tracker' = DOMAIN u \ idle /\ tracker' = [l \in DOMAIN tracker' |-> tracker'[l]]
        BY <3>2 DEF Without
      <3> QED BY <2>1, <3>1, <3>2, <3>3
    <2> QED BY <1>1, <2>1, <2>2
  <1>2. CASE ~ (ts = <<>> /\ closed \subseteq DOMAIN t)
             /\ ts # <<>> /\ Head(ts).line \in DOMAIN t
    <2>1. /\ tracker' = [t EXCEPT ![Head(ts).line].tasks = @ + 1]
          /\ pc' = [pc EXCEPT ![n] = "put"]
          /\ ready' = [ready EXCEPT ![n] = ts]
          /\ closing' = [closing EXCEPT ![n] = closed]
          /\ done' = done /\ failure' = failure
      BY <1>2 DEF Proceed
    <2>2. DOMAIN tracker' = DOMAIN t /\ tracker' = [l \in DOMAIN tracker' |-> tracker'[l]]
      BY ZenonT(30), <2>1
    <2> QED BY <1>2, <2>1, <2>2
  <1>3. CASE ~ (ts = <<>> /\ closed \subseteq DOMAIN t)
             /\ ~ (ts # <<>> /\ Head(ts).line \in DOMAIN t)
    <2>1. failure' = "lineage" /\ UNCHANGED <<pc, ready, closing, tracker, done>>
      BY <1>3 DEF Proceed, Fails
    <2>2. pc[n] \in {"route", "put"}
      BY DEF Working
    <2> QED BY <2>1, <2>2
  <1> QED BY <1>1, <1>2, <1>3

LEMMA CollectTyped ==
    ASSUME Typed, NEW n \in Nodes, Collect(n)
    PROVE  Typed'
  <1> USE DEF Typed
  <1>0. /\ failure = "none" /\ pc[n] = "collect"
        /\ pc' = [pc EXCEPT ![n] = "execute"]
        /\ UNCHANGED <<turn, todo, edge, ready, closing, groups, order, broadcasts,
                       built, tracker, done, serial, failure>>
    BY DEF Collect, joins
  <1>1. /\ TypedQueues'
        /\ task' \in [Nodes -> AllTasks \cup {NoTask}]
        /\ \A k \in Nodes : k # n => task'[k] = task[k]
        /\ task'[n] \in AllTasks /\ task'[n].to = n
    <2>1. CASE IsInput(n)
      <3>1. /\ left[n] > 0 /\ left' = [left EXCEPT ![n] = @ - 1]
            /\ task' = [task EXCEPT ![n] = Source(n, <<n, left[n]>>)]
            /\ queue' = queue
        BY <2>1 DEF Collect
      <3>2. left[n] \in 1..Items[n] /\ Items[n] \in Nat
        <4>1. Items[n] \in Nat  BY GraphAssumption
        <4>2. left[n] \in Nat /\ left[n] <= Items[n]  BY DEF TypedQueues
        <4> QED BY <3>1, <4>1, <4>2
      <3>3. <<n, left[n]>> \in Lineages
        BY <3>2, LineageIs
      <3>4. IsTask(Source(n, <<n, left[n]>>), n)
        BY <3>3 DEF Source, IsTask, IsBuffer
      <3>5. TypedQueues'
        <4>1. \A k \in Nodes : left[k] \in Nat /\ left[k] <= Items[k] /\ Items[k] \in Nat
          BY GraphAssumption DEF TypedQueues
        <4>2. \A k \in Nodes : left'[k] \in Nat /\ left'[k] <= Items[k]
          BY <3>1, <3>2, <4>1 DEF TypedQueues
        <4>3. left' \in [Nodes -> Nat]
          BY <3>1, <4>2 DEF TypedQueues
        <4> QED BY <3>1, <4>2, <4>3 DEF TypedQueues
      <3> QED BY <3>1, <3>4, <3>5, TaskIs DEF TypedWorkers
    <2>2. CASE ~ IsInput(n)
      <3>1. /\ queue[n] # <<>> /\ queue' = [queue EXCEPT ![n] = Tail(@)]
            /\ task' = [task EXCEPT ![n] = Head(queue[n])] /\ left' = left
        BY <2>2 DEF Collect
      <3>2. /\ queue[n] \in Seq(AllTasks) /\ Len(queue[n]) \in Nat
            /\ Tail(queue[n]) \in Seq(AllTasks) /\ Len(Tail(queue[n])) = Len(queue[n]) - 1
            /\ Head(queue[n]) = queue[n][1] /\ 1 \in DOMAIN queue[n]
            /\ \A i \in DOMAIN Tail(queue[n]) :
                  i + 1 \in DOMAIN queue[n] /\ Tail(queue[n])[i] = queue[n][i + 1]
        BY <3>1 DEF TypedQueues
      <3>3. /\ \A i \in DOMAIN Tail(queue[n]) : Tail(queue[n])[i].to = n
            /\ Head(queue[n]) \in AllTasks /\ Head(queue[n]).to = n
        BY <3>2 DEF TypedQueues
      <3>4. QueueMax[n] \in Nat /\ Len(Tail(queue[n])) <= QueueMax[n]
        BY <3>2, GraphAssumption DEF TypedQueues
      <3>5. TypedQueues'
        BY <3>1, <3>2, <3>3, <3>4 DEF TypedQueues
      <3> QED BY <3>1, <3>3, <3>5 DEF TypedWorkers
    <2> QED BY <2>1, <2>2
  <1>2. TypedWorkers'
    <2>1. task'[n] # NoTask
      BY <1>1, LineOf
    <2>2. pc' \in [Nodes -> {"collect", "execute", "route", "put"}]
          /\ pc'[n] = "execute" /\ \A k \in Nodes : k # n => pc'[k] = pc[k]
      BY <1>0 DEF TypedWorkers
    <2>3. ready[n] = <<>>
      BY <1>0 DEF TypedWorkers
    <2> QED BY <1>0, <1>1, <2>1, <2>2, <2>3 DEF TypedWorkers
  <1>3. TypedJoins' /\ TypedLineages'
    BY <1>0 DEF TypedJoins, TypedLineages, JoinsOK
  <1> QED BY <1>1, <1>2, <1>3

LEMMA ExecuteTyped ==
    ASSUME Typed, Births, NEW n \in Nodes, Execute(n)
    PROVE  Typed'
  <1> USE DEF Typed
  <1>0. /\ failure = "none" /\ pc[n] = "execute"
        /\ edge' = [edge EXCEPT ![n] = 1]
        /\ tracker' = IF IsInput(n) THEN OpenSource(task[n].line) ELSE tracker
        /\ turn' = n
        /\ pc' = [pc EXCEPT ![n] = "route"]
        /\ UNCHANGED <<left, queue, task, ready, closing, groups, order, broadcasts,
                       built, done, serial, failure>>
    BY DEF Execute, joins
  <1>1. PICK outs \in Results[n] : todo' = [todo EXCEPT ![n] = outs]
    BY DEF Execute
  <1>2. outs \in Seq(Outputs[n])
    BY GraphAssumption
  <1>3. TypedWorkers'
    <2>1. \A k \in Nodes : /\ pc'[k] = (IF k = n THEN "route" ELSE pc[k])
                           /\ todo'[k] = (IF k = n THEN outs ELSE todo[k])
      BY <1>0, <1>1 DEF TypedWorkers
    <2>2. /\ pc' \in [Nodes -> {"collect", "execute", "route", "put"}]
          /\ edge' \in [Nodes -> Nat \ {0}]
      BY <1>0 DEF TypedWorkers
    <2>3. DOMAIN todo' = Nodes /\ todo' = [k \in Nodes |-> todo'[k]]
      <3>1. DOMAIN todo = Nodes  BY DEF TypedWorkers
      <3> QED BY <1>1, <3>1
    <2> QED BY <1>0, <1>2, <2>1, <2>2, <2>3 DEF TypedWorkers
  <1>4. TypedLineages'
    <2>1. CASE IsInput(n)
      <3> DEFINE l == task[n].line
      <3>1. task[n] # NoTask /\ task[n] \in AllTasks
        BY <1>0 DEF TypedWorkers
      <3>2. l = <<n, left[n] + 1>> /\ l \in Lineages
        BY <2>1, <3>1, LineOf DEF Births
      <3>3. l \notin done
        BY <1>0, <3>2 DEF Births, Born
      <3>4. tracker' = With(tracker, l, [open |-> 1, tasks |-> 0, joins |-> 0])
        BY <1>0, <2>1 DEF OpenSource
      <3> HIDE DEF l
      <3>5. DOMAIN tracker' = DOMAIN tracker \cup {l}
            /\ tracker' = [k \in DOMAIN tracker' |-> tracker'[k]]
        BY <3>4 DEF With
      <3> QED BY <1>0, <3>2, <3>3, <3>5 DEF TypedLineages
    <2>2. CASE ~ IsInput(n)
      BY <1>0, <2>2 DEF TypedLineages
    <2> QED BY <2>1, <2>2
  <1>5. TypedQueues' /\ TypedJoins'
    BY <1>0 DEF TypedQueues, TypedJoins, JoinsOK
  <1> QED BY <1>3, <1>4, <1>5

LEMMA NextPacketTyped ==
    ASSUME Typed, NEW n \in Nodes, NextPacket(n)
    PROVE  Typed'
  <1> USE DEF Typed
  <1>0. /\ Routes(n)
        /\ serial' = [serial EXCEPT ![<<n, task[n].line, Head(todo[n])>>] = @ + 1]
        /\ todo' = [todo EXCEPT ![n] = Tail(@)]
        /\ edge' = [edge EXCEPT ![n] = 1]
        /\ UNCHANGED <<left, queue, turn, pc, task, ready, closing, groups, order,
                       broadcasts, built, tracker, done, failure>>
    BY DEF NextPacket, joins
  <1>1. Tail(todo[n]) \in Seq(Outputs[n])
    BY <1>0 DEF Routes, TypedWorkers
  <1>2. TypedWorkers'
    <2>1. DOMAIN todo' = Nodes /\ todo' = [k \in Nodes |-> todo'[k]]
          /\ \A k \in Nodes : todo'[k] = IF k = n THEN Tail(todo[n]) ELSE todo[k]
      <3>1. DOMAIN todo = Nodes  BY DEF TypedWorkers
      <3> QED BY <1>0, <3>1
    <2>2. edge' \in [Nodes -> Nat \ {0}]
      BY <1>0 DEF TypedWorkers
    <2> QED BY <1>0, <1>1, <2>1, <2>2 DEF TypedWorkers
  <1>3. TypedJoins'
    <2> DEFINE S == UNION {{k} \X Lineages \X Outputs[k] : k \in Nodes}
    <2>1. serial \in [S -> Nat]
      BY DEF TypedJoins
    <2> HIDE DEF S
    <2>2. serial' \in [S -> Nat]
      <3> DEFINE y == <<n, task[n].line, Head(todo[n])>>
      <3>1. serial' = [serial EXCEPT ![y] = @ + 1]
        BY <1>0
      <3> HIDE DEF y
      <3>2. \A x \in S : serial'[x] = IF x = y THEN serial[x] + 1 ELSE serial[x]
        BY <2>1, <3>1
      <3>3. \A x \in S : serial'[x] \in Nat
        BY <2>1, <3>2
      <3>4. serial' = [x \in S |-> serial'[x]]
        BY <2>1, <3>1
      <3> QED BY <3>3, <3>4
    <2> QED BY <1>0, <2>2 DEF TypedJoins, JoinsOK, S
  <1>4. TypedQueues' /\ TypedLineages'
    BY <1>0 DEF TypedQueues, TypedLineages
  <1> QED BY <1>2, <1>3, <1>4

LEMMA WaitTyped ==
    ASSUME Typed, NEW n \in Nodes, Wait(n) \/ DeliverFails(n)
    PROVE  Typed'
  <1> USE DEF Typed
  <1>1. /\ UNCHANGED <<left, queue, pc, task, todo, edge, ready, closing, groups, order,
                       broadcasts, built, tracker, done, serial>>
        /\ turn' \in {turn, NoNode} /\ failure' \in {failure, "join"}
    BY DEF Wait, DeliverFails, joins, routing
  <1>2. TypedQueues' /\ TypedWorkers' /\ TypedLineages'
    BY <1>1 DEF TypedQueues, TypedWorkers, TypedLineages
  <1>3. TypedJoins'
    BY <1>1 DEF TypedJoins, JoinsOK
  <1> QED BY <1>2, <1>3

LEMMA DeliverIs ==
    ASSUME Typed, NEW n \in Nodes, Deliver(n)
    PROVE  LET d == Delivery(n)
               r == Added(d)
           IN  /\ Routes(n) /\ edge[n] <= Len(Edges(n)) /\ Working(n)
               /\ ~ r.fails /\ AddedOK(d, r)
               /\ groups' = [groups EXCEPT ![d.to] = r.groups]
               /\ order' = [order EXCEPT ![d.to] = Reordered(@, r.opened, r.groups)]
               /\ broadcasts' = [broadcasts EXCEPT ![d.to] = r.broadcasts]
               /\ built' = [x \in DOMAIN built |->
                                IF x[1] = d.to /\ x[2] \in DOMAIN r.popped
                                THEN built[x] + r.popped[x[2]] ELSE built[x]]
               /\ edge' = [edge EXCEPT ![n] = @ + 1]
               /\ UNCHANGED <<left, queue, turn, task, todo, serial>>
               /\ \/ /\ r.opened \subseteq DOMAIN tracker
                     /\ Proceed(n, r.tasks, r.closed, Opened(tracker, r.opened))
                  \/ ~ r.opened \subseteq DOMAIN tracker /\ Fails("lineage")
  <1> DEFINE d == Delivery(n)
             r == Added(d)
  <1>1. /\ Routes(n) /\ edge[n] <= Len(Edges(n)) /\ ~ r.fails
    BY DEF Deliver
  <1>2. IsDelivery(d)
    BY <1>1, DeliveryIs
  <1>3. AddedOK(d, r)
    BY <1>1, <1>2, AddedIsOK
  <1>4. Working(n)
    BY <1>1 DEF Routes, Working
  <1>5. /\ groups' = [groups EXCEPT ![d.to] = r.groups]
        /\ order' = [order EXCEPT ![d.to] = Reordered(@, r.opened, r.groups)]
        /\ broadcasts' = [broadcasts EXCEPT ![d.to] = r.broadcasts]
        /\ built' = [x \in DOMAIN built |->
                         IF x[1] = d.to /\ x[2] \in DOMAIN r.popped
                         THEN built[x] + r.popped[x[2]] ELSE built[x]]
        /\ edge' = [edge EXCEPT ![n] = @ + 1]
        /\ UNCHANGED <<left, queue, turn, task, todo, serial>>
        /\ IF r.opened \subseteq DOMAIN tracker
           THEN Proceed(n, r.tasks, r.closed, Opened(tracker, r.opened))
           ELSE Fails("lineage")
    BY DEF Deliver
  <1> HIDE DEF d, r
  <1> QED BY <1>1, <1>3, <1>4, <1>5 DEF d, r

LEMMA DeliverProceeds ==
    ASSUME Typed, NEW n \in Nodes, Deliver(n)
    PROVE  /\ pc' \in [Nodes -> {"collect", "execute", "route", "put"}]
           /\ ready' \in [Nodes -> Seq(AllTasks)]
           /\ closing' \in [Nodes -> SUBSET Lineages]
           /\ \A k \in Nodes : k # n => pc'[k] = pc[k] /\ ready'[k] = ready[k]
                                        /\ closing'[k] = closing[k]
           /\ pc'[n] = "put" <=> ready'[n] # <<>>
           /\ pc'[n] \in {"route", "put"}
           /\ ready'[n] \in {<<>>, Added(Delivery(n)).tasks}
           /\ failure' = "none" =>
                 /\ ready'[n] = Added(Delivery(n)).tasks
                 /\ closing'[n] = IF ready'[n] = <<>> THEN {} ELSE Added(Delivery(n)).closed
           /\ failure' # "none" => closing'[n] = closing[n]
           /\ TypedLineages'
  <1> DEFINE d == Delivery(n)
             r == Added(d)
             t == Opened(tracker, r.opened)
  <1>1. /\ Routes(n) /\ edge[n] <= Len(Edges(n)) /\ Working(n) /\ AddedOK(d, r)
        /\ \/ r.opened \subseteq DOMAIN tracker /\ Proceed(n, r.tasks, r.closed, t)
           \/ ~ r.opened \subseteq DOMAIN tracker /\ Fails("lineage")
    BY DeliverIs
  <1>2. failure = "none" /\ pc[n] = "route" /\ ready[n] = <<>>
    BY <1>1 DEF Routes, Typed, TypedWorkers
  <1>3. IsDelivery(d) /\ d.packet.line \in Lineages
    BY <1>1, DeliveryIs DEF Packets, IsDelivery
  <1> HIDE DEF d
  <1>4. r.tasks \in Seq(AllTasks) /\ r.closed \in SUBSET Lineages
    BY <1>1, <1>3 DEF AddedOK, IsDelivery, Typed, TypedJoins, JoinsOK
  <1>5. DOMAIN t = DOMAIN tracker /\ t = [l \in DOMAIN t |-> t[l]]
        /\ DOMAIN tracker \subseteq Lineages \ done
    BY DEF Opened, Typed, TypedLineages
  <1> HIDE DEF r, t
  <1>6. CASE Proceed(n, r.tasks, r.closed, t)
    BY ZenonT(30), <1>1, <1>2, <1>4, <1>5, <1>6, ProceedTyped DEF d, r
  <1>7. CASE Fails("lineage")
    BY <1>1, <1>2, <1>7 DEF Fails, Typed, TypedWorkers, TypedLineages, d, r
  <1> QED BY <1>1, <1>6, <1>7

LEMMA DeliverTyped ==
    ASSUME Typed, NEW n \in Nodes, Deliver(n)
    PROVE  Typed'
  <1> DEFINE d == Delivery(n)
             r == Added(d)
             m == d.to
  <1>1. /\ Routes(n) /\ edge[n] <= Len(Edges(n)) /\ AddedOK(d, r)
        /\ groups' = [groups EXCEPT ![m] = r.groups]
        /\ order' = [order EXCEPT ![m] = Reordered(@, r.opened, r.groups)]
        /\ broadcasts' = [broadcasts EXCEPT ![m] = r.broadcasts]
        /\ built' = [x \in DOMAIN built |->
                         IF x[1] = m /\ x[2] \in DOMAIN r.popped
                         THEN built[x] + r.popped[x[2]] ELSE built[x]]
        /\ edge' = [edge EXCEPT ![n] = @ + 1]
        /\ UNCHANGED <<left, queue, turn, task, todo, serial>>
    BY DeliverIs
  <1>2. m \in Nodes /\ d.packet.line \in Lineages
    BY <1>1, DeliveryIs DEF IsDelivery, Packets
  <1> HIDE DEF r, d
  <1>3. TypedWorkers' /\ TypedLineages'
    <2>1. /\ pc' \in [Nodes -> {"collect", "execute", "route", "put"}]
          /\ ready' \in [Nodes -> Seq(AllTasks)]
          /\ closing' \in [Nodes -> SUBSET Lineages]
          /\ \A k \in Nodes : k # n => pc'[k] = pc[k] /\ ready'[k] = ready[k]
          /\ pc'[n] = "put" <=> ready'[n] # <<>>
          /\ pc'[n] \in {"route", "put"}
          /\ TypedLineages'
      BY DeliverProceeds
    <2>2. pc[n] = "route"
      BY <1>1 DEF Routes
    <2>3. edge' \in [Nodes -> Nat \ {0}]
      BY <1>1 DEF Typed, TypedWorkers
    <2>4. \A k \in Nodes : pc'[k] = "collect" <=> pc[k] = "collect"
      BY <2>1, <2>2
    <2>5. ASSUME NEW k \in Nodes
          PROVE  /\ task[k] # NoTask => task[k].to = k
                 /\ todo[k] \in Seq(Outputs[k])
                 /\ pc'[k] = "put" <=> ready'[k] # <<>>
                 /\ pc'[k] = "collect" <=> task[k] = NoTask
      <3>1. pc[k] = "put" <=> ready[k] # <<>>
        BY DEF Typed, TypedWorkers
      <3>2. pc'[k] = "put" <=> ready'[k] # <<>>
        BY <2>1, <3>1
      <3> QED BY <2>4, <3>2 DEF Typed, TypedWorkers
    <2>6. TypedWorkers
      BY DEF Typed
    <2> QED BY <1>1, <2>1, <2>3, <2>5, <2>6 DEF TypedWorkers
  <1>4. TypedQueues'
    BY <1>1 DEF Typed, TypedQueues
  <1>5. TypedJoins'
    <2> USE DEF Typed, TypedJoins
    <2>1. DOMAIN groups' = Nodes /\ DOMAIN broadcasts' = Nodes
          /\ groups' = [k \in Nodes |-> groups'[k]]
          /\ broadcasts' = [k \in Nodes |-> broadcasts'[k]]
          /\ \A k \in Nodes : /\ groups'[k] = (IF k = m THEN r.groups ELSE groups[k])
                              /\ broadcasts'[k] = (IF k = m THEN r.broadcasts ELSE broadcasts[k])
      BY <1>1
    <2>2. order' \in [Nodes -> Seq(Lineages)]
          /\ IsInjective(order'[m]) /\ ToSet(order'[m]) = DOMAIN r.groups
          /\ \A k \in Nodes : k # m => order'[k] = order[k]
      <3>1. order[m] \in Seq(Lineages) /\ IsInjective(order[m])
            /\ ToSet(order[m]) = DOMAIN groups[m]
        BY <1>2 DEF JoinsOK
      <3>2. /\ r.opened \subseteq {d.packet.line} /\ r.opened \cap ToSet(order[m]) = {}
            /\ DOMAIN r.groups \subseteq ToSet(order[m]) \cup r.opened
        BY <1>1, <3>1 DEF AddedOK
      <3>3. /\ Reordered(order[m], r.opened, r.groups) \in Seq(Lineages)
            /\ IsInjective(Reordered(order[m], r.opened, r.groups))
            /\ ToSet(Reordered(order[m], r.opened, r.groups)) = DOMAIN r.groups
        <4> DEFINE s == order[m]
                   l == d.packet.line
                   new == r.opened
                   gs == r.groups
        <4>1. Fits(s, l, new, gs)
          BY <1>2, <3>1, <3>2 DEF Fits
        <4> HIDE DEF s, l, new, gs
        <4>2. /\ Reordered(s, new, gs) \in Seq(Lineages)
              /\ IsInjective(Reordered(s, new, gs))
              /\ ToSet(Reordered(s, new, gs)) = DOMAIN gs
          BY <4>1, ReorderedIs
        <4> QED BY <4>2 DEF s, new, gs
      <3> QED BY <1>1, <1>2, <3>3
    <2>3. built' \in [Nodes \X Lineages -> Nat]
      <3>1. \A x \in Nodes \X Lineages : built'[x] \in Nat
        BY <1>1 DEF AddedOK
      <3> QED BY <1>1, <3>1
    <2>4. JoinsOK'
      <3>1. /\ DOMAIN r.groups \subseteq Lineages
            /\ \A l \in DOMAIN r.groups : IsBuffer(r.groups[l], m)
            /\ IsBroadcast(r.broadcasts, m)
        BY <1>1, <1>2 DEF AddedOK, JoinsOK
      <3>2. ASSUME NEW k \in Nodes
            PROVE  /\ DOMAIN groups'[k] \subseteq Lineages
                   /\ \A l \in DOMAIN groups'[k] : IsBuffer(groups'[k][l], k)
                   /\ DOMAIN broadcasts'[k] \subseteq Inputs[k]
                   /\ broadcasts'[k] \in [DOMAIN broadcasts'[k] -> Packets]
                   /\ IsInjective(order'[k]) /\ ToSet(order'[k]) = DOMAIN groups'[k]
        <4>1. CASE k = m
          BY <2>1, <2>2, <3>1, <4>1 DEF IsBroadcast
        <4>2. CASE k # m
          BY <2>1, <2>2, <4>2 DEF JoinsOK
        <4> QED BY <4>1, <4>2
      <3> QED BY <3>2 DEF JoinsOK
    <2> QED BY <1>1, <2>1, <2>2, <2>3, <2>4
  <1> QED BY <1>3, <1>4, <1>5 DEF Typed

LEMMA AdmitIs ==
    ASSUME Typed, NEW n \in Nodes, Admit(n)
    PROVE  LET t == Head(ready[n])
               rest == Tail(ready[n])
           IN  /\ failure = "none" /\ pc[n] = "put" /\ Working(n) /\ ready[n] # <<>>
               /\ t \in AllTasks /\ t.to \in Nodes /\ t.line \in Lineages
               /\ t = ready[n][1] /\ 1 \in DOMAIN ready[n]
               /\ rest \in Seq(AllTasks)
               /\ \A i \in DOMAIN rest : i + 1 \in DOMAIN ready[n] /\ rest[i] = ready[n][i + 1]
               /\ Room(t.to) /\ turn' = n
               /\ queue' = [queue EXCEPT ![t.to] = Append(@, t)]
               /\ Proceed(n, rest, closing[n], tracker)
               /\ UNCHANGED <<left, task, todo, edge, groups, order, broadcasts,
                              built, serial>>
  <1>1. /\ failure = "none" /\ pc[n] = "put" /\ Room(Head(ready[n]).to) /\ turn' = n
        /\ queue' = [queue EXCEPT ![Head(ready[n]).to] = Append(@, Head(ready[n]))]
        /\ Proceed(n, Tail(ready[n]), closing[n], tracker)
        /\ UNCHANGED <<left, task, todo, edge, groups, order, broadcasts, built, serial>>
    BY DEF Admit, joins
  <1>2. ready[n] \in Seq(AllTasks) /\ ready[n] # <<>>
    BY <1>1 DEF Typed, TypedWorkers
  <1>3. /\ Head(ready[n]) \in AllTasks /\ Tail(ready[n]) \in Seq(AllTasks)
        /\ Head(ready[n]) = ready[n][1] /\ 1 \in DOMAIN ready[n]
        /\ \A i \in DOMAIN Tail(ready[n]) :
              i + 1 \in DOMAIN ready[n] /\ Tail(ready[n])[i] = ready[n][i + 1]
    BY <1>2
  <1>4. Head(ready[n]).to \in Nodes /\ Head(ready[n]).line \in Lineages
    BY <1>3, TaskIs, LineOf
  <1> QED BY <1>1, <1>2, <1>3, <1>4 DEF Working

LEMMA AdmitTyped ==
    ASSUME Typed, NEW n \in Nodes, Admit(n)
    PROVE  Typed'
  <1> DEFINE t == Head(ready[n])
  <1>1. /\ failure = "none" /\ pc[n] = "put" /\ Working(n)
        /\ t \in AllTasks /\ t.to \in Nodes
        /\ Tail(ready[n]) \in Seq(AllTasks)
        /\ Room(t.to) /\ turn' = n
        /\ queue' = [queue EXCEPT ![t.to] = Append(@, t)]
        /\ Proceed(n, Tail(ready[n]), closing[n], tracker)
        /\ UNCHANGED <<left, task, todo, edge, groups, order, broadcasts, built, serial>>
    BY AdmitIs
  <1> HIDE DEF t
  <1>2. TypedQueues'
    <2> USE DEF Typed, TypedQueues
    <2> DEFINE q == Append(queue[t.to], t)
    <2>1. /\ queue[t.to] \in Seq(AllTasks) /\ Len(queue[t.to]) \in Nat
          /\ QueueMax[t.to] \in Nat /\ Len(queue[t.to]) < QueueMax[t.to]
      <3>1. QueueMax \in [Nodes -> Nat \ {0}]
        BY GraphAssumption
      <3>2. QueueMax[t.to] \in Nat
        BY <1>1, <3>1
      <3> QED BY <1>1, <3>2 DEF Room
    <2>2. /\ q \in Seq(AllTasks) /\ Len(q) <= QueueMax[t.to]
          /\ \A i \in DOMAIN q : q[i].to = t.to
      <3>1. /\ q \in Seq(AllTasks) /\ Len(q) = Len(queue[t.to]) + 1
            /\ \A i \in 1..Len(queue[t.to]) : q[i] = queue[t.to][i]
            /\ q[Len(queue[t.to]) + 1] = t
        BY <1>1, <2>1, AppendIs
      <3>2. \A i \in DOMAIN queue[t.to] : queue[t.to][i].to = t.to
        BY <1>1
      <3>3. DOMAIN queue[t.to] = 1..Len(queue[t.to]) /\ DOMAIN q = 1..Len(q)
        BY <2>1, <3>1
      <3> HIDE DEF q
      <3>4. \A i \in DOMAIN q : i \in DOMAIN queue[t.to] \/ i = Len(queue[t.to]) + 1
        BY <2>1, <3>1, <3>3
      <3>5. \A i \in DOMAIN q : q[i].to = t.to
        BY <3>1, <3>2, <3>3, <3>4
      <3>6. Len(q) <= QueueMax[t.to]
        BY <2>1, <3>1
      <3> QED BY <3>1, <3>5, <3>6
    <2>3. queue' = [queue EXCEPT ![t.to] = q]
      BY <1>1
    <2> HIDE DEF q
    <2> QED BY <1>1, <2>2, <2>3
  <1>3. TypedWorkers' /\ TypedLineages'
    <2>1. closing[n] \in SUBSET Lineages /\ DOMAIN tracker \subseteq Lineages \ done
          /\ tracker = [l \in DOMAIN tracker |-> tracker[l]]
      BY DEF Typed, TypedWorkers, TypedLineages
    <2>2. /\ pc' \in [Nodes -> {"collect", "execute", "route", "put"}]
          /\ ready' \in [Nodes -> Seq(AllTasks)]
          /\ closing' \in [Nodes -> SUBSET Lineages]
          /\ \A k \in Nodes : k # n => pc'[k] = pc[k] /\ ready'[k] = ready[k]
          /\ pc'[n] = "put" <=> ready'[n] # <<>>
          /\ pc'[n] \in {"route", "put"}
          /\ TypedLineages'
      BY <1>1, <2>1, ProceedTyped
    <2>3. \A k \in Nodes : pc'[k] = "collect" <=> pc[k] = "collect"
      BY <1>1, <2>2
    <2>4. ASSUME NEW k \in Nodes
          PROVE  /\ task[k] # NoTask => task[k].to = k
                 /\ todo[k] \in Seq(Outputs[k])
                 /\ pc'[k] = "put" <=> ready'[k] # <<>>
                 /\ pc'[k] = "collect" <=> task[k] = NoTask
      <3>1. pc[k] = "put" <=> ready[k] # <<>>
        BY DEF Typed, TypedWorkers
      <3>2. pc'[k] = "put" <=> ready'[k] # <<>>
        BY <2>2, <3>1
      <3> QED BY <2>3, <3>2 DEF Typed, TypedWorkers
    <2>5. TypedWorkers
      BY DEF Typed
    <2> QED BY <1>1, <2>2, <2>4, <2>5 DEF TypedWorkers
  <1>4. TypedJoins'
    BY <1>1 DEF Typed, TypedJoins, JoinsOK
  <1> QED BY <1>2, <1>3, <1>4 DEF Typed

LEMMA FinishTyped ==
    ASSUME Typed, NEW n \in Nodes, Finish(n)
    PROVE  Typed'
  <1> USE DEF Typed
  <1>1. /\ failure = "none" /\ pc[n] = "route" /\ turn' = NoNode
        /\ task' = [task EXCEPT ![n] = NoTask]
        /\ pc' = [pc EXCEPT ![n] = "collect"]
        /\ UNCHANGED <<left, queue, todo, edge, ready, closing, groups, order,
                       broadcasts, built, serial, failure>>
    BY DEF Finish, joins
  <1>2. TypedWorkers'
    <2>1. ready[n] = <<>>
      BY <1>1 DEF TypedWorkers
    <2> QED BY <1>1, <2>1 DEF TypedWorkers
  <1>3. TypedLineages'
    <2> DEFINE l == task[n].line
    <2>1. \/ UNCHANGED <<tracker, done>>
          \/ Settle([tracker EXCEPT ![l].open = 0])
          \/ Settle([tracker EXCEPT ![l].tasks = @ - 1])
      BY DEF Finish
    <2>2. ASSUME NEW u, DOMAIN u = DOMAIN tracker, Settle(u) PROVE TypedLineages'
      <3> DEFINE idle == {k \in DOMAIN u : Idle(u[k])}
      <3>1. tracker' = Without(u, idle) /\ done' = done \cup idle
        BY <2>2 DEF Settle
      <3>2. DOMAIN tracker' = DOMAIN u \ idle /\ tracker' = [k \in DOMAIN tracker' |-> tracker'[k]]
        BY <3>1 DEF Without
      <3> QED BY <1>1, <2>2, <3>1, <3>2 DEF TypedLineages
    <2>3. CASE UNCHANGED <<tracker, done>>
      BY <1>1, <2>3 DEF TypedLineages
    <2> QED BY <2>1, <2>2, <2>3
  <1>4. TypedQueues' /\ TypedJoins'
    BY <1>1 DEF TypedQueues, TypedJoins, JoinsOK
  <1> QED BY <1>2, <1>3, <1>4

-----------------------------------------------------------------------------
(* Counting.                                                               *)

In(x, S) == IF x \in S THEN 1 ELSE 0

(* Sets that differ in x at most.                                          *)
LEMMA Toggle ==
    ASSUME NEW S, NEW T, NEW x, IsFiniteSet(S), S \ {x} = T \ {x}
    PROVE  /\ IsFiniteSet(T) /\ Cardinality(S) \in Nat /\ Cardinality(T) \in Nat
           /\ Cardinality(T) + In(x, S) = Cardinality(S) + In(x, T)
  <1> DEFINE U == S \ {x}
  <1>1. IsFiniteSet(U) /\ x \notin U
    BY FS_Subset
  <1>2. Cardinality(U) \in Nat
    BY <1>1, FS_CardinalityType
  <1>3. S = IF x \in S THEN U \cup {x} ELSE U
    OBVIOUS
  <1>4. T = IF x \in T THEN U \cup {x} ELSE U
    OBVIOUS
  <1> HIDE DEF U
  <1>5. IsFiniteSet(U \cup {x}) /\ Cardinality(U \cup {x}) = Cardinality(U) + 1
    BY <1>1, FS_AddElement
  <1>6. Cardinality(S) = Cardinality(U) + In(x, S)
    <2>1. CASE x \in S
      BY <1>3, <1>5, <2>1 DEF In
    <2>2. CASE x \notin S
      BY <1>2, <1>3, <2>2 DEF In
    <2> QED BY <2>1, <2>2
  <1>7. Cardinality(T) = Cardinality(U) + In(x, T) /\ IsFiniteSet(T)
    <2>1. CASE x \in T
      BY <1>4, <1>5, <2>1 DEF In
    <2>2. CASE x \notin T
      BY <1>1, <1>2, <1>4, <2>2 DEF In
    <2> QED BY <2>1, <2>2
  <1>8. In(x, S) \in Nat /\ In(x, T) \in Nat
    BY DEF In
  <1> QED BY <1>2, <1>6, <1>7, <1>8

LEMMA NodeSets ==
    ASSUME NEW S \in SUBSET Nodes
    PROVE  IsFiniteSet(S) /\ Cardinality(S) \in Nat
  BY GraphAssumption, FS_Subset, FS_CardinalityType

QueuedIn(q, l) ==
    UNION {{<<n, i>> : i \in {j \in DOMAIN q[n] : q[n][j].line = l}} : n \in Nodes}

LEMMA QueuedInIs ==
    ASSUME NEW q, NEW l
    PROVE  /\ \A x \in QueuedIn(q, l) :
                 /\ x = <<x[1], x[2]>> /\ x[1] \in Nodes /\ x[2] \in DOMAIN q[x[1]]
                 /\ q[x[1]][x[2]].line = l
           /\ \A n \in Nodes : \A i : <<n, i>> \in QueuedIn(q, l)
                 <=> i \in DOMAIN q[n] /\ q[n][i].line = l
  BY DEF QueuedIn

LEMMA QueuedFinite ==
    ASSUME NEW S, NEW q \in [Nodes -> Seq(S)], NEW l
    PROVE  IsFiniteSet(QueuedIn(q, l)) /\ Cardinality(QueuedIn(q, l)) \in Nat
  <1> DEFINE F(n) == {n} \X (1..Len(q[n]))
             T == {F(n) : n \in Nodes}
             f == [n \in Nodes |-> F(n)]
  <1>1. \A n \in Nodes : Len(q[n]) \in Nat /\ DOMAIN q[n] = 1..Len(q[n])
    OBVIOUS
  <1>2. ASSUME NEW n \in Nodes PROVE IsFiniteSet(F(n))
    <2>1. IsFiniteSet(1..Len(q[n]))  BY <1>1, FS_Interval
    <2>2. IsFiniteSet({n})  BY FS_Singleton
    <2> QED BY <2>1, <2>2, FS_Product
  <1>3. IsFiniteSet(T)
    <2>1. f \in Surjection(Nodes, T)
      BY DEF Surjection
    <2>2. IsFiniteSet(Nodes)
      BY GraphAssumption
    <2> HIDE DEF f, T
    <2> QED BY <2>1, <2>2, FS_Surjection
  <1>4. IsFiniteSet(UNION T)
    BY <1>2, <1>3, FS_UNION
  <1>5. QueuedIn(q, l) \subseteq UNION T
    BY <1>1 DEF QueuedIn
  <1> HIDE DEF T
  <1> QED BY <1>4, <1>5, FS_Subset, FS_CardinalityType

(* A task that leaves the head of a queue.                                 *)
LEMMA QueuedPop ==
    ASSUME NEW S, NEW q \in [Nodes -> Seq(S)], NEW n \in Nodes, q[n] # <<>>, NEW l
    PROVE  Cardinality(QueuedIn([q EXCEPT ![n] = Tail(@)], l))
              = Cardinality(QueuedIn(q, l)) - (IF Head(q[n]).line = l THEN 1 ELSE 0)
  <1> DEFINE r == [q EXCEPT ![n] = Tail(@)]
             x == <<n, 1>>
             Q == QueuedIn(q, l)
             R == QueuedIn(r, l)
             g == [y \in R |-> IF y[1] = n THEN <<n, y[2] + 1>> ELSE y]
  <1>1. /\ Len(q[n]) \in Nat \ {0} /\ DOMAIN q[n] = 1..Len(q[n])
        /\ Tail(q[n]) \in Seq(S) /\ DOMAIN Tail(q[n]) = 1..(Len(q[n]) - 1)
        /\ Head(q[n]) = q[n][1]
        /\ \A i \in 1..(Len(q[n]) - 1) : Tail(q[n])[i] = q[n][i + 1]
    OBVIOUS
  <1>2. r \in [Nodes -> Seq(S)] /\ r[n] = Tail(q[n])
        /\ \A k \in Nodes : k # n => r[k] = q[k]
    BY <1>1
  <1> HIDE DEF r
  <1>3. /\ \A y \in Q : /\ y = <<y[1], y[2]>> /\ y[1] \in Nodes
                        /\ y[2] \in DOMAIN q[y[1]] /\ q[y[1]][y[2]].line = l
        /\ \A k \in Nodes : \A i : <<k, i>> \in Q <=> i \in DOMAIN q[k] /\ q[k][i].line = l
    BY QueuedInIs
  <1>4. /\ \A y \in R : /\ y = <<y[1], y[2]>> /\ y[1] \in Nodes
                        /\ y[2] \in DOMAIN r[y[1]] /\ r[y[1]][y[2]].line = l
        /\ \A k \in Nodes : \A i : <<k, i>> \in R <=> i \in DOMAIN r[k] /\ r[k][i].line = l
    BY QueuedInIs
  <1>5. IsFiniteSet(Q) /\ IsFiniteSet(R)
    BY <1>2, QueuedFinite
  <1> HIDE DEF Q, R
  <1>6. ASSUME NEW y \in R
        PROVE  /\ y[2] \in DOMAIN r[y[1]] /\ y[1] \in Nodes
               /\ y[1] = n => /\ y[2] \in 1..(Len(q[n]) - 1)
                              /\ y[2] + 1 \in DOMAIN q[n] /\ q[n][y[2] + 1].line = l
               /\ y[1] # n => y \in Q
    <2>1. y = <<y[1], y[2]>> /\ y[1] \in Nodes /\ y[2] \in DOMAIN r[y[1]]
          /\ r[y[1]][y[2]].line = l
      BY <1>4
    <2>2. CASE y[1] = n
      <3>1. y[2] \in 1..(Len(q[n]) - 1)  BY <1>1, <1>2, <2>1, <2>2
      <3>2. r[n][y[2]] = q[n][y[2] + 1]  BY <1>1, <1>2, <3>1
      <3>3. y[2] + 1 \in DOMAIN q[n]  BY <1>1, <3>1
      <3> QED BY <2>1, <2>2, <3>1, <3>2, <3>3
    <2>3. CASE y[1] # n
      <3>1. r[y[1]] = q[y[1]]  BY <1>2, <2>1, <2>3
      <3> QED BY <1>3, <2>1, <2>3, <3>1
    <2> QED BY <2>2, <2>3
  <1>7. g \in Injection(R, Q \ {x})
    <2>1. ASSUME NEW y \in R PROVE g[y] \in Q \ {x}
      <3>1. CASE y[1] = n
        <4>1. g[y] = <<n, y[2] + 1>> /\ y[2] \in 1..(Len(q[n]) - 1)
              /\ y[2] + 1 \in DOMAIN q[n] /\ q[n][y[2] + 1].line = l
          BY <1>6, <3>1
        <4>2. <<n, y[2] + 1>> \in Q  BY <1>3, <4>1
        <4>3. y[2] + 1 # 1  BY <1>1, <4>1
        <4> QED BY <4>1, <4>2, <4>3
      <3>2. CASE y[1] # n
        BY <1>6, <3>2
      <3> QED BY <3>1, <3>2
    <2>2. ASSUME NEW y \in R, NEW z \in R, g[y] = g[z] PROVE y = z
      <3>1. y = <<y[1], y[2]>> /\ z = <<z[1], z[2]>>
        BY <1>4
      <3>2. CASE y[1] = n /\ z[1] = n
        <4>1. y[2] \in Int /\ z[2] \in Int  BY <1>1, <1>6, <3>2
        <4>2. y[2] + 1 = z[2] + 1  BY <2>2, <3>2
        <4> QED BY <3>1, <3>2, <4>1, <4>2
      <3>3. CASE ~ (y[1] = n /\ z[1] = n)
        BY <2>2, <3>1, <3>3
      <3> QED BY <3>2, <3>3
    <2> QED BY <2>1, <2>2 DEF Injection, IsInjective
  <1>8. g \in Surjection(R, Q \ {x})
    <2>1. ASSUME NEW y \in Q \ {x} PROVE \E z \in R : g[z] = y
      <3>1. y = <<y[1], y[2]>> /\ y[1] \in Nodes /\ y[2] \in DOMAIN q[y[1]]
            /\ q[y[1]][y[2]].line = l
        BY <1>3
      <3>2. CASE y[1] # n
        <4>1. r[y[1]] = q[y[1]]  BY <1>2, <3>1, <3>2
        <4>2. y \in R  BY <1>4, <3>1, <4>1
        <4> QED BY <3>2, <4>2
      <3>3. CASE y[1] = n
        <4>1. y[2] # 1  BY <3>1, <3>3
        <4>2. y[2] - 1 \in 1..(Len(q[n]) - 1) /\ (y[2] - 1) + 1 = y[2]
          BY <1>1, <3>1, <3>3, <4>1
        <4>3. y[2] - 1 \in DOMAIN r[n] /\ r[n][y[2] - 1] = q[n][y[2]]
          BY <1>1, <1>2, <4>2
        <4>4. <<n, y[2] - 1>> \in R  BY <1>4, <3>1, <3>3, <4>3
        <4>5. g[<<n, y[2] - 1>>] = y  BY <3>1, <3>3, <4>2, <4>4
        <4> QED BY <4>4, <4>5
      <3> QED BY <3>2, <3>3
    <2>2. g \in [R -> Q \ {x}]
      BY <1>7 DEF Injection
    <2> HIDE DEF g
    <2> QED BY <2>1, <2>2 DEF Surjection
  <1>9. Cardinality(R) = Cardinality(Q \ {x}) /\ IsFiniteSet(Q \ {x})
    <2> HIDE DEF g
    <2>1. IsFiniteSet(Q \ {x})  BY <1>5, FS_RemoveElement
    <2> QED BY <1>7, <1>8, <2>1, FS_Injection
  <1>10. Cardinality(Q \ {x}) = IF x \in Q THEN Cardinality(Q) - 1 ELSE Cardinality(Q)
    BY <1>5, FS_RemoveElement
  <1>11. x \in Q <=> Head(q[n]).line = l
    BY <1>1, <1>3
  <1>12. Cardinality(Q) \in Nat
    BY <1>5, FS_CardinalityType
  <1> QED BY <1>9, <1>10, <1>11, <1>12 DEF Q, R, r

(* A task that is admitted.                                                *)
Pushed(q, r, m, t) == r = [q EXCEPT ![m] = Append(@, t)]

LEMMA QueuedPush ==
    ASSUME NEW q \in [Nodes -> Seq(AllTasks)], NEW m \in Nodes, NEW t \in AllTasks,
           NEW r, Pushed(q, r, m, t), NEW l
    PROVE  Cardinality(QueuedIn(r, l))
              = Cardinality(QueuedIn(q, l)) + (IF t.line = l THEN 1 ELSE 0)
  <1> DEFINE S == AllTasks
             x == <<m, Len(q[m]) + 1>>
             Q == QueuedIn(q, l)
             R == QueuedIn(r, l)
  <1>1. /\ Len(q[m]) \in Nat /\ DOMAIN q[m] = 1..Len(q[m])
        /\ Append(q[m], t) \in Seq(S) /\ DOMAIN Append(q[m], t) = 1..(Len(q[m]) + 1)
        /\ Append(q[m], t)[Len(q[m]) + 1] = t
        /\ \A i \in 1..Len(q[m]) : Append(q[m], t)[i] = q[m][i]
    OBVIOUS
  <1>2. r \in [Nodes -> Seq(S)] /\ r[m] = Append(q[m], t)
        /\ \A k \in Nodes : k # m => r[k] = q[k]
    BY <1>1 DEF Pushed
  <1>3. /\ \A y \in Q : /\ y = <<y[1], y[2]>> /\ y[1] \in Nodes
                        /\ y[2] \in DOMAIN q[y[1]] /\ q[y[1]][y[2]].line = l
        /\ \A k \in Nodes : \A i : <<k, i>> \in Q <=> i \in DOMAIN q[k] /\ q[k][i].line = l
    BY QueuedInIs
  <1>4. /\ \A y \in R : /\ y = <<y[1], y[2]>> /\ y[1] \in Nodes
                        /\ y[2] \in DOMAIN r[y[1]] /\ r[y[1]][y[2]].line = l
        /\ \A k \in Nodes : \A i : <<k, i>> \in R <=> i \in DOMAIN r[k] /\ r[k][i].line = l
    BY QueuedInIs
  <1>5. IsFiniteSet(Q) /\ Cardinality(Q) \in Nat
    BY QueuedFinite
  <1> HIDE DEF Q, R
  <1>6. ASSUME NEW k \in Nodes, NEW i, <<k, i>> # x
        PROVE  <<k, i>> \in Q <=> <<k, i>> \in R
    <2>1. CASE k # m
      BY <1>2, <1>3, <1>4, <2>1
    <2>2. CASE k = m
      <3>1. i # Len(q[m]) + 1  BY <1>6, <2>2
      <3>2. i \in DOMAIN r[m] <=> i \in DOMAIN q[m]
        BY <1>1, <1>2, <3>1
      <3>3. i \in DOMAIN q[m] => r[m][i] = q[m][i]
        BY <1>1, <1>2
      <3> QED BY <1>3, <1>4, <2>2, <3>2, <3>3
    <2> QED BY <2>1, <2>2
  <1>7. Q \ {x} = R \ {x}
    BY <1>3, <1>4, <1>6
  <1>8. x \notin Q /\ (x \in R <=> t.line = l)
    BY <1>1, <1>2, <1>3, <1>4
  <1>9. Cardinality(R) + In(x, Q) = Cardinality(Q) + In(x, R) /\ Cardinality(R) \in Nat
    BY <1>5, <1>7, Toggle
  <1> QED BY <1>5, <1>8, <1>9 DEF In, Q, R

-----------------------------------------------------------------------------
(* Births.                                                                 *)

LEMMA SourceIsInput == \A l \in Lineages : IsInput(l[1])
  <1> TAKE l \in Lineages
  <1>1. l[1] \in Nodes /\ l[2] \in 1..Items[l[1]]
    BY LineageIs
  <1>2. Items[l[1]] \in Nat /\ (Items[l[1]] > 0 => Inputs[l[1]] = {})
    BY <1>1, GraphAssumption
  <1> QED BY <1>1, <1>2 DEF IsInput

(* Every lineage that is tracked or done was so before.                    *)
NoBirth == DOMAIN tracker' \cup done' \subseteq DOMAIN tracker \cup done

LEMMA SettleIsNoBirth ==
    ASSUME NEW t, DOMAIN t \subseteq DOMAIN tracker, Settle(t)
    PROVE  NoBirth
  <1> DEFINE idle == {l \in DOMAIN t : Idle(t[l])}
  <1>1. tracker' = Without(t, idle) /\ done' = done \cup idle
    BY DEF Settle
  <1>2. DOMAIN tracker' = DOMAIN t \ idle
    BY <1>1 DEF Without
  <1> QED BY <1>1, <1>2 DEF NoBirth

LEMMA ProceedIsNoBirth ==
    ASSUME NEW n, NEW ts, NEW closed, NEW t, DOMAIN t = DOMAIN tracker,
           Proceed(n, ts, closed, t)
    PROVE  NoBirth
  <1>1. CASE Settle(Closed(t, closed))
    <2>1. DOMAIN Closed(t, closed) = DOMAIN t
      BY DEF Closed
    <2> QED BY <1>1, <2>1, SettleIsNoBirth
  <1>2. CASE tracker' = [t EXCEPT ![Head(ts).line].tasks = @ + 1] /\ done' = done
    BY <1>2 DEF NoBirth
  <1>3. CASE UNCHANGED <<tracker, done>>
    BY <1>3 DEF NoBirth
  <1> QED BY <1>1, <1>2, <1>3 DEF Proceed, Fails

(* A worker that goes on routing.                                          *)
LEMMA RoutesOn ==
    ASSUME Typed, Births, NEW n \in Nodes, failure = "none", Working(n), Working(n)',
           UNCHANGED <<left, task>>, NoBirth,
           \A k \in Nodes : k # n => pc'[k] = pc[k] /\ closing'[k] = closing[k]
                                     /\ todo'[k] = todo[k],
           closing'[n] # {} => pc'[n] = "put"
    PROVE  Births'
  <1>1. \A k \in Nodes : /\ todo'[k] # <<>> => Working(k)'
                         /\ closing'[k] # {} => pc'[k] = "put"
    BY DEF Births, Working
  <1>2. ASSUME NEW l \in DOMAIN tracker' \cup done' PROVE Born(l)'
    <2>1. l \in DOMAIN tracker \cup done /\ l \in Lineages
      BY DEF NoBirth, Typed, TypedLineages
    <2>2. Born(l) /\ l[1] \in Nodes
      BY <2>1, LineageIs DEF Births
    <2>3. pc'[l[1]] = "execute" => pc[l[1]] = "execute"
      BY <2>2 DEF Working
    <2> QED BY <2>2, <2>3 DEF Born
  <1> QED BY <1>1, <1>2 DEF Births

LEMMA CollectBirths ==
    ASSUME Typed, Births, NEW n \in Nodes, Collect(n)
    PROVE  Births'
  <1>1. /\ failure' = "none" /\ pc[n] = "collect" /\ pc' = [pc EXCEPT ![n] = "execute"]
        /\ UNCHANGED <<todo, closing, tracker, done>>
    BY DEF Collect
  <1>2. /\ pc'[n] = "execute" /\ \A k \in Nodes : k # n => pc'[k] = pc[k]
    BY <1>1 DEF Typed, TypedWorkers
  <1>3. todo[n] = <<>> /\ closing[n] = {}
    BY <1>1 DEF Births, Working
  <1>4. \A k \in Nodes : /\ todo'[k] # <<>> => Working(k)'
                         /\ closing'[k] # {} => pc'[k] = "put"
    BY <1>1, <1>2, <1>3 DEF Births, Working
  <1>5. /\ left \in [Nodes -> Nat] /\ task \in [Nodes -> AllTasks \cup {NoTask}]
    BY DEF Typed, TypedQueues, TypedWorkers
  <1>6. CASE IsInput(n)
    <2>1. /\ left[n] > 0 /\ left' = [left EXCEPT ![n] = @ - 1]
          /\ task' = [task EXCEPT ![n] = Source(n, <<n, left[n]>>)]
      BY <1>6 DEF Collect
    <2>2. /\ left'[n] = left[n] - 1 /\ left[n] \in Nat /\ task'[n].line = <<n, left[n]>>
          /\ left'[n] + 1 = left[n]
          /\ \A k \in Nodes : k # n => left'[k] = left[k] /\ task'[k] = task[k]
      BY <1>5, <2>1 DEF Source
    <2>3. ASSUME NEW k \in Nodes, IsInput(k), task'[k] # NoTask
          PROVE  task'[k].line = <<k, left'[k] + 1>>
      BY <2>2, <2>3 DEF Births
    <2>4. ASSUME NEW l \in DOMAIN tracker \cup done PROVE Born(l)'
      <3>1. Born(l) /\ l[1] \in Nodes /\ l[2] \in Int /\ l = <<l[1], l[2]>>
        <4>1. l \in Lineages  BY DEF Typed, TypedLineages
        <4> QED BY <4>1, LineageIs DEF Births
      <3>2. CASE l[1] = n
        <4>1. left[n] < l[2]  BY <3>1, <3>2 DEF Born
        <4>2. left'[n] < l[2]  BY <2>2, <3>1, <4>1
        <4>3. l # <<n, left[n]>>  BY <2>2, <3>1, <4>1
        <4> QED BY <2>2, <3>2, <4>2, <4>3 DEF Born
      <3>3. CASE l[1] # n
        BY <1>2, <2>2, <3>1, <3>3 DEF Born
      <3> QED BY <3>2, <3>3
    <2> QED BY <1>1, <1>4, <2>3, <2>4 DEF Births
  <1>7. CASE ~ IsInput(n)
    <2>1. left' = left /\ \A k \in Nodes : k # n => task'[k] = task[k]
      BY <1>5, <1>7 DEF Collect
    <2>2. ASSUME NEW l \in DOMAIN tracker \cup done PROVE Born(l)'
      <3>1. l \in Lineages /\ Born(l)
        BY DEF Typed, TypedLineages, Births
      <3>2. l[1] \in Nodes /\ l[1] # n
        BY <1>7, <3>1, LineageIs, SourceIsInput
      <3> QED BY <1>2, <2>1, <3>1, <3>2 DEF Born
    <2>3. ASSUME NEW k \in Nodes, IsInput(k), task'[k] # NoTask
          PROVE  task'[k].line = <<k, left'[k] + 1>>
      BY <1>7, <2>1, <2>3 DEF Births
    <2> QED BY <1>1, <1>4, <2>2, <2>3 DEF Births
  <1> QED BY <1>6, <1>7

LEMMA ExecuteBirths ==
    ASSUME Typed, Births, NEW n \in Nodes, Execute(n)
    PROVE  Births'
  <1>1. /\ failure' = "none" /\ pc[n] = "execute" /\ pc' = [pc EXCEPT ![n] = "route"]
        /\ tracker' = IF IsInput(n) THEN OpenSource(task[n].line) ELSE tracker
        /\ UNCHANGED <<left, task, closing, done>>
        /\ \E outs : todo' = [todo EXCEPT ![n] = outs]
    BY DEF Execute
  <1>2. /\ pc'[n] = "route" /\ \A k \in Nodes : k # n => pc'[k] = pc[k] /\ todo'[k] = todo[k]
    BY <1>1 DEF Typed, TypedWorkers
  <1>3. closing[n] = {}
    BY <1>1 DEF Births
  <1>4. \A k \in Nodes : /\ todo'[k] # <<>> => Working(k)'
                         /\ closing'[k] # {} => pc'[k] = "put"
    BY <1>1, <1>2, <1>3 DEF Births, Working
  <1>5. ASSUME NEW l \in DOMAIN tracker \cup done PROVE Born(l)'
    <2>1. l \in Lineages /\ Born(l)
      BY DEF Typed, TypedLineages, Births
    <2>2. l[1] \in Nodes
      BY <2>1, LineageIs
    <2> QED BY <1>1, <1>2, <2>1, <2>2 DEF Born
  <1>6. ASSUME NEW l \in DOMAIN tracker' \cup done' PROVE Born(l)'
    <2>1. CASE l \in DOMAIN tracker \cup done
      BY <1>5, <2>1
    <2>2. CASE l \notin DOMAIN tracker \cup done
      <3>1. IsInput(n) /\ l = task[n].line
        BY <1>1, <2>2 DEF OpenSource, With
      <3>2. task[n] # NoTask
        BY <1>1 DEF Typed, TypedWorkers
      <3>3. l = <<n, left[n] + 1>> /\ left[n] \in Nat
        BY <3>1, <3>2 DEF Births, Typed, TypedQueues
      <3> QED BY <1>1, <1>2, <3>3 DEF Born
    <2> QED BY <2>1, <2>2
  <1> QED BY <1>1, <1>4, <1>6 DEF Births

LEMMA FinishBirths ==
    ASSUME Typed, Births, NEW n \in Nodes, Finish(n)
    PROVE  Births'
  <1>1. /\ failure' = "none" /\ pc[n] = "route" /\ todo[n] = <<>>
        /\ pc' = [pc EXCEPT ![n] = "collect"] /\ task' = [task EXCEPT ![n] = NoTask]
        /\ UNCHANGED <<left, todo, closing>>
    BY DEF Finish
  <1>2. /\ pc'[n] = "collect" /\ task'[n] = NoTask
        /\ \A k \in Nodes : k # n => pc'[k] = pc[k] /\ task'[k] = task[k]
    BY <1>1 DEF Typed, TypedWorkers
  <1>3. closing[n] = {}
    BY <1>1 DEF Births
  <1>4. NoBirth
    <2>1. CASE UNCHANGED <<tracker, done>>
      BY <2>1 DEF NoBirth
    <2>2. CASE Settle([tracker EXCEPT ![task[n].line].open = 0])
      BY <2>2, SettleIsNoBirth
    <2>3. CASE Settle([tracker EXCEPT ![task[n].line].tasks = @ - 1])
      BY <2>3, SettleIsNoBirth
    <2> QED BY <2>1, <2>2, <2>3 DEF Finish
  <1>5. ASSUME NEW l \in DOMAIN tracker' \cup done' PROVE Born(l)'
    <2>1. l \in DOMAIN tracker \cup done /\ l \in Lineages
      BY <1>4 DEF NoBirth, Typed, TypedLineages
    <2>2. Born(l) /\ l[1] \in Nodes
      BY <2>1, LineageIs DEF Births
    <2> QED BY <1>1, <1>2, <2>2 DEF Born
  <1>6. \A k \in Nodes : /\ todo'[k] # <<>> => Working(k)'
                         /\ closing'[k] # {} => pc'[k] = "put"
                         /\ IsInput(k) /\ task'[k] # NoTask
                              => task'[k].line = <<k, left'[k] + 1>>
    BY <1>1, <1>2, <1>3 DEF Births, Working
  <1> QED BY <1>1, <1>5, <1>6 DEF Births

LEMMA DeliverBirths ==
    ASSUME Typed, Births, NEW n \in Nodes, Deliver(n)
    PROVE  Births'
  <1> DEFINE r == Added(Delivery(n))
  <1>1. /\ Routes(n) /\ Working(n) /\ UNCHANGED <<left, task, todo>>
        /\ \/ r.opened \subseteq DOMAIN tracker
              /\ Proceed(n, r.tasks, r.closed, Opened(tracker, r.opened))
           \/ ~ r.opened \subseteq DOMAIN tracker /\ Fails("lineage")
    BY DeliverIs
  <1>2. /\ pc'[n] \in {"route", "put"} /\ (pc'[n] = "put" <=> ready'[n] # <<>>)
        /\ \A k \in Nodes : k # n => pc'[k] = pc[k] /\ closing'[k] = closing[k]
        /\ failure' = "none" => closing'[n] = IF ready'[n] = <<>> THEN {} ELSE r.closed
        /\ failure' # "none" => closing'[n] = closing[n]
    BY DeliverProceeds
  <1> HIDE DEF r
  <1>3. NoBirth
    <2>1. DOMAIN Opened(tracker, r.opened) = DOMAIN tracker
      BY DEF Opened
    <2> QED BY <1>1, <2>1, ProceedIsNoBirth DEF NoBirth, Fails
  <1>4. failure = "none" /\ pc[n] = "route" /\ closing[n] = {}
    BY <1>1 DEF Routes, Births
  <1>5. Working(n)'
    BY <1>2 DEF Working
  <1>6. closing'[n] # {} => pc'[n] = "put"
    BY <1>2, <1>4
  <1> QED BY <1>1, <1>2, <1>3, <1>4, <1>5, <1>6, RoutesOn

LEMMA AdmitBirths ==
    ASSUME Typed, Births, NEW n \in Nodes, Admit(n)
    PROVE  Births'
  <1>1. /\ failure = "none" /\ pc[n] = "put" /\ Working(n)
        /\ Tail(ready[n]) \in Seq(AllTasks)
        /\ Proceed(n, Tail(ready[n]), closing[n], tracker)
        /\ UNCHANGED <<left, task, todo>>
    BY AdmitIs
  <1>2. closing[n] \in SUBSET Lineages /\ DOMAIN tracker \subseteq Lineages \ done
        /\ tracker = [l \in DOMAIN tracker |-> tracker[l]]
    BY DEF Typed, TypedWorkers, TypedLineages
  <1>3. /\ \A k \in Nodes : k # n => pc'[k] = pc[k] /\ closing'[k] = closing[k]
        /\ pc'[n] = "put" <=> ready'[n] # <<>>
        /\ pc'[n] \in {"route", "put"}
        /\ failure' = "none" => ready'[n] = Tail(ready[n])
              /\ closing'[n] = IF Tail(ready[n]) = <<>> THEN {} ELSE closing[n]
        /\ failure' # "none" => ready'[n] = ready[n] /\ closing'[n] = closing[n]
    BY <1>1, <1>2, ProceedTyped
  <1>4. ready[n] # <<>>
    BY <1>1 DEF Typed, TypedWorkers
  <1>5. NoBirth
    BY <1>1, ProceedIsNoBirth
  <1>6. Working(n)'
    BY <1>3 DEF Working
  <1>7. closing'[n] # {} => pc'[n] = "put"
    BY <1>3, <1>4
  <1> QED BY <1>1, <1>3, <1>5, <1>6, <1>7, RoutesOn

LEMMA OtherBirths ==
    ASSUME Typed, Births, NEW n \in Nodes,
           NextPacket(n) \/ DeliverFails(n) \/ Wait(n)
    PROVE  Births'
  <1>1. /\ UNCHANGED <<left, pc, task, closing, tracker, done>> /\ failure = "none"
        /\ Working(n)
    BY DEF NextPacket, DeliverFails, Wait, routing, Routes, Working
  <1>2. \A k \in Nodes : k # n => todo'[k] = todo[k]
    BY DEF NextPacket, DeliverFails, Wait, routing, Typed, TypedWorkers
  <1>3. closing[n] # {} => pc[n] = "put"
    BY DEF Births
  <1> QED BY <1>1, <1>2, <1>3, RoutesOn DEF NoBirth, Working

-----------------------------------------------------------------------------
(* The ledger.                                                             *)

Runs(n, l) == task[n].line = l /\ ~ IsInput(n)
Puts(n, l) == pc[n] = "put" /\ Head(ready[n]).line = l
One(P) == IF P THEN 1 ELSE 0

Counts == [open : {0, 1}, tasks : Nat, joins : Nat]

LEMMA CountsTyped ==
    ASSUME queue \in [Nodes -> Seq(AllTasks)], NEW l
    PROVE  CountsOf(l) \in Counts
  <1>1. Cardinality(Queued(l)) \in Nat
    <2>1. Queued(l) = QueuedIn(queue, l)
      BY DEF Queued, QueuedIn
    <2> QED BY <2>1, QueuedFinite
  <1>2. /\ Cardinality(Runners(l)) \in Nat /\ Cardinality(Putters(l)) \in Nat
        /\ Cardinality(Waiters(l)) \in Nat /\ Cardinality(Closers(l)) \in Nat
    <2>1. /\ Runners(l) \in SUBSET Nodes /\ Putters(l) \in SUBSET Nodes
          /\ Waiters(l) \in SUBSET Nodes /\ Closers(l) \in SUBSET Nodes
      BY DEF Runners, Putters, Waiters, Closers
    <2> QED BY <2>1, NodeSets
  <1> QED BY <1>1, <1>2 DEF CountsOf, Counts

LEMMA CountsTypedNext ==
    ASSUME (queue \in [Nodes -> Seq(AllTasks)])', NEW l
    PROVE  CountsOf(l)' \in Counts
  <1>1. Cardinality(Queued(l)') \in Nat
    <2>1. Queued(l)' = QueuedIn(queue', l)
      BY DEF Queued, QueuedIn
    <2> QED BY <2>1, QueuedFinite
  <1>2. /\ Cardinality(Runners(l)') \in Nat /\ Cardinality(Putters(l)') \in Nat
        /\ Cardinality(Waiters(l)') \in Nat /\ Cardinality(Closers(l)') \in Nat
    <2>1. /\ Runners(l)' \in SUBSET Nodes /\ Putters(l)' \in SUBSET Nodes
          /\ Waiters(l)' \in SUBSET Nodes /\ Closers(l)' \in SUBSET Nodes
      BY DEF Runners, Putters, Waiters, Closers
    <2> QED BY <2>1, NodeSets
  <1> QED BY <1>1, <1>2 DEF CountsOf, Counts

(* A step in which only worker n and the groups of m change.               *)
LEMMA CountsMove ==
    ASSUME NEW n \in Nodes, NEW m \in Nodes, NEW l,
           \A k \in Nodes : k # n => /\ task'[k] = task[k] /\ pc'[k] = pc[k]
                                     /\ ready'[k] = ready[k] /\ closing'[k] = closing[k],
           \A k \in Nodes : k # m => groups'[k] = groups[k]
    PROVE  /\ Cardinality(Runners(l)') + One(Runs(n, l))
                = Cardinality(Runners(l)) + One(Runs(n, l)')
           /\ Cardinality(Putters(l)') + One(Puts(n, l))
                = Cardinality(Putters(l)) + One(Puts(n, l)')
           /\ Cardinality(Waiters(l)') + One(l \in DOMAIN groups[m])
                = Cardinality(Waiters(l)) + One(l \in DOMAIN groups'[m])
           /\ Cardinality(Closers(l)') + One(l \in closing[n])
                = Cardinality(Closers(l)) + One(l \in closing'[n])
  <1>1. ASSUME NEW S \in SUBSET Nodes, NEW T, NEW x, S \ {x} = T \ {x}
        PROVE  Cardinality(T) + One(x \in S) = Cardinality(S) + One(x \in T)
    <2>1. IsFiniteSet(S)  BY NodeSets
    <2>2. Cardinality(T) + In(x, S) = Cardinality(S) + In(x, T)
      BY <1>1, <2>1, Toggle
    <2> QED BY <2>2 DEF In, One
  <1>2. /\ Runners(l) \in SUBSET Nodes /\ Putters(l) \in SUBSET Nodes
        /\ Waiters(l) \in SUBSET Nodes /\ Closers(l) \in SUBSET Nodes
    BY DEF Runners, Putters, Waiters, Closers
  <1>3. Cardinality(Runners(l)') + One(n \in Runners(l))
                = Cardinality(Runners(l)) + One(n \in Runners(l)')
    <2>1. Runners(l) \ {n} = Runners(l)' \ {n}
      BY DEF Runners
    <2> QED BY <1>1, <1>2, <2>1
  <1>4. Cardinality(Putters(l)') + One(n \in Putters(l))
                = Cardinality(Putters(l)) + One(n \in Putters(l)')
    <2>1. Putters(l) \ {n} = Putters(l)' \ {n}
      BY DEF Putters
    <2> QED BY <1>1, <1>2, <2>1
  <1>5. Cardinality(Waiters(l)') + One(m \in Waiters(l))
                = Cardinality(Waiters(l)) + One(m \in Waiters(l)')
    <2>1. Waiters(l) \ {m} = Waiters(l)' \ {m}
      BY DEF Waiters
    <2> QED BY <1>1, <1>2, <2>1
  <1>6. Cardinality(Closers(l)') + One(n \in Closers(l))
                = Cardinality(Closers(l)) + One(n \in Closers(l)')
    <2>1. Closers(l) \ {n} = Closers(l)' \ {n}
      BY DEF Closers
    <2> QED BY <1>1, <1>2, <2>1
  <1>7. /\ (n \in Runners(l)) = Runs(n, l) /\ (n \in Runners(l)') = Runs(n, l)'
        /\ (n \in Putters(l)) = Puts(n, l) /\ (n \in Putters(l)') = Puts(n, l)'
        /\ (m \in Waiters(l)) = (l \in DOMAIN groups[m])
        /\ (m \in Waiters(l)') = (l \in DOMAIN groups'[m])
        /\ (n \in Closers(l)) = (l \in closing[n]) /\ (n \in Closers(l)') = (l \in closing'[n])
    BY DEF Runners, Putters, Waiters, Closers, Runs, Puts
  <1> QED BY <1>3, <1>4, <1>5, <1>6, <1>7

(* Idle lineages complete, and the rest of the ledger is kept.             *)
LEMMA SettleIs ==
    ASSUME NEW t, t = [l \in DOMAIN t |-> t[l]], DOMAIN t \subseteq Lineages,
           \A l \in Lineages : CountsOf(l)' \in Counts,
           \A l \in Lineages :
              IF l \in DOMAIN t THEN t[l] = CountsOf(l)' ELSE Idle(CountsOf(l)'),
           Settle(t)
    PROVE  Counted' /\ Ledger'
  <1> DEFINE idle == {l \in DOMAIN t : Idle(t[l])}
  <1>1. tracker' = Without(t, idle)
    BY DEF Settle
  <1>2. /\ DOMAIN tracker' = DOMAIN t \ idle
        /\ \A l \in DOMAIN t \ idle : tracker'[l] = t[l]
        /\ tracker' = [l \in DOMAIN tracker' |-> tracker'[l]]
    BY <1>1 DEF Without
  <1>3. Balanced(tracker)'
    <2> SUFFICES ASSUME NEW l \in Lineages
                 PROVE  IF l \in DOMAIN tracker' THEN tracker'[l] = CountsOf(l)'
                        ELSE Idle(CountsOf(l)')
      BY DEF Balanced
    <2> QED BY <1>2
  <1>4. \A l \in DOMAIN tracker' : tracker'[l] \in Counts /\ ~ Idle(tracker'[l])
    BY <1>2
  <1> QED BY <1>2, <1>3, <1>4 DEF Counted, Ledger, Counts

(* The counts after a step of worker n that changes the groups of m.       *)
Moved(n, m, l, c, queued) ==
    /\ c.open = One(Opening(l)')
    /\ c.tasks + One(Runs(n, l)) + One(Puts(n, l))
         = CountsOf(l).tasks + queued + One(Runs(n, l)') + One(Puts(n, l)')
    /\ c.joins + One(l \in DOMAIN groups[m]) + One(l \in closing[n])
         = CountsOf(l).joins + One(l \in DOMAIN groups'[m]) + One(l \in closing'[n])

LEMMA CountsMoved ==
    ASSUME Typed, Typed', NEW n \in Nodes, NEW m \in Nodes, NEW l, NEW queued \in Int,
           \A k \in Nodes : k # n => /\ task'[k] = task[k] /\ pc'[k] = pc[k]
                                     /\ ready'[k] = ready[k] /\ closing'[k] = closing[k],
           \A k \in Nodes : k # m => groups'[k] = groups[k],
           Cardinality(Queued(l)') = Cardinality(Queued(l)) + queued
    PROVE  /\ CountsOf(l) \in Counts /\ CountsOf(l)' \in Counts
           /\ Moved(n, m, l, CountsOf(l)', queued)
  <1>1. CountsOf(l) \in Counts /\ CountsOf(l)' \in Counts
    BY CountsTyped, CountsTypedNext DEF Typed, TypedQueues
  <1>2. /\ Cardinality(Queued(l)) \in Nat /\ Cardinality(Queued(l)') \in Nat
    <2>1. Queued(l) = QueuedIn(queue, l) /\ Queued(l)' = QueuedIn(queue', l)
      BY DEF Queued, QueuedIn
    <2> QED BY <2>1, QueuedFinite DEF Typed, TypedQueues
  <1>3. /\ Cardinality(Runners(l)') \in Nat /\ Cardinality(Putters(l)') \in Nat
        /\ Cardinality(Waiters(l)') \in Nat /\ Cardinality(Closers(l)') \in Nat
        /\ Cardinality(Runners(l)) \in Nat /\ Cardinality(Putters(l)) \in Nat
        /\ Cardinality(Waiters(l)) \in Nat /\ Cardinality(Closers(l)) \in Nat
    <2>1. /\ Runners(l)' \in SUBSET Nodes /\ Putters(l)' \in SUBSET Nodes
          /\ Waiters(l)' \in SUBSET Nodes /\ Closers(l)' \in SUBSET Nodes
          /\ Runners(l) \in SUBSET Nodes /\ Putters(l) \in SUBSET Nodes
          /\ Waiters(l) \in SUBSET Nodes /\ Closers(l) \in SUBSET Nodes
      BY DEF Runners, Putters, Waiters, Closers
    <2> QED BY <2>1, NodeSets
  <1>4. /\ Cardinality(Runners(l)') + One(Runs(n, l))
                = Cardinality(Runners(l)) + One(Runs(n, l)')
        /\ Cardinality(Putters(l)') + One(Puts(n, l))
                = Cardinality(Putters(l)) + One(Puts(n, l)')
        /\ Cardinality(Waiters(l)') + One(l \in DOMAIN groups[m])
                = Cardinality(Waiters(l)) + One(l \in DOMAIN groups'[m])
        /\ Cardinality(Closers(l)') + One(l \in closing[n])
                = Cardinality(Closers(l)) + One(l \in closing'[n])
    BY CountsMove
  <1>5. /\ One(Runs(n, l)) \in Nat /\ One(Runs(n, l)') \in Nat
        /\ One(Puts(n, l)) \in Nat /\ One(Puts(n, l)') \in Nat
        /\ One(l \in DOMAIN groups[m]) \in Nat /\ One(l \in DOMAIN groups'[m]) \in Nat
        /\ One(l \in closing[n]) \in Nat /\ One(l \in closing'[n]) \in Nat
    BY DEF One
  <1>6. /\ CountsOf(l)'.open = One(Opening(l)')
        /\ CountsOf(l).tasks = Cardinality(Queued(l)) + Cardinality(Runners(l))
                               + Cardinality(Putters(l))
        /\ CountsOf(l).joins = Cardinality(Waiters(l)) + Cardinality(Closers(l))
        /\ CountsOf(l)'.tasks = Cardinality(Queued(l)') + Cardinality(Runners(l)')
                               + Cardinality(Putters(l)')
        /\ CountsOf(l)'.joins = Cardinality(Waiters(l)') + Cardinality(Closers(l)')
    BY DEF CountsOf, One
  <1>7. CountsOf(l)'.tasks + One(Runs(n, l)) + One(Puts(n, l))
         = CountsOf(l).tasks + queued + One(Runs(n, l)') + One(Puts(n, l)')
    <2> DEFINE r == Cardinality(Runners(l))
               r1 == Cardinality(Runners(l)')
               p == Cardinality(Putters(l))
               p1 == Cardinality(Putters(l)')
               q == Cardinality(Queued(l))
               q1 == Cardinality(Queued(l)')
               a == One(Runs(n, l))
               a1 == One(Runs(n, l)')
               b == One(Puts(n, l))
               b1 == One(Puts(n, l)')
               s == CountsOf(l).tasks
               s1 == CountsOf(l)'.tasks
    <2>1. /\ r1 + a = r + a1 /\ p1 + b = p + b1 /\ q1 = q + queued
          /\ s = q + r + p /\ s1 = q1 + r1 + p1
      BY <1>4, <1>6
    <2>2. /\ r \in Nat /\ r1 \in Nat /\ p \in Nat /\ p1 \in Nat /\ q \in Nat /\ q1 \in Nat
          /\ a \in Nat /\ a1 \in Nat /\ b \in Nat /\ b1 \in Nat
      BY <1>2, <1>3, <1>5
    <2> HIDE DEF r, r1, p, p1, q, q1, a, a1, b, b1, s, s1
    <2>3. s1 + a + b = s + queued + a1 + b1
      BY <2>1, <2>2
    <2> QED BY <2>3 DEF a, a1, b, b1, s, s1
  <1>8. CountsOf(l)'.joins + One(l \in DOMAIN groups[m]) + One(l \in closing[n])
         = CountsOf(l).joins + One(l \in DOMAIN groups'[m]) + One(l \in closing'[n])
    BY <1>3, <1>4, <1>5, <1>6
  <1> QED BY <1>1, <1>6, <1>7, <1>8 DEF Moved

(* A step that changes neither the tracker nor the counts.                 *)
LEMMA LedgerStays ==
    ASSUME Counted, Ledger, failure = "none", tracker' = tracker,
           \A l \in Lineages : CountsOf(l)' = CountsOf(l)
    PROVE  Counted' /\ Ledger'
  BY DEF Counted, Ledger, Balanced

LEMMA SameCounts ==
    ASSUME NEW l, CountsOf(l) \in Counts, CountsOf(l)' \in Counts,
           CountsOf(l)'.open = CountsOf(l).open, CountsOf(l)'.tasks = CountsOf(l).tasks,
           CountsOf(l)'.joins = CountsOf(l).joins
    PROVE  CountsOf(l)' = CountsOf(l)
  BY DEF Counts

LEMMA CollectLedger ==
    ASSUME Typed, Typed', Births, Counted, Ledger, NEW n \in Nodes, Collect(n)
    PROVE  Counted' /\ Ledger'
  <1>1. /\ failure = "none" /\ pc[n] = "collect" /\ pc' = [pc EXCEPT ![n] = "execute"]
        /\ UNCHANGED <<ready, closing, groups, tracker>>
        /\ task[n] = NoTask
    BY DEF Collect, joins, Typed, TypedWorkers
  <1>2. /\ pc'[n] = "execute"
        /\ \A k \in Nodes : k # n => pc'[k] = pc[k] /\ task'[k] = task[k]
    BY <1>1 DEF Collect, Typed, TypedWorkers
  <1>3. ASSUME NEW l \in Lineages PROVE CountsOf(l)' = CountsOf(l)
    <2>1. task[n].line # l
      BY <1>1, LineOf
    <2>2. Opening(l)' = Opening(l)
      <3>1. l[1] = n => ~ Opening(l) /\ ~ Opening(l)'
        BY <1>1, <1>2 DEF Opening, Working
      <3>2. l[1] # n => (Opening(l)' <=> Opening(l))
        BY <1>2, LineageIs DEF Opening, Working
      <3>3. Opening(l) \in BOOLEAN /\ Opening(l)' \in BOOLEAN
        BY DEF Opening, Working
      <3> QED BY <3>1, <3>2, <3>3
    <2>3. CASE IsInput(n)
      <3>1. Queued(l)' = Queued(l)
        BY <2>3 DEF Collect, Queued
      <3>2. Cardinality(Queued(l)) \in Nat
        <4>1. Queued(l) = QueuedIn(queue, l)
          BY DEF Queued, QueuedIn
        <4> QED BY <4>1, QueuedFinite DEF Typed, TypedQueues
      <3>3. Cardinality(Queued(l)') = Cardinality(Queued(l)) + 0
        BY <3>1, <3>2
      <3>4. /\ CountsOf(l) \in Counts /\ CountsOf(l)' \in Counts
            /\ Moved(n, n, l, CountsOf(l)', 0)
        BY <1>1, <1>2, <3>3, CountsMoved
      <3>5. ~ Runs(n, l) /\ ~ Runs(n, l)' /\ ~ Puts(n, l) /\ ~ Puts(n, l)'
        BY <1>1, <1>2, <2>3 DEF Runs, Puts
      <3>6. CountsOf(l)'.tasks = CountsOf(l).tasks
        BY <3>4, <3>5 DEF Moved, One, Counts
      <3>7. CountsOf(l)'.joins = CountsOf(l).joins
        BY <1>1, <3>4 DEF Moved, One, Counts
      <3>8. CountsOf(l)'.open = CountsOf(l).open
        BY <2>2 DEF CountsOf
      <3> QED BY <3>4, <3>6, <3>7, <3>8, SameCounts
    <2>4. CASE ~ IsInput(n)
      <3> DEFINE x == IF Head(queue[n]).line = l THEN 1 ELSE 0
      <3>1. /\ queue[n] # <<>> /\ queue' = [queue EXCEPT ![n] = Tail(@)]
            /\ task' = [task EXCEPT ![n] = Head(queue[n])]
        BY <2>4 DEF Collect
      <3>2. /\ Cardinality(QueuedIn(queue', l)) = Cardinality(QueuedIn(queue, l)) - x
            /\ Cardinality(QueuedIn(queue, l)) \in Nat
        BY <3>1, QueuedPop, QueuedFinite DEF Typed, TypedQueues
      <3>3. Queued(l) = QueuedIn(queue, l) /\ Queued(l)' = QueuedIn(queue', l)
        BY DEF Queued, QueuedIn
      <3>4. 0 - x \in Int /\ Cardinality(Queued(l)') = Cardinality(Queued(l)) + (0 - x)
        BY <3>2, <3>3
      <3>5. /\ CountsOf(l) \in Counts /\ CountsOf(l)' \in Counts
            /\ Moved(n, n, l, CountsOf(l)', 0 - x)
        BY <1>1, <1>2, <3>4, CountsMoved
      <3>6. task'[n] = Head(queue[n])
        BY <3>1 DEF Typed, TypedWorkers
      <3>7. ~ Runs(n, l) /\ One(Runs(n, l)') = x /\ ~ Puts(n, l) /\ ~ Puts(n, l)'
        BY <1>1, <1>2, <2>1, <2>4, <3>6 DEF Runs, Puts, One
      <3>8. CountsOf(l)'.tasks = CountsOf(l).tasks
        <4>1. One(Runs(n, l)) = 0 /\ One(Puts(n, l)) = 0 /\ One(Puts(n, l)') = 0
          BY <3>7 DEF One
        <4>2. CountsOf(l)'.tasks + 0 + 0 = CountsOf(l).tasks + (0 - x) + x + 0
          BY <3>5, <3>7, <4>1 DEF Moved
        <4> QED BY <3>5, <4>2 DEF Counts
      <3>9. CountsOf(l)'.joins = CountsOf(l).joins
        BY <1>1, <3>5 DEF Moved, One, Counts
      <3>10. CountsOf(l)'.open = CountsOf(l).open
        BY <2>2 DEF CountsOf
      <3> QED BY <3>5, <3>8, <3>9, <3>10, SameCounts
    <2> QED BY <2>3, <2>4
  <1> QED BY <1>1, <1>3, LedgerStays

LEMMA LedgerIs ==
    ASSUME tracker' = [l \in DOMAIN tracker' |-> tracker'[l]], DOMAIN tracker' \subseteq Lineages,
           \A l \in Lineages :
              /\ CountsOf(l)' \in Counts
              /\ IF l \in DOMAIN tracker' THEN tracker'[l] = CountsOf(l)' /\ ~ Idle(tracker'[l])
                 ELSE Idle(CountsOf(l)')
    PROVE  Counted' /\ Ledger'
  <1>1. Balanced(tracker)'
    BY DEF Balanced
  <1>2. \A l \in DOMAIN tracker' : tracker'[l] \in Counts
    OBVIOUS
  <1> QED BY <1>1, <1>2 DEF Counted, Ledger, Counts

LEMMA LedgerLine ==
    ASSUME Typed, Ledger, failure = "none", NEW l \in Lineages
    PROVE  IF l \in DOMAIN tracker THEN tracker[l] = CountsOf(l) /\ ~ Idle(tracker[l])
           ELSE Idle(CountsOf(l))
  BY DEF Ledger, Balanced

LEMMA QueueStays ==
    ASSUME Typed, queue' = queue, NEW l
    PROVE  Cardinality(Queued(l)') = Cardinality(Queued(l)) + 0
  <1>1. Queued(l)' = Queued(l)
    BY DEF Queued
  <1>2. Cardinality(Queued(l)) \in Nat
    <2>1. Queued(l) = QueuedIn(queue, l)
      BY DEF Queued, QueuedIn
    <2> QED BY <2>1, QueuedFinite DEF Typed, TypedQueues
  <1> QED BY <1>1, <1>2

LEMMA OtherLedger ==
    ASSUME Typed, Typed', Counted, Ledger, NEW n \in Nodes,
           NextPacket(n) \/ DeliverFails(n) \/ Wait(n)
    PROVE  Counted' /\ Ledger'
  <1>1. /\ failure = "none"
        /\ UNCHANGED <<queue, task, pc, ready, closing, groups, tracker>>
    BY DEF NextPacket, DeliverFails, Wait, routing, joins, Routes
  <1>2. \A l \in Lineages : CountsOf(l)' = CountsOf(l)
    BY <1>1 DEF CountsOf, Opening, Working, Queued, Runners, Putters, Waiters, Closers
  <1> QED BY <1>1, <1>2, LedgerStays

LEMMA ExecuteLedger ==
    ASSUME Typed, Typed', Births, Counted, Ledger, NEW n \in Nodes, Execute(n)
    PROVE  Counted' /\ Ledger'
  <1>1. /\ failure = "none" /\ pc[n] = "execute" /\ pc' = [pc EXCEPT ![n] = "route"]
        /\ tracker' = IF IsInput(n) THEN OpenSource(task[n].line) ELSE tracker
        /\ UNCHANGED <<queue, task, ready, closing, groups>>
    BY DEF Execute, joins
  <1>2. /\ pc'[n] = "route" /\ \A k \in Nodes : k # n => pc'[k] = pc[k]
    BY <1>1 DEF Typed, TypedWorkers
  <1>3. ASSUME NEW l \in Lineages
        PROVE  /\ CountsOf(l) \in Counts /\ CountsOf(l)' \in Counts
               /\ CountsOf(l)'.tasks = CountsOf(l).tasks
               /\ CountsOf(l)'.joins = CountsOf(l).joins
               /\ task[n].line # l => CountsOf(l)'.open = CountsOf(l).open
               /\ ~ IsInput(n) => CountsOf(l)'.open = CountsOf(l).open
               /\ task[n].line = l /\ IsInput(n) => CountsOf(l)'.open = 1
    <2>1. Cardinality(Queued(l)') = Cardinality(Queued(l)) + 0
      BY <1>1, QueueStays
    <2>2. /\ CountsOf(l) \in Counts /\ CountsOf(l)' \in Counts
          /\ Moved(n, n, l, CountsOf(l)', 0)
      BY <1>1, <1>2, <2>1, CountsMoved
    <2>3. /\ Runs(n, l)' = Runs(n, l) /\ ~ Puts(n, l) /\ ~ Puts(n, l)'
      BY <1>1, <1>2 DEF Runs, Puts
    <2>4. CountsOf(l)'.tasks = CountsOf(l).tasks
      <3>1. One(Puts(n, l)) = 0 /\ One(Puts(n, l)') = 0 /\ One(Runs(n, l)') = One(Runs(n, l))
            /\ One(Runs(n, l)) \in Nat
        BY <2>3 DEF One
      <3> QED BY <2>2, <3>1 DEF Moved, Counts
    <2>5. CountsOf(l)'.joins = CountsOf(l).joins
      BY <1>1, <2>2 DEF Moved, One, Counts
    <2>6. task[n].line # l \/ l[1] # n => CountsOf(l)'.open = CountsOf(l).open
      <3>1. ASSUME task[n].line # l \/ l[1] # n PROVE Opening(l)' <=> Opening(l)
        BY <1>1, <1>2, <3>1, LineageIs DEF Opening, Working
      <3> QED BY <3>1 DEF CountsOf
    <2>7. ASSUME task[n].line = l, IsInput(n) PROVE CountsOf(l)'.open = 1
      <3>1. l[1] = n
        BY <1>1, <2>7 DEF Births, Typed, TypedWorkers
      <3>2. Opening(l)'
        BY <1>1, <1>2, <2>7, <3>1 DEF Opening, Working
      <3> QED BY <3>2 DEF CountsOf
    <2> QED BY <2>2, <2>4, <2>5, <2>6, <2>7, SourceIsInput
  <1>4. CASE ~ IsInput(n)
    <2>1. \A l \in Lineages : CountsOf(l)' = CountsOf(l)
      BY <1>3, <1>4, SameCounts
    <2> QED BY <1>1, <1>4, <2>1, LedgerStays
  <1>5. CASE IsInput(n)
    <2> DEFINE s == task[n].line
    <2>1. task[n] # NoTask /\ s \in Lineages
      BY <1>1, LineOf DEF Typed, TypedWorkers
    <2>2. s = <<n, left[n] + 1>> /\ s \notin DOMAIN tracker
      BY <1>1, <1>5, <2>1 DEF Births, Born
    <2>3. Idle(CountsOf(s))
      BY <1>1, <2>1, <2>2, LedgerLine
    <2>4. tracker' = With(tracker, s, [open |-> 1, tasks |-> 0, joins |-> 0])
      BY <1>1, <1>5 DEF OpenSource
    <2>5. /\ DOMAIN tracker' = DOMAIN tracker \cup {s}
          /\ tracker'[s] = [open |-> 1, tasks |-> 0, joins |-> 0]
          /\ \A l \in DOMAIN tracker : l # s => tracker'[l] = tracker[l]
          /\ tracker' = [l \in DOMAIN tracker' |-> tracker'[l]]
      <3> HIDE DEF s
      <3> QED BY <2>4 DEF With
    <2>6. \A l \in Lineages :
              IF l \in DOMAIN tracker' THEN tracker'[l] = CountsOf(l)' /\ ~ Idle(tracker'[l])
              ELSE Idle(CountsOf(l)')
      <3> TAKE l \in Lineages
      <3>1. CASE l = s
        <4>1. CountsOf(l)'.open = 1 /\ CountsOf(l)'.tasks = 0 /\ CountsOf(l)'.joins = 0
          BY <1>3, <1>5, <2>3, <3>1 DEF Idle
        <4>2. CountsOf(l)' = [open |-> 1, tasks |-> 0, joins |-> 0]
          BY <1>3, <4>1 DEF Counts
        <4> HIDE DEF s
        <4> QED BY <2>5, <3>1, <4>2 DEF Idle
      <3>2. CASE l # s
        <4>1. CountsOf(l)' = CountsOf(l)
          BY <1>3, <3>2, SameCounts
        <4> HIDE DEF s
        <4> QED BY <1>1, <2>5, <3>2, <4>1, LedgerLine
      <3> QED BY <3>1, <3>2
    <2> HIDE DEF s
    <2>7. DOMAIN tracker' \subseteq Lineages
      BY <2>1, <2>5 DEF Typed, TypedLineages
    <2> QED BY <1>3, <2>5, <2>6, <2>7, LedgerIs
  <1> QED BY <1>4, <1>5

LEMMA FinishLedger ==
    ASSUME Typed, Typed', Births, Counted, Ledger, NEW n \in Nodes, Finish(n)
    PROVE  Counted' /\ Ledger'
  <1> DEFINE s == task[n].line
  <1>1. /\ failure = "none" /\ pc[n] = "route" /\ pc' = [pc EXCEPT ![n] = "collect"]
        /\ task' = [task EXCEPT ![n] = NoTask]
        /\ UNCHANGED <<queue, ready, closing, groups>>
    BY DEF Finish, joins
  <1>2. /\ pc'[n] = "collect" /\ task'[n] = NoTask
        /\ \A k \in Nodes : k # n => pc'[k] = pc[k] /\ task'[k] = task[k]
    BY <1>1 DEF Typed, TypedWorkers
  <1>3. s \in Lineages /\ task[n] # NoTask
    BY <1>1, LineOf DEF Typed, TypedWorkers
  <1>4. IsInput(n) <=> s[1] = n
    <2>1. IsInput(n) => s[1] = n
      BY <1>3 DEF Births
    <2> QED BY <1>3, <2>1, SourceIsInput
  <1> HIDE DEF s
  <1>5. ASSUME NEW l \in Lineages
        PROVE  /\ CountsOf(l) \in Counts /\ CountsOf(l)' \in Counts
               /\ CountsOf(l)'.tasks + One(l = s /\ ~ IsInput(n)) = CountsOf(l).tasks
               /\ CountsOf(l)'.joins = CountsOf(l).joins
               /\ ~ (l = s /\ IsInput(n)) => CountsOf(l)'.open = CountsOf(l).open
               /\ l = s /\ IsInput(n) => CountsOf(l).open = 1 /\ CountsOf(l)'.open = 0
    <2>1. Cardinality(Queued(l)') = Cardinality(Queued(l)) + 0
      BY <1>1, QueueStays
    <2>2. /\ CountsOf(l) \in Counts /\ CountsOf(l)' \in Counts
          /\ Moved(n, n, l, CountsOf(l)', 0)
      BY <1>1, <1>2, <2>1, CountsMoved
    <2>3. /\ ~ Runs(n, l)' /\ ~ Puts(n, l) /\ ~ Puts(n, l)'
          /\ Runs(n, l) <=> (l = s /\ ~ IsInput(n))
      BY <1>1, <1>2, LineOf DEF Runs, Puts, s
    <2>4. CountsOf(l)'.tasks + One(l = s /\ ~ IsInput(n)) = CountsOf(l).tasks
      <3>1. One(Puts(n, l)) = 0 /\ One(Puts(n, l)') = 0 /\ One(Runs(n, l)') = 0
            /\ One(Runs(n, l)) = One(l = s /\ ~ IsInput(n)) /\ One(Runs(n, l)) \in Nat
        BY <2>3 DEF One
      <3> HIDE DEF One
      <3> QED BY <2>2, <3>1 DEF Moved, Counts
    <2>5. CountsOf(l)'.joins = CountsOf(l).joins
      BY <1>1, <2>2 DEF Moved, One, Counts
    <2>6. ASSUME ~ (l = s /\ IsInput(n)) PROVE Opening(l)' <=> Opening(l)
      <3>1. CASE l[1] # n
        BY <1>2, <3>1, LineageIs DEF Opening, Working
      <3>2. CASE l[1] = n
        <4>1. l # s  BY <2>6, <3>2, SourceIsInput
        <4> QED BY <1>2, <3>2, <4>1 DEF Opening, Working, s
      <3> QED BY <3>1, <3>2
    <2>7. l = s /\ IsInput(n) => Opening(l) /\ ~ Opening(l)'
      BY <1>1, <1>2, <1>4 DEF Opening, Working, s
    <2> QED BY <2>2, <2>4, <2>5, <2>6, <2>7 DEF CountsOf
  <1>6. s \in DOMAIN tracker /\ tracker[s] = CountsOf(s)
    <2>1. ~ Idle(CountsOf(s))
      BY <1>3, <1>5 DEF Idle, Counts, One
    <2> QED BY <1>1, <1>3, <2>1, LedgerLine
  <1>7. PICK u : /\ Settle(u) /\ DOMAIN u = DOMAIN tracker
                 /\ u = [l \in DOMAIN u |-> u[l]]
                 /\ \A l \in DOMAIN u : l # s => u[l] = tracker[l]
                 /\ \A l \in Lineages : l = s => u[l] = CountsOf(l)'
    <2>1. CASE IsInput(n)
      <3> DEFINE u == [tracker EXCEPT ![s].open = 0]
      <3>1. Settle(u)
        BY <1>6, <2>1 DEF Finish, Tracked, s
      <3>2. u[s] = [tracker[s] EXCEPT !.open = 0]
        BY <1>6
      <3>3. ASSUME NEW l \in Lineages, l = s PROVE u[l] = CountsOf(l)'
        <4>1. u[l] = [CountsOf(l) EXCEPT !.open = 0]
          BY <1>6, <3>2, <3>3
        <4>2. CountsOf(l)'.tasks + 0 = CountsOf(l).tasks
          BY <1>5, <2>1 DEF One
        <4>3. CountsOf(l)'.joins = CountsOf(l).joins /\ CountsOf(l)'.open = 0
          BY <1>5, <2>1, <3>3
        <4> HIDE DEF u
        <4> QED BY <1>5, <4>1, <4>2, <4>3 DEF Counts
      <3> QED BY <3>1, <3>3
    <2>2. CASE ~ IsInput(n)
      <3> DEFINE u == [tracker EXCEPT ![s].tasks = @ - 1]
      <3>1. Settle(u)
        BY <1>6, <2>2 DEF Finish, Tracked, s
      <3>2. u[s] = [tracker[s] EXCEPT !.tasks = @ - 1]
        BY <1>6
      <3>3. ASSUME NEW l \in Lineages, l = s PROVE u[l] = CountsOf(l)'
        <4>1. u[l] = [CountsOf(l) EXCEPT !.tasks = @ - 1]
          BY <1>6, <3>2, <3>3
        <4>2. CountsOf(l)'.tasks + 1 = CountsOf(l).tasks
          BY <1>5, <2>2, <3>3 DEF One
        <4>3. CountsOf(l)'.joins = CountsOf(l).joins /\ CountsOf(l)'.open = CountsOf(l).open
          BY <1>5, <2>2
        <4>4. CountsOf(l)'.tasks = CountsOf(l).tasks - 1
          BY <1>5, <4>2 DEF Counts
        <4> HIDE DEF u
        <4> QED BY <1>5, <4>1, <4>3, <4>4 DEF Counts
      <3> QED BY <3>1, <3>3
    <2> QED BY <2>1, <2>2
  <1>8. \A l \in Lineages : l # s => CountsOf(l)' = CountsOf(l)
    <2> TAKE l \in Lineages
    <2> HAVE l # s
    <2>1. CountsOf(l)'.tasks + 0 = CountsOf(l).tasks
      BY <1>5 DEF One
    <2>2. CountsOf(l)'.tasks = CountsOf(l).tasks
      BY <1>5, <2>1 DEF Counts
    <2> QED BY <1>5, <2>2, SameCounts
  <1>9. \A l \in Lineages :
          IF l \in DOMAIN u THEN u[l] = CountsOf(l)' ELSE Idle(CountsOf(l)')
    <2> TAKE l \in Lineages
    <2>1. CASE l = s
      BY <1>6, <1>7, <2>1
    <2>2. CASE l # s
      BY <1>1, <1>7, <1>8, <2>2, LedgerLine
    <2> QED BY <2>1, <2>2
  <1>10. DOMAIN u \subseteq Lineages
    BY <1>7 DEF Typed, TypedLineages
  <1> QED BY <1>5, <1>7, <1>9, <1>10, SettleIs

(* What Proceed does to the ledger, when the counts move with it.          *)
Grows(l, ts, closed, opened) ==
    /\ CountsOf(l)'.open = CountsOf(l).open
    /\ CountsOf(l)'.tasks = CountsOf(l).tasks + One(ts # <<>> /\ Head(ts).line = l)
    /\ CountsOf(l)'.joins + One(ts = <<>> /\ l \in closed)
         = CountsOf(l).joins + One(l \in opened)

LEMMA ProceedLedger ==
    ASSUME Typed, Typed', Counted, Ledger, failure = "none", NEW n \in Nodes,
           NEW ts, NEW closed, NEW opened, opened \subseteq DOMAIN tracker,
           NEW t, DOMAIN t = DOMAIN tracker, t = [l \in DOMAIN t |-> t[l]],
           \A l \in DOMAIN tracker :
              t[l] = [open |-> tracker[l].open, tasks |-> tracker[l].tasks,
                      joins |-> tracker[l].joins + One(l \in opened)],
           Proceed(n, ts, closed, t),
           \A l \in Lineages : /\ CountsOf(l) \in Counts /\ CountsOf(l)' \in Counts
                               /\ failure' = "none" => Grows(l, ts, closed, opened)
    PROVE  Counted' /\ Ledger'
  <1>1. \A l \in Lineages :
           IF l \in DOMAIN tracker THEN tracker[l] = CountsOf(l) /\ ~ Idle(tracker[l])
           ELSE Idle(CountsOf(l)) /\ l \notin opened
    BY LedgerLine
  <1>2. \A l \in Lineages : l \in DOMAIN tracker =>
           /\ t[l].open = CountsOf(l).open /\ t[l].tasks = CountsOf(l).tasks
           /\ t[l].joins = CountsOf(l).joins + One(l \in opened)
           /\ t[l] = [open |-> t[l].open, tasks |-> t[l].tasks, joins |-> t[l].joins]
    BY <1>1
  <1>3. DOMAIN tracker \subseteq Lineages
    BY DEF Typed, TypedLineages
  <1>4. CASE ts = <<>> /\ closed \subseteq DOMAIN t
    <2> DEFINE u == Closed(t, closed)
    <2>1. Settle(u) /\ failure' = "none"
      BY <1>4 DEF Proceed
    <2>2. DOMAIN u = DOMAIN tracker /\ u = [l \in DOMAIN u |-> u[l]]
      BY DEF Closed
    <2>3. \A l \in DOMAIN tracker :
             u[l] = IF l \in closed THEN [t[l] EXCEPT !.joins = @ - 1] ELSE t[l]
      BY DEF Closed
    <2> HIDE DEF u
    <2>4. ASSUME NEW l \in Lineages
          PROVE  IF l \in DOMAIN u THEN u[l] = CountsOf(l)' ELSE Idle(CountsOf(l)')
      <3>1. /\ CountsOf(l) \in Counts /\ CountsOf(l)' \in Counts
            /\ CountsOf(l)'.open = CountsOf(l).open
            /\ CountsOf(l)'.tasks = CountsOf(l).tasks + 0
            /\ CountsOf(l)'.joins + One(l \in closed) = CountsOf(l).joins + One(l \in opened)
        BY <1>4, <2>1 DEF Grows, One
      <3>2. One(l \in closed) \in Nat /\ One(l \in opened) \in Nat
        BY DEF One
      <3>3. CASE l \in DOMAIN tracker
        <4>1. u[l] = [open |-> t[l].open, tasks |-> t[l].tasks,
                      joins |-> t[l].joins - One(l \in closed)]
          <5>1. t[l] = [open |-> t[l].open, tasks |-> t[l].tasks, joins |-> t[l].joins]
                /\ t[l].joins = CountsOf(l).joins + One(l \in opened)
            BY <1>2, <3>3
          <5>2. t[l].joins \in Nat  BY <3>1, <3>2, <5>1 DEF Counts
          <5>3. CASE l \in closed
            <6>1. u[l] = [open |-> t[l].open, tasks |-> t[l].tasks, joins |-> t[l].joins - 1]
              BY <2>3, <3>3, <5>1, <5>3
            <6> QED BY <5>3, <6>1 DEF One
          <5>4. CASE l \notin closed
            <6>1. One(l \in closed) = 0 /\ t[l].joins - 0 = t[l].joins
              BY <5>2, <5>4 DEF One
            <6>2. u[l] = t[l]  BY <2>3, <3>3, <5>4
            <6> QED BY <5>1, <6>1, <6>2
          <5> QED BY <5>3, <5>4
        <4>2. /\ t[l].open = CountsOf(l).open /\ t[l].tasks = CountsOf(l).tasks
              /\ t[l].joins = CountsOf(l).joins + One(l \in opened)
          BY <1>2, <3>3
        <4>3. CountsOf(l)'.joins = t[l].joins - One(l \in closed)
              /\ CountsOf(l)'.tasks = t[l].tasks
          BY <3>1, <3>2, <4>2 DEF Counts
        <4>4. u[l] = CountsOf(l)'
          BY <3>1, <4>1, <4>2, <4>3 DEF Counts
        <4> QED BY <2>2, <3>3, <4>4
      <3>4. CASE l \notin DOMAIN tracker
        <4>1. One(l \in closed) = 0 /\ One(l \in opened) = 0 /\ Idle(CountsOf(l))
          BY <1>1, <1>4, <3>4 DEF One
        <4>2. Idle(CountsOf(l)')
          BY <3>1, <4>1 DEF Idle, Counts
        <4> QED BY <2>2, <3>4, <4>2
      <3> QED BY <3>3, <3>4
    <2> QED BY <1>3, <2>1, <2>2, <2>4, SettleIs
  <1>5. CASE ~ (ts = <<>> /\ closed \subseteq DOMAIN t)
             /\ ts # <<>> /\ Head(ts).line \in DOMAIN t
    <2> DEFINE h == Head(ts).line
    <2>1. tracker' = [t EXCEPT ![h].tasks = @ + 1] /\ failure' = "none"
      BY <1>5 DEF Proceed
    <2>2. /\ DOMAIN tracker' = DOMAIN tracker
          /\ tracker' = [l \in DOMAIN tracker' |-> tracker'[l]]
          /\ \A l \in DOMAIN tracker :
                tracker'[l] = IF l = h THEN [t[l] EXCEPT !.tasks = @ + 1] ELSE t[l]
      BY <2>1
    <2>3. h \in DOMAIN tracker
      BY <1>5
    <2>4. ASSUME NEW l \in Lineages
          PROVE  IF l \in DOMAIN tracker' THEN tracker'[l] = CountsOf(l)' /\ ~ Idle(tracker'[l])
                 ELSE Idle(CountsOf(l)')
      <3>0. (ts = <<>> /\ l \in closed) = FALSE /\ (ts # <<>> /\ h = l) = (h = l)
        BY <1>5
      <3> HIDE DEF h
      <3>1. /\ CountsOf(l) \in Counts /\ CountsOf(l)' \in Counts
            /\ CountsOf(l)'.open = CountsOf(l).open
            /\ CountsOf(l)'.tasks = CountsOf(l).tasks + One(h = l)
            /\ CountsOf(l)'.joins + 0 = CountsOf(l).joins + One(l \in opened)
        BY <2>1, <3>0 DEF Grows, One, h
      <3>2. One(l \in opened) \in Nat
        BY DEF One
      <3>3. CASE l \in DOMAIN tracker
        <4>1. /\ t[l].open = CountsOf(l).open /\ t[l].tasks = CountsOf(l).tasks
              /\ t[l].joins = CountsOf(l).joins + One(l \in opened)
              /\ t[l] = [open |-> t[l].open, tasks |-> t[l].tasks, joins |-> t[l].joins]
          BY <1>2, <3>3
        <4>2. CASE l = h
          <5>1. CountsOf(l)'.tasks = t[l].tasks + 1 /\ CountsOf(l)'.joins = t[l].joins
            BY <3>1, <3>2, <4>1, <4>2 DEF One, Counts
          <5>2. tracker'[l] = [open |-> t[l].open, tasks |-> t[l].tasks + 1, joins |-> t[l].joins]
            BY <2>2, <3>3, <4>1, <4>2
          <5>3. tracker'[l] = CountsOf(l)'
            BY <3>1, <4>1, <5>1, <5>2 DEF Counts
          <5>4. t[l].tasks \in Nat  BY <3>1, <4>1 DEF Counts
          <5> QED BY <2>2, <3>3, <5>2, <5>3, <5>4 DEF Idle
        <4>3. CASE l # h
          <5>1. CountsOf(l)'.tasks = t[l].tasks /\ CountsOf(l)'.joins = t[l].joins
            BY <3>1, <3>2, <4>1, <4>3 DEF One, Counts
          <5>2. tracker'[l] = t[l]
            BY <2>2, <3>3, <4>3
          <5>3. tracker'[l] = CountsOf(l)'
            BY <3>1, <4>1, <5>1, <5>2 DEF Counts
          <5>4. ~ Idle(CountsOf(l)) /\ CountsOf(l) \in Counts
            BY <1>1, <3>1, <3>3
          <5>5. ~ Idle(t[l])
            BY <3>2, <4>1, <5>4 DEF Idle, Counts
          <5> QED BY <2>2, <3>3, <5>2, <5>3, <5>5
        <4> QED BY <4>2, <4>3
      <3>4. CASE l \notin DOMAIN tracker
        <4>1. One(h = l) = 0 /\ One(l \in opened) = 0 /\ Idle(CountsOf(l))
          BY <1>1, <2>3, <3>4 DEF One
        <4>2. Idle(CountsOf(l)')
          BY <3>1, <4>1 DEF Idle, Counts
        <4> QED BY <2>2, <3>4, <4>2
      <3> QED BY <3>3, <3>4
    <2> QED BY <1>3, <2>2, <2>4, LedgerIs
  <1>6. CASE ~ (ts = <<>> /\ closed \subseteq DOMAIN t)
             /\ ~ (ts # <<>> /\ Head(ts).line \in DOMAIN t)
    BY <1>6 DEF Proceed, Fails, Counted, Ledger
  <1> QED BY <1>4, <1>5, <1>6

(* What a worker routes does not open or close the source it works for.    *)
LEMMA OpeningStays ==
    ASSUME NEW n \in Nodes, NEW l \in Lineages, Working(n), Working(n)', task' = task,
           \A k \in Nodes : k # n => pc'[k] = pc[k]
    PROVE  CountsOf(l)'.open = CountsOf(l).open
  <1>1. l[1] \in Nodes
    BY LineageIs
  <1>2. Opening(l)' <=> Opening(l)
    <2>1. CASE l[1] = n
      BY <2>1 DEF Opening
    <2>2. CASE l[1] # n
      BY <1>1, <2>2 DEF Opening, Working
    <2> QED BY <2>1, <2>2
  <1> QED BY <1>2 DEF CountsOf

LEMMA DeliverLedger ==
    ASSUME Typed, Typed', Births, Counted, Ledger, NEW n \in Nodes, Deliver(n)
    PROVE  Counted' /\ Ledger'
  <1> DEFINE d == Delivery(n)
             r == Added(d)
             m == d.to
             t == Opened(tracker, r.opened)
  <1>1. /\ Routes(n) /\ edge[n] <= Len(Edges(n)) /\ Working(n) /\ AddedOK(d, r)
        /\ groups' = [groups EXCEPT ![m] = r.groups]
        /\ UNCHANGED <<queue, task>>
        /\ \/ r.opened \subseteq DOMAIN tracker /\ Proceed(n, r.tasks, r.closed, t)
           \/ ~ r.opened \subseteq DOMAIN tracker /\ Fails("lineage")
    BY DeliverIs
  <1>2. m \in Nodes /\ d.packet.line \in Lineages
    BY <1>1, DeliveryIs DEF IsDelivery, Packets
  <1>3. /\ \A k \in Nodes : k # n => pc'[k] = pc[k] /\ ready'[k] = ready[k]
                                     /\ closing'[k] = closing[k]
        /\ pc'[n] = "put" <=> ready'[n] # <<>>
        /\ pc'[n] \in {"route", "put"}
        /\ failure' = "none" =>
              /\ ready'[n] = r.tasks
              /\ closing'[n] = IF ready'[n] = <<>> THEN {} ELSE r.closed
    BY DeliverProceeds
  <1>4. failure = "none" /\ pc[n] = "route" /\ closing[n] = {} /\ Working(n)'
    BY <1>1, <1>3 DEF Routes, Births, Working
  <1>5. /\ groups'[m] = r.groups /\ \A k \in Nodes : k # m => groups'[k] = groups[k]
    BY <1>1, <1>2 DEF Typed, TypedJoins
  <1>6. /\ r.opened \cap DOMAIN groups[m] = {}
        /\ r.closed \subseteq DOMAIN groups[m] \cup r.opened
        /\ DOMAIN groups'[m] = (DOMAIN groups[m] \cup r.opened) \ r.closed
    BY <1>1, <1>5 DEF AddedOK
  <1>t. /\ DOMAIN t = DOMAIN tracker /\ t = [l \in DOMAIN t |-> t[l]]
        /\ \A l \in DOMAIN tracker :
              t[l] = IF l \in r.opened THEN [tracker[l] EXCEPT !.joins = @ + 1] ELSE tracker[l]
    BY DEF Opened
  <1> HIDE DEF r, m, d, t
  <1>7. ASSUME NEW l \in Lineages
        PROVE  /\ CountsOf(l) \in Counts /\ CountsOf(l)' \in Counts
               /\ failure' = "none" => Grows(l, r.tasks, r.closed, r.opened)
    <2>1. Cardinality(Queued(l)') = Cardinality(Queued(l)) + 0
      BY <1>1, QueueStays
    <2>2. /\ CountsOf(l) \in Counts /\ CountsOf(l)' \in Counts
          /\ Moved(n, m, l, CountsOf(l)', 0)
      BY <1>1, <1>2, <1>3, <1>5, <2>1, CountsMoved
    <2>3. CountsOf(l)'.open = CountsOf(l).open
      BY <1>1, <1>3, <1>4, OpeningStays
    <2>4. ASSUME failure' = "none"
          PROVE  CountsOf(l)'.tasks = CountsOf(l).tasks
                                      + One(r.tasks # <<>> /\ Head(r.tasks).line = l)
      <3>1. One(Runs(n, l)') = One(Runs(n, l)) /\ One(Runs(n, l)) \in Nat
            /\ One(Puts(n, l)) = 0
        BY <1>1, <1>4 DEF Runs, Puts, One
      <3>2. One(Puts(n, l)') = One(r.tasks # <<>> /\ Head(r.tasks).line = l)
        BY <1>3, <2>4 DEF Puts, One
      <3>3. One(Puts(n, l)') \in Nat
        BY DEF One
      <3> HIDE DEF One
      <3>4. CountsOf(l)'.tasks = CountsOf(l).tasks + One(Puts(n, l)')
        BY <2>2, <3>1, <3>3 DEF Moved, Counts
      <3> QED BY <3>2, <3>4
    <2>5. ASSUME failure' = "none"
          PROVE  CountsOf(l)'.joins + One(r.tasks = <<>> /\ l \in r.closed)
                     = CountsOf(l).joins + One(l \in r.opened)
      <3>1. /\ One(l \in closing[n]) = 0
            /\ One(l \in closing'[n]) = One(r.tasks # <<>> /\ l \in r.closed)
        BY <1>3, <1>4, <2>5 DEF One
      <3>2. One(r.tasks = <<>> /\ l \in r.closed) + One(r.tasks # <<>> /\ l \in r.closed)
            = One(l \in r.closed)
        BY DEF One
      <3>3. One(l \in DOMAIN groups'[m]) + One(l \in r.closed)
            = One(l \in DOMAIN groups[m]) + One(l \in r.opened)
        BY <1>6 DEF One
      <3> DEFINE a == One(r.tasks = <<>> /\ l \in r.closed)
                 b == One(r.tasks # <<>> /\ l \in r.closed)
                 c == One(l \in r.closed)
                 e == One(l \in DOMAIN groups'[m])
                 f == One(l \in DOMAIN groups[m])
                 o == One(l \in r.opened)
                 j == CountsOf(l).joins
                 k == CountsOf(l)'.joins
      <3>4. /\ a \in Nat /\ b \in Nat /\ c \in Nat /\ e \in Nat /\ f \in Nat /\ o \in Nat
            /\ j \in Nat /\ k \in Nat
        BY <2>2 DEF One, Counts
      <3>5. k + f + 0 = j + e + b
        BY <2>2, <3>1 DEF Moved
      <3>6. a + b = c /\ e + c = f + o
        BY <3>2, <3>3
      <3> HIDE DEF a, b, c, e, f, o, j, k
      <3>7. k + a = j + o
        BY <3>4, <3>5, <3>6
      <3> QED BY <3>7 DEF a, o, j, k
    <2> QED BY <2>2, <2>3, <2>4, <2>5 DEF Grows
  <1>8. CASE r.opened \subseteq DOMAIN tracker /\ Proceed(n, r.tasks, r.closed, t)
    <2>1. \A l \in DOMAIN tracker :
              t[l] = [open |-> tracker[l].open, tasks |-> tracker[l].tasks,
                      joins |-> tracker[l].joins + One(l \in r.opened)]
      <3> TAKE l \in DOMAIN tracker
      <3>1. tracker[l] \in Counts
        BY DEF Counted, Counts
      <3> QED BY <1>t, <3>1 DEF Counts, One
    <2> DEFINE ts == r.tasks
               closed == r.closed
               opened == r.opened
    <2>2. /\ opened \subseteq DOMAIN tracker /\ Proceed(n, ts, closed, t)
          /\ \A l \in Lineages : /\ CountsOf(l) \in Counts /\ CountsOf(l)' \in Counts
                                 /\ failure' = "none" => Grows(l, ts, closed, opened)
          /\ \A l \in DOMAIN tracker :
              t[l] = [open |-> tracker[l].open, tasks |-> tracker[l].tasks,
                      joins |-> tracker[l].joins + One(l \in opened)]
      BY <1>7, <1>8, <2>1
    <2> HIDE DEF ts, closed, opened
    <2> QED BY <1>t, <1>4, <2>2, ProceedLedger
  <1>9. CASE Fails("lineage")
    BY <1>9 DEF Fails, Counted, Ledger
  <1> QED BY <1>1, <1>8, <1>9

LEMMA AdmitLedger ==
    ASSUME Typed, Typed', Births, Counted, Ledger, NEW n \in Nodes, Admit(n)
    PROVE  Counted' /\ Ledger'
  <1> DEFINE h == Head(ready[n])
             rest == Tail(ready[n])
  <1>1. /\ failure = "none" /\ pc[n] = "put" /\ Working(n)
        /\ h \in AllTasks /\ h.to \in Nodes /\ rest \in Seq(AllTasks)
        /\ queue' = [queue EXCEPT ![h.to] = Append(@, h)]
        /\ Proceed(n, rest, closing[n], tracker)
        /\ UNCHANGED <<task, groups>>
    BY AdmitIs
  <1>2. closing[n] \in SUBSET Lineages /\ DOMAIN tracker \subseteq Lineages \ done
        /\ tracker = [l \in DOMAIN tracker |-> tracker[l]]
    BY DEF Typed, TypedWorkers, TypedLineages
  <1>3. /\ \A k \in Nodes : k # n => pc'[k] = pc[k] /\ ready'[k] = ready[k]
                                     /\ closing'[k] = closing[k]
        /\ pc'[n] = "put" <=> ready'[n] # <<>>
        /\ pc'[n] \in {"route", "put"}
        /\ failure' = "none" =>
              ready'[n] = rest /\ closing'[n] = IF rest = <<>> THEN {} ELSE closing[n]
    BY <1>1, <1>2, ProceedTyped
  <1>4. Working(n)'
    BY <1>3 DEF Working
  <1> HIDE DEF rest
  <1>5. ASSUME NEW l \in Lineages
        PROVE  /\ CountsOf(l) \in Counts /\ CountsOf(l)' \in Counts
               /\ failure' = "none" => Grows(l, rest, closing[n], {})
    <2> DEFINE x == IF h.line = l THEN 1 ELSE 0
    <2>1. Cardinality(Queued(l)') = Cardinality(Queued(l)) + x
      <3>1. Queued(l) = QueuedIn(queue, l) /\ Queued(l)' = QueuedIn(queue', l)
        BY DEF Queued, QueuedIn
      <3>2. queue \in [Nodes -> Seq(AllTasks)]
        BY DEF Typed, TypedQueues
      <3>3. Cardinality(QueuedIn(queue', l)) = Cardinality(QueuedIn(queue, l)) + x
        <4> DEFINE m == h.to
        <4>1. Pushed(queue, queue', m, h) /\ m \in Nodes /\ h \in AllTasks
          BY <1>1 DEF Pushed
        <4> HIDE DEF h, m
        <4> QED BY <3>2, <4>1, QueuedPush DEF h
      <3> QED BY <3>1, <3>3
    <2>2. /\ CountsOf(l) \in Counts /\ CountsOf(l)' \in Counts
          /\ Moved(n, n, l, CountsOf(l)', x)
      BY <1>1, <1>3, <2>1, CountsMoved
    <2>3. CountsOf(l)'.open = CountsOf(l).open
      BY <1>1, <1>3, <1>4, OpeningStays
    <2>4. ASSUME failure' = "none"
          PROVE  CountsOf(l)'.tasks = CountsOf(l).tasks
                                      + One(rest # <<>> /\ Head(rest).line = l)
      <3>1. One(Runs(n, l)') = One(Runs(n, l)) /\ One(Runs(n, l)) \in Nat
            /\ One(Puts(n, l)) = x /\ x \in Nat
        BY <1>1 DEF Runs, Puts, One
      <3>2. One(Puts(n, l)') = One(rest # <<>> /\ Head(rest).line = l)
        BY <1>3, <2>4 DEF Puts, One
      <3>3. One(Puts(n, l)') \in Nat
        BY DEF One
      <3> HIDE DEF One, x
      <3>4. CountsOf(l)'.tasks = CountsOf(l).tasks + One(Puts(n, l)')
        BY <2>2, <3>1, <3>3 DEF Moved, Counts
      <3> QED BY <3>2, <3>4
    <2>5. ASSUME failure' = "none"
          PROVE  CountsOf(l)'.joins + One(rest = <<>> /\ l \in closing[n])
                     = CountsOf(l).joins + One(l \in {})
      <3>1. /\ groups' = groups /\ One(l \in {}) = 0
            /\ One(l \in closing'[n]) + One(rest = <<>> /\ l \in closing[n]) = One(l \in closing[n])
        BY <1>1, <1>3, <2>5 DEF One
      <3> DEFINE a == One(rest = <<>> /\ l \in closing[n])
                 b == One(l \in closing'[n])
                 c == One(l \in closing[n])
                 f == One(l \in DOMAIN groups[n])
                 j == CountsOf(l).joins
                 k == CountsOf(l)'.joins
      <3>2. /\ a \in Nat /\ b \in Nat /\ c \in Nat /\ f \in Nat /\ j \in Nat /\ k \in Nat
        BY <2>2 DEF One, Counts
      <3>3. k + f + c = j + f + b
        BY <2>2, <3>1 DEF Moved
      <3>4. b + a = c
        BY <3>1
      <3> HIDE DEF a, b, c, f, j, k
      <3>5. k + a = j + 0
        BY <3>2, <3>3, <3>4
      <3> QED BY <3>1, <3>5 DEF a, j, k
    <2> QED BY <2>2, <2>3, <2>4, <2>5 DEF Grows
  <1>6. \A l \in DOMAIN tracker :
            tracker[l] = [open |-> tracker[l].open, tasks |-> tracker[l].tasks,
                          joins |-> tracker[l].joins + One(l \in {})]
    <2> TAKE l \in DOMAIN tracker
    <2>1. tracker[l] \in Counts /\ One(l \in {}) = 0
      BY DEF Counted, Counts, One
    <2> QED BY <2>1 DEF Counts
  <1> QED BY <1>1, <1>2, <1>5, <1>6, ProceedLedger

-----------------------------------------------------------------------------
(* What holds of every graph.                                              *)

Books == Typed /\ Births /\ Counted /\ Ledger

LEMMA InitBooks == Init => Books
  <1> SUFFICES ASSUME Init PROVE Books
    OBVIOUS
  <1>1. Typed
    BY InitTyped
  <1>2. /\ tracker = <<>> /\ DOMAIN tracker = {} /\ done = {} /\ failure = "none"
        /\ \A n \in Nodes : /\ task[n] = NoTask /\ todo[n] = <<>> /\ closing[n] = {}
                            /\ pc[n] = "collect" /\ queue[n] = <<>>
                            /\ DOMAIN groups[n] = {}
    BY DEF Init
  <1>3. Births
    BY <1>2 DEF Births
  <1>4. ASSUME NEW l \in Lineages PROVE Idle(CountsOf(l))
    <2>1. Queued(l) = {} /\ Runners(l) = {} /\ Putters(l) = {} /\ Waiters(l) = {}
          /\ Closers(l) = {}
      BY <1>2, LineOf DEF Queued, Runners, Putters, Waiters, Closers
    <2>2. ~ Opening(l)
      BY <1>2, LineageIs DEF Opening, Working
    <2>3. Cardinality({}) = 0
      BY FS_EmptySet
    <2> QED BY <2>1, <2>2, <2>3 DEF CountsOf, Idle
  <1>5. Ledger /\ Counted
    BY <1>2, <1>4 DEF Ledger, Balanced, Counted
  <1> QED BY <1>1, <1>3, <1>5 DEF Books

LEMMA StepTyped ==
    ASSUME Typed, Births, NEW n \in Nodes, Work(n)
    PROVE  Typed'
  BY CollectTyped, ExecuteTyped, NextPacketTyped, DeliverTyped, WaitTyped, AdmitTyped,
     FinishTyped
     DEF Work

LEMMA StepBooks ==
    ASSUME Books, NEW n \in Nodes, Work(n)
    PROVE  Books'
  <1> USE DEF Books
  <1>1. Typed'
    BY StepTyped
  <1>2. Births'
    BY CollectBirths, ExecuteBirths, DeliverBirths, AdmitBirths, FinishBirths, OtherBirths
       DEF Work
  <1>3. Counted' /\ Ledger'
    BY <1>1, CollectLedger, ExecuteLedger, DeliverLedger, AdmitLedger, FinishLedger,
       OtherLedger
       DEF Work
  <1> QED BY <1>1, <1>2, <1>3

LEMMA StutterBooks == Books /\ UNCHANGED vars => Books'
  <1> SUFFICES ASSUME Books, UNCHANGED vars PROVE Books'
    OBVIOUS
  <1> USE DEF vars, routing, joins
  <1>1. Typed'
    BY DEF Books, Typed, TypedQueues, TypedWorkers, TypedJoins, TypedLineages, JoinsOK
  <1>2. Births' /\ Counted'
    BY DEF Books, Births, Born, Working, Counted
  <1>3. Ledger'
    BY DEF Books, Ledger, Balanced, CountsOf, Opening, Working, Queued, Runners, Putters,
           Waiters, Closers
  <1> QED BY <1>1, <1>2, <1>3 DEF Books

LEMMA SpecBooks == Spec => []Books
  <1>1. Books /\ [Next]_vars => Books'
    BY StepBooks, StutterBooks DEF Next
  <1> QED BY <1>1, InitBooks, PTL DEF Spec

(* Every variable holds a value of its type.                               *)
THEOREM RoutingTypes == Spec => []TypeOK
  <1>1. Books => TypeOK
    BY TypedIs DEF Books
  <1> QED BY <1>1, SpecBooks, PTL

LEMMA QuietLeftovers == Books => OnlyLeftoversStayOpen
  <1> SUFFICES ASSUME Books, Quiet
               PROVE  DOMAIN tracker = UNION {DOMAIN groups[n] : n \in Nodes}
    BY DEF OnlyLeftoversStayOpen
  <1> USE DEF Books
  <1>1. \A n \in Nodes : /\ queue[n] = <<>> /\ pc[n] = "collect" /\ closing[n] = {}
                         /\ task[n] = NoTask /\ ~ Working(n)
    BY DEF Quiet, Births, Working, Typed, TypedWorkers
  <1>2. failure = "none"
    BY <1>1 DEF Births
  <1>3. ASSUME NEW l \in Lineages PROVE Idle(CountsOf(l)) <=> Waiters(l) = {}
    <2>1. Queued(l) = {} /\ Runners(l) = {} /\ Putters(l) = {} /\ Closers(l) = {}
      BY <1>1, LineOf DEF Queued, Runners, Putters, Closers
    <2>2. ~ Opening(l)
      BY <1>1, LineageIs DEF Opening, Working
    <2>3. Cardinality({}) = 0
      BY FS_EmptySet
    <2>4. Waiters(l) \in SUBSET Nodes
      BY DEF Waiters
    <2>5. Cardinality(Waiters(l)) \in Nat /\ (Cardinality(Waiters(l)) = 0 <=> Waiters(l) = {})
      BY <2>4, NodeSets, FS_EmptySet
    <2> QED BY <2>1, <2>2, <2>3, <2>5 DEF CountsOf, Idle
  <1>4. \A l \in Lineages : l \in DOMAIN tracker <=> Waiters(l) # {}
    BY <1>2, <1>3, LedgerLine
  <1>5. DOMAIN tracker \subseteq Lineages /\ \A n \in Nodes : DOMAIN groups[n] \subseteq Lineages
    BY DEF Typed, TypedLineages, TypedJoins, JoinsOK
  <1> QED BY <1>4, <1>5 DEF Waiters

(* Whatever the graph, and however the routing of the workers interleaves: *)
(* when all is done, a lineage is left open if and only if a join holds    *)
(* packets of it.                                                          *)
THEOREM LeftoversOnly == Spec => []OnlyLeftoversStayOpen
  BY QuietLeftovers, SpecBooks, PTL

-----------------------------------------------------------------------------
(* What holds where the tasks at hand have one lineage.                    *)

(* What carries a lineage is tracked.                                      *)
LEMMA Carried ==
    ASSUME Books, failure # "lineage", NEW n \in Nodes
    PROVE  /\ Working(n) => task[n].line \in DOMAIN tracker
           /\ DOMAIN groups[n] \subseteq DOMAIN tracker
           /\ closing[n] \subseteq DOMAIN tracker
           /\ pc[n] = "put" => Head(ready[n]).line \in DOMAIN tracker
           /\ \A i \in DOMAIN queue[n] : queue[n][i].line \in DOMAIN tracker
  <1> USE DEF Books
  <1>1. ASSUME NEW l \in Lineages, l \notin DOMAIN tracker
        PROVE  /\ ~ Opening(l) /\ Queued(l) = {} /\ Runners(l) = {} /\ Putters(l) = {}
               /\ Waiters(l) = {} /\ Closers(l) = {}
    <2>1. Idle(CountsOf(l))
      BY <1>1 DEF Ledger, Balanced
    <2>2. /\ Cardinality(Runners(l)) \in Nat /\ Cardinality(Putters(l)) \in Nat
          /\ Cardinality(Waiters(l)) \in Nat /\ Cardinality(Closers(l)) \in Nat
          /\ IsFiniteSet(Runners(l)) /\ IsFiniteSet(Putters(l))
          /\ IsFiniteSet(Waiters(l)) /\ IsFiniteSet(Closers(l))
      <3>1. /\ Runners(l) \in SUBSET Nodes /\ Putters(l) \in SUBSET Nodes
            /\ Waiters(l) \in SUBSET Nodes /\ Closers(l) \in SUBSET Nodes
        BY DEF Runners, Putters, Waiters, Closers
      <3> QED BY <3>1, NodeSets
    <2>3. Cardinality(Queued(l)) \in Nat /\ IsFiniteSet(Queued(l))
      <3>1. Queued(l) = QueuedIn(queue, l)
        BY DEF Queued, QueuedIn
      <3> QED BY <3>1, QueuedFinite DEF Typed, TypedQueues
    <2>4. /\ Cardinality(Queued(l)) = 0 /\ Cardinality(Runners(l)) = 0
          /\ Cardinality(Putters(l)) = 0 /\ Cardinality(Waiters(l)) = 0
          /\ Cardinality(Closers(l)) = 0 /\ ~ Opening(l)
      <3>1. /\ Cardinality(Queued(l)) + Cardinality(Runners(l)) + Cardinality(Putters(l)) = 0
            /\ Cardinality(Waiters(l)) + Cardinality(Closers(l)) = 0 /\ ~ Opening(l)
        BY <2>1 DEF Idle, CountsOf
      <3> DEFINE q == Cardinality(Queued(l))
                 r == Cardinality(Runners(l))
                 p == Cardinality(Putters(l))
                 w == Cardinality(Waiters(l))
                 c == Cardinality(Closers(l))
      <3>2. q + r + p = 0 /\ w + c = 0
        BY <3>1
      <3>3. q \in Nat /\ r \in Nat /\ p \in Nat /\ w \in Nat /\ c \in Nat
        BY <2>2, <2>3
      <3> HIDE DEF q, r, p, w, c
      <3>4. q = 0 /\ r = 0 /\ p = 0 /\ w = 0 /\ c = 0
        BY <3>2, <3>3
      <3> QED BY <3>1, <3>4 DEF q, r, p, w, c
    <2> QED BY <2>2, <2>3, <2>4, FS_EmptySet
  <1>2. Working(n) => task[n].line \in DOMAIN tracker
    <2>1. ASSUME Working(n), task[n].line \notin DOMAIN tracker PROVE FALSE
      <3> DEFINE l == task[n].line
      <3>1. task[n] # NoTask /\ l \in Lineages
        BY <2>1, LineOf DEF Working, Typed, TypedWorkers
      <3>2. ~ Opening(l) /\ Runners(l) = {}
        BY <1>1, <2>1, <3>1
      <3>3. IsInput(n)
        BY <3>2 DEF Runners
      <3>4. l = <<n, left[n] + 1>>
        BY <3>1, <3>3 DEF Births
      <3> QED BY <2>1, <3>2, <3>4 DEF Opening
    <2> QED BY <2>1
  <1>3. DOMAIN groups[n] \subseteq DOMAIN tracker
    <2>1. DOMAIN groups[n] \subseteq Lineages
      BY DEF Typed, TypedJoins, JoinsOK
    <2> QED BY <1>1, <2>1 DEF Waiters
  <1>4. closing[n] \subseteq DOMAIN tracker
    <2>1. closing[n] \subseteq Lineages
      BY DEF Typed, TypedWorkers
    <2> QED BY <1>1, <2>1 DEF Closers
  <1>5. pc[n] = "put" => Head(ready[n]).line \in DOMAIN tracker
    <2> HAVE pc[n] = "put"
    <2>1. ready[n] \in Seq(AllTasks) /\ ready[n] # <<>>
      BY DEF Typed, TypedWorkers
    <2>2. Head(ready[n]) \in AllTasks
      BY <2>1
    <2>3. Head(ready[n]).line \in Lineages
      BY <2>2, LineOf
    <2> QED BY <1>1, <2>3 DEF Putters
  <1>6. \A i \in DOMAIN queue[n] : queue[n][i].line \in DOMAIN tracker
    <2> TAKE i \in DOMAIN queue[n]
    <2>1. queue[n] \in Seq(AllTasks)
      BY DEF Typed, TypedQueues
    <2>2. queue[n][i] \in AllTasks
      BY <2>1
    <2>3. queue[n][i].line \in Lineages
      BY <2>2, LineOf
    <2>4. queue[n][i].line \notin DOMAIN tracker => Queued(queue[n][i].line) = {}
      BY <1>1, <2>3
    <2>5. <<n, i>> \in Queued(queue[n][i].line)
      BY QueuedInIs DEF Queued, QueuedIn
    <2> QED BY <2>4, <2>5
  <1> QED BY <1>2, <1>3, <1>4, <1>5, <1>6

(* The tracker meets no lineage that it does not know.                     *)
LEMMA KnownLineages ==
    ASSUME Books, OneLine, failure # "lineage", NEW n \in Nodes, Work(n)
    PROVE  failure' # "lineage"
  <1>1. CASE Deliver(n)
    <2> DEFINE d == Delivery(n)
               r == Added(d)
               m == d.to
               t == Opened(tracker, r.opened)
    <2>1. /\ Routes(n) /\ edge[n] <= Len(Edges(n)) /\ Working(n) /\ AddedOK(d, r)
          /\ \/ r.opened \subseteq DOMAIN tracker /\ Proceed(n, r.tasks, r.closed, t)
             \/ ~ r.opened \subseteq DOMAIN tracker /\ Fails("lineage")
      BY <1>1, DeliverIs DEF Books
    <2>2. m \in Nodes /\ d.packet.line = task[n].line
      <3>1. IsDelivery(d) /\ d.packet = [line |-> task[n].line,
                                  num |-> serial[<<n, task[n].line, Head(todo[n])>>] + 1]
        BY <2>1, DeliveryIs DEF Books
      <3> HIDE DEF d
      <3> QED BY <3>1 DEF IsDelivery
    <2>3. DOMAIN groups[m] \cup {d.packet.line} \subseteq DOMAIN tracker
      BY <2>1, <2>2, Carried
    <2>4. DOMAIN t = DOMAIN tracker
      BY DEF Opened
    <2> HIDE DEF d, r, t
    <2>5. r.opened \subseteq DOMAIN tracker /\ r.closed \subseteq DOMAIN t
      BY <2>1, <2>3, <2>4 DEF AddedOK
    <2>6. r.tasks # <<>> => Head(r.tasks).line \in DOMAIN t
      <3>1. r.tasks \in Seq(AllTasks)
        BY <2>1 DEF AddedOK
      <3>2. r.tasks # <<>> => 1 \in DOMAIN r.tasks /\ Head(r.tasks) = r.tasks[1]
        BY <3>1
      <3> QED BY <2>1, <2>3, <2>4, <3>2 DEF AddedOK
    <2> QED BY <2>1, <2>5, <2>6 DEF Proceed, Routes
  <1>2. CASE Admit(n)
    <2> DEFINE rest == Tail(ready[n])
    <2>1. /\ failure = "none" /\ pc[n] = "put" /\ Proceed(n, rest, closing[n], tracker)
          /\ Head(ready[n]) = ready[n][1] /\ 1 \in DOMAIN ready[n] /\ rest \in Seq(AllTasks)
          /\ \A i \in DOMAIN rest : i + 1 \in DOMAIN ready[n] /\ rest[i] = ready[n][i + 1]
      BY <1>2, AdmitIs DEF Books
    <2>2. closing[n] \subseteq DOMAIN tracker /\ Head(ready[n]).line \in DOMAIN tracker
      BY <2>1, Carried
    <2>3. rest # <<>> => Head(rest).line \in DOMAIN tracker
      <3> HIDE DEF rest
      <3>1. rest # <<>> => 1 \in DOMAIN rest /\ Head(rest) = rest[1]
        BY <2>1
      <3>2. rest # <<>> => 2 \in DOMAIN ready[n] /\ Head(rest) = ready[n][2]
        BY <2>1, <3>1
      <3> QED BY <2>1, <2>2, <3>2 DEF OneLine
    <2> QED BY <2>1, <2>2, <2>3 DEF Proceed
  <1>3. CASE Collect(n) \/ Execute(n) \/ NextPacket(n) \/ DeliverFails(n) \/ Wait(n) \/ Finish(n)
    BY <1>3 DEF Collect, Execute, NextPacket, DeliverFails, Wait, Finish
  <1> QED BY <1>1, <1>2, <1>3 DEF Work

LEMMA ExactCounts ==
    ASSUME Books, failure # "lineage"
    PROVE  CountsAreExact
  <1> USE DEF Books
  <1> SUFFICES ASSUME NEW l \in DOMAIN tracker
               PROVE  /\ tracker[l].open = Cardinality({n \in Holders(l) : IsInput(n)})
                      /\ tracker[l].tasks =
                            Cardinality(Queued(l))
                            + Cardinality({n \in Holders(l) : ~ IsInput(n)})
                            + Cardinality({n \in Nodes : pc[n] = "put"
                                                         /\ Head(ready[n]).line = l})
                      /\ tracker[l].joins =
                            Cardinality({n \in Nodes : l \in DOMAIN groups[n]})
                            + Cardinality({n \in Nodes : l \in closing[n]})
                      /\ ~ Idle(tracker[l])
    BY DEF CountsAreExact
  <1>1. l \in Lineages /\ tracker[l] = CountsOf(l) /\ ~ Idle(tracker[l])
    BY DEF Ledger, Balanced, Typed, TypedLineages
  <1>2. /\ Runners(l) = {n \in Holders(l) : ~ IsInput(n)}
        /\ Putters(l) = {n \in Nodes : pc[n] = "put" /\ Head(ready[n]).line = l}
        /\ Waiters(l) = {n \in Nodes : l \in DOMAIN groups[n]}
        /\ Closers(l) = {n \in Nodes : l \in closing[n]}
    BY DEF Runners, Putters, Waiters, Closers, Holders
  <1>3. {n \in Holders(l) : IsInput(n)} = IF Opening(l) THEN {l[1]} ELSE {}
    <2>1. ASSUME NEW n \in Nodes, task[n].line = l, IsInput(n)
          PROVE  n = l[1] /\ Opening(l)
      <3>1. task[n] # NoTask
        BY <1>1, <2>1, LineOf
      <3>2. l = <<n, left[n] + 1>>
        BY <2>1, <3>1 DEF Births
      <3>3. pc[n] # "execute" /\ pc[n] # "collect"
        <4>1. Born(l) /\ l[1] = n
          BY <3>2 DEF Births
        <4> QED BY <2>1, <3>1, <4>1 DEF Born, Typed, TypedWorkers
      <3>4. Working(n)
        BY <3>3 DEF Working, Typed, TypedWorkers
      <3> QED BY <2>1, <3>2, <3>4 DEF Opening
    <2>2. Opening(l) => l[1] \in Holders(l) /\ IsInput(l[1])
      BY <1>1, LineageIs, SourceIsInput DEF Opening, Holders
    <2> QED BY <2>1, <2>2 DEF Holders
  <1>4. tracker[l].open = Cardinality({n \in Holders(l) : IsInput(n)})
    <2>1. Cardinality({l[1]}) = 1 /\ Cardinality({}) = 0
      BY FS_Singleton, FS_EmptySet
    <2> QED BY <1>1, <1>3, <2>1 DEF CountsOf
  <1> QED BY <1>1, <1>2, <1>4 DEF CountsOf

LEMMA AllBranches ==
    ASSUME Books, OneLine, failure # "lineage"
    PROVE  CompletedAllBranches
  <1> USE DEF Books
  <1>1. DOMAIN tracker \cap done = {} /\ done \subseteq Lineages
    BY DEF Typed, TypedLineages
  <1> SUFFICES ASSUME NEW n \in Nodes
               PROVE  /\ \A t \in ToSet(queue[n]) \cup ToSet(ready[n]) : t.line \notin done
                      /\ DOMAIN groups[n] \cap done = {}
                      /\ task[n].line \notin done
    BY DEF CompletedAllBranches
  <1>2. \A t \in ToSet(queue[n]) : t.line \notin done
    BY <1>1, Carried DEF ToSet
  <1>3. \A t \in ToSet(ready[n]) : t.line \notin done
    <2> SUFFICES ASSUME NEW i \in DOMAIN ready[n] PROVE ready[n][i].line \notin done
      BY DEF ToSet
    <2>1. ready[n] \in Seq(AllTasks) /\ ready[n] # <<>> /\ pc[n] = "put"
      BY DEF Typed, TypedWorkers
    <2>2. 1 \in DOMAIN ready[n] /\ Head(ready[n]) = ready[n][1]
      BY <2>1
    <2>3. ready[n][i].line = Head(ready[n]).line
      BY <2>2 DEF OneLine
    <2> QED BY <1>1, <2>1, <2>3, Carried
  <1>4. task[n].line \notin done
    <2>1. CASE task[n] = NoTask
      BY <1>1, <2>1, LineOf
    <2>2. CASE Working(n)
      BY <1>1, <2>2, Carried
    <2>3. CASE task[n] # NoTask /\ pc[n] = "execute" /\ IsInput(n)
      BY <2>3 DEF Births, Born
    <2>4. CASE task[n] # NoTask /\ ~ IsInput(n)
      <3> DEFINE l == task[n].line
      <3>1. l \in Lineages
        BY <2>4, LineOf DEF Typed, TypedWorkers
      <3>2. n \in Runners(l) /\ Runners(l) \in SUBSET Nodes
        BY <2>4 DEF Runners
      <3>3. l \in DOMAIN tracker
        <4> SUFFICES ASSUME l \notin DOMAIN tracker PROVE FALSE
          OBVIOUS
        <4>1. Idle(CountsOf(l)) /\ CountsOf(l) \in Counts
          BY <3>1, CountsTyped DEF Ledger, Balanced, Typed, TypedQueues
        <4>2. /\ Cardinality(Runners(l)) \in Nat /\ IsFiniteSet(Runners(l))
              /\ Cardinality(Putters(l)) \in Nat /\ Cardinality(Queued(l)) \in Nat
          <5>1. Queued(l) = QueuedIn(queue, l) /\ Putters(l) \in SUBSET Nodes
            BY DEF Queued, QueuedIn, Putters
          <5> QED BY <3>2, <5>1, NodeSets, QueuedFinite DEF Typed, TypedQueues
        <4>3. Cardinality(Runners(l)) = 0
          BY <4>1, <4>2 DEF Idle, CountsOf
        <4> QED BY <3>2, <4>2, <4>3, FS_EmptySet
      <3> QED BY <1>1, <3>3
    <2> QED BY <2>1, <2>2, <2>3, <2>4 DEF Working, Typed, TypedWorkers
  <1> QED BY <1>1, <1>2, <1>3, <1>4, Carried

(* Whose lineages a delivery makes tasks of, and where it opens a group.   *)
LEMMA AddedLines ==
    ASSUME Typed, NEW d, IsDelivery(d), ~ Added(d).fails
    PROVE  /\ Added(d).opened # {} => <<d.to, d.port>> \notin BroadcastPorts
           /\ \/ \A i \in DOMAIN Added(d).tasks : Added(d).tasks[i].line = d.packet.line
              \/ /\ <<d.to, d.port>> \in BroadcastPorts
                 /\ \A i \in DOMAIN Added(d).tasks :
                       Added(d).tasks[i].line \in DOMAIN groups[d.to]
  <1>1. CASE SingleInput(d.to)
    BY <1>1 DEF Added, Single, Task
  <1>2. CASE ~ SingleInput(d.to) /\ <<d.to, d.port>> \in BroadcastPorts
    <2> DEFINE b == With(broadcasts[d.to], d.port, d.packet)
    <2>1. Added(d) = IF RequiredItems(d.to) = {} /\ RequiredBroadcasts(d.to) \subseteq DOMAIN b
                     THEN BroadcastOnly(d, b) ELSE PopGroups(d.to, b)
      BY <1>2 DEF Added, AddBroadcast
    <2>2. IsBroadcast(b, d.to)
      BY WithBroadcast
    <2> HIDE DEF b
    <2>3. CASE Added(d) = BroadcastOnly(d, b)
      BY <2>3 DEF BroadcastOnly, Task
    <2>4. CASE Added(d) = PopGroups(d.to, b)
      <3> DEFINE m == d.to
                 ts == FlattenSeq(PoppedLists(m, b))
      <3>1. m \in Nodes /\ ~ PopGroups(m, b).fails
        BY <2>4 DEF IsDelivery
      <3>2. /\ Added(d).tasks = ts /\ Added(d).opened = {}
            /\ \A i \in DOMAIN ts : \E l \in DOMAIN groups[m] :
                 \E k \in 1..Pops(m, groups[m][l], b) : ts[i] = Popped(m, l, groups[m][l], b, k)
        <4>1. PopGroups(m, b).opened = {}
          BY DEF PopGroups
        <4> HIDE DEF m
        <4> QED BY <2>2, <2>4, <3>1, <4>1, PoppedListsIs DEF m
      <3> HIDE DEF ts, m
      <3>3. \A i \in DOMAIN ts : ts[i].line \in DOMAIN groups[m]
        <4> TAKE i \in DOMAIN ts
        <4>1. PICK l \in DOMAIN groups[m] :
                 \E k \in 1..Pops(m, groups[m][l], b) : ts[i] = Popped(m, l, groups[m][l], b, k)
          BY <3>2
        <4>2. PICK k \in 1..Pops(m, groups[m][l], b) : ts[i] = Popped(m, l, groups[m][l], b, k)
          BY <4>1
        <4> QED BY <4>2 DEF Popped
      <3> QED BY <1>2, <3>2, <3>3 DEF m
    <2> QED BY <2>1, <2>3, <2>4
  <1>3. CASE ~ SingleInput(d.to) /\ <<d.to, d.port>> \notin BroadcastPorts
    <2> DEFINE m == d.to
               l == d.packet.line
               items == Grown(d)
               b == broadcasts[m]
    <2>1. Added(d).tasks = IF RequiredItems(m) \subseteq DOMAIN items
                           THEN PoppedOf(m, l, items, b) ELSE <<>>
      BY <1>3 DEF Added, AddItem
    <2>2. \A i \in DOMAIN PoppedOf(m, l, items, b) : PoppedOf(m, l, items, b)[i].line = l
      BY DEF PoppedOf, Popped
    <2> QED BY <1>3, <2>1, <2>2
  <1> QED BY <1>1, <1>2, <1>3

(* A group of m waits for a lineage that can come to m.                    *)
LEMMA WaitingIs ==
    ASSUME NEW from, Bounds(from), NEW m \in Nodes
    PROVE  \A l \in Waiting(from, m) : l \in Lineages /\ l[1] \in from[m]
  <1> SUFFICES ASSUME NEW l \in Waiting(from, m) PROVE l \in Lineages /\ l[1] \in from[m]
    OBVIOUS
  <1>1. PICK n \in Nodes : \E o \in Outputs[n] : \E i \in DOMAIN Targets[n][o] :
            \E p \in Inputs[m] : l[1] \in from[n] /\ LeadsTo(n, o, i, m, p)
    BY DEF Waiting
  <1>2. PICK o \in Outputs[n] : \E i \in DOMAIN Targets[n][o] :
            \E p \in Inputs[m] : l[1] \in from[n] /\ LeadsTo(n, o, i, m, p)
    BY <1>1
  <1>3. PICK i \in DOMAIN Targets[n][o] :
            \E p \in Inputs[m] : l[1] \in from[n] /\ LeadsTo(n, o, i, m, p)
    BY <1>2
  <1>4. l[1] \in from[n] /\ Targets[n][o][i].to = m
    BY <1>3 DEF LeadsTo
  <1>5. from[n] \subseteq from[Targets[n][o][i].to]
    BY DEF Bounds
  <1> QED BY <1>4, <1>5 DEF Waiting

LEMMA DeliverPlaces ==
    ASSUME NEW from, Bounds(from), Typed, Places(from), NEW n \in Nodes, Deliver(n)
    PROVE  Places(from)' /\ (OneWaitsForBroadcast(from) /\ OneLine => OneLine')
  <1> DEFINE d == Delivery(n)
             r == Added(d)
             m == d.to
             l == task[n].line
             o == Head(todo[n])
  <1>1. /\ Routes(n) /\ edge[n] <= Len(Edges(n)) /\ AddedOK(d, r) /\ ~ r.fails
        /\ groups' = [groups EXCEPT ![m] = r.groups]
        /\ UNCHANGED <<queue, task>>
    BY DeliverIs
  <1>2. /\ IsDelivery(d) /\ d.packet = [line |-> l, num |-> serial[<<n, l, o>>] + 1]
        /\ task[n] \in AllTasks /\ l \in Lineages /\ o \in Outputs[n]
        /\ LeadsTo(n, o, edge[n], m, d.port)
    BY <1>1, DeliveryIs
  <1>3. /\ \A k \in Nodes : k # n => ready'[k] = ready[k]
        /\ ready'[n] \in {<<>>, r.tasks}
    BY DeliverProceeds
  <1>4. /\ r.opened # {} => <<m, d.port>> \notin BroadcastPorts
        /\ \/ \A i \in DOMAIN r.tasks : r.tasks[i].line = d.packet.line
           \/ /\ <<m, d.port>> \in BroadcastPorts
              /\ \A i \in DOMAIN r.tasks : r.tasks[i].line \in DOMAIN groups[m]
    BY <1>1, <1>2, AddedLines
  <1> HIDE DEF r, d
  <1>5. m \in Nodes /\ d.port \in Inputs[m] /\ d.packet.line = l
    BY <1>2 DEF IsDelivery
  <1> HIDE DEF m
  <1>6. l[1] \in from[n] /\ l[1] \in from[m]
    <2>1. l[1] \in from[n]
      BY <1>2, LineOf DEF Places
    <2>2. edge[n] \in DOMAIN Targets[n][o] /\ Targets[n][o][edge[n]].to = m
      BY <1>2 DEF LeadsTo
    <2> QED BY <1>2, <2>1, <2>2 DEF Bounds
  <1>7. DOMAIN groups[m] \subseteq Waiting(from, m)
    BY <1>5 DEF Places
  <1>8. DOMAIN r.groups \subseteq Waiting(from, m)
    <2>1. <<m, d.port>> \notin BroadcastPorts => l \in Waiting(from, m)
      <3>1. edge[n] \in DOMAIN Targets[n][o]
        BY <1>2 DEF LeadsTo
      <3> QED BY <1>2, <1>5, <1>6, <3>1 DEF Waiting
    <2>2. DOMAIN r.groups \subseteq DOMAIN groups[m] \cup r.opened /\ r.opened \subseteq {l}
      BY <1>1, <1>5 DEF AddedOK, m
    <2> QED BY <1>4, <1>7, <2>1, <2>2
  <1>9. /\ \A i \in DOMAIN r.tasks : r.tasks[i].to = m /\ r.tasks[i].line[1] \in from[m]
        /\ OneWaitsForBroadcast(from) =>
              \A i, j \in DOMAIN r.tasks : r.tasks[i].line = r.tasks[j].line
    <2>1. \A i \in DOMAIN r.tasks : r.tasks[i].to = m
      BY <1>1 DEF AddedOK, m
    <2>2. CASE \A i \in DOMAIN r.tasks : r.tasks[i].line = d.packet.line
      BY <1>5, <1>6, <2>1, <2>2
    <2>3. CASE /\ <<m, d.port>> \in BroadcastPorts
               /\ \A i \in DOMAIN r.tasks : r.tasks[i].line \in DOMAIN groups[m]
      <3>1. \A x \in Waiting(from, m) : x[1] \in from[m]
        BY <1>5, WaitingIs
      <3>2. OneWaitsForBroadcast(from) => \A x, y \in Waiting(from, m) : x = y
        BY <1>5, <2>3 DEF OneWaitsForBroadcast
      <3> QED BY <1>7, <2>1, <2>3, <3>1, <3>2
    <2> QED BY <1>4, <2>2, <2>3
  <1>10. /\ groups'[m] = r.groups /\ \A k \in Nodes : k # m => groups'[k] = groups[k]
    BY <1>1, <1>5 DEF Typed, TypedJoins
  <1>11. ASSUME NEW k \in Nodes
         PROVE  /\ \A i \in DOMAIN ready'[k] : ready'[k][i].line[1] \in from[ready'[k][i].to]
                /\ OneWaitsForBroadcast(from) /\ OneLine =>
                      \A i, j \in DOMAIN ready'[k] : ready'[k][i].line = ready'[k][j].line
    <2>1. CASE ready'[k] = ready[k]
      BY <2>1 DEF Places, OneLine
    <2>2. CASE ready'[k] = r.tasks
      BY <1>9, <2>2
    <2>3. CASE ready'[k] = <<>>
      BY <2>3
    <2> QED BY <1>3, <2>1, <2>2, <2>3
  <1>12. Places(from)'
    BY <1>1, <1>8, <1>10, <1>11 DEF Places
  <1> QED BY <1>11, <1>12 DEF OneLine

LEMMA AdmitPlaces ==
    ASSUME NEW from, Typed, Places(from), NEW n \in Nodes, Admit(n)
    PROVE  Places(from)' /\ (OneLine => OneLine')
  <1> DEFINE h == Head(ready[n])
             rest == Tail(ready[n])
  <1>1. /\ failure = "none" /\ pc[n] = "put" /\ Working(n)
        /\ h \in AllTasks /\ h.to \in Nodes
        /\ h = ready[n][1] /\ 1 \in DOMAIN ready[n] /\ rest \in Seq(AllTasks)
        /\ \A i \in DOMAIN rest : i + 1 \in DOMAIN ready[n] /\ rest[i] = ready[n][i + 1]
        /\ queue' = [queue EXCEPT ![h.to] = Append(@, h)]
        /\ Proceed(n, rest, closing[n], tracker)
        /\ UNCHANGED <<task, groups>>
    BY AdmitIs
  <1>2. closing[n] \in SUBSET Lineages /\ DOMAIN tracker \subseteq Lineages \ done
        /\ tracker = [l \in DOMAIN tracker |-> tracker[l]]
    BY DEF Typed, TypedWorkers, TypedLineages
  <1>3. /\ \A k \in Nodes : k # n => ready'[k] = ready[k]
        /\ ready'[n] \in {rest, ready[n]}
    <2>1. /\ \A k \in Nodes : k # n => pc'[k] = pc[k] /\ ready'[k] = ready[k]
                                       /\ closing'[k] = closing[k]
          /\ failure' = "none" =>
                ready'[n] = rest /\ closing'[n] = IF rest = <<>> THEN {} ELSE closing[n]
          /\ failure' # "none" => failure' = "lineage" /\ ready'[n] = ready[n]
                                  /\ closing'[n] = closing[n]
      <3>1. /\ failure = "none" /\ Working(n) /\ rest \in Seq(AllTasks)
            /\ Proceed(n, rest, closing[n], tracker)
        BY <1>1
      <3> HIDE DEF rest, h
      <3> QED BY <1>2, <3>1, ProceedTyped
    <2> QED BY <2>1
  <1> HIDE DEF rest, h
  <1>4. ASSUME NEW k \in Nodes
        PROVE  /\ \A i \in DOMAIN ready'[k] : ready'[k][i].line[1] \in from[ready'[k][i].to]
               /\ OneLine =>
                    \A i, j \in DOMAIN ready'[k] : ready'[k][i].line = ready'[k][j].line
    <2>1. CASE ready'[k] = ready[k]
      BY <2>1 DEF Places, OneLine
    <2>2. CASE k = n /\ ready'[n] = rest
      BY <1>1, <2>2 DEF Places, OneLine
    <2> QED BY <1>3, <2>1, <2>2
  <1>5. ASSUME NEW k \in Nodes
        PROVE  \A i \in DOMAIN queue'[k] : queue'[k][i].line[1] \in from[k]
    <2>1. CASE k = h.to
      <3>1. queue[k] \in Seq(AllTasks) /\ queue'[k] = Append(queue[k], h)
        BY <1>1, <2>1 DEF Typed, TypedQueues
      <3>2. /\ DOMAIN queue'[k] = 1..(Len(queue[k]) + 1) /\ DOMAIN queue[k] = 1..Len(queue[k])
            /\ Len(queue[k]) \in Nat /\ queue'[k][Len(queue[k]) + 1] = h
            /\ \A i \in 1..Len(queue[k]) : queue'[k][i] = queue[k][i]
        <4>1. LET a == Append(queue[k], h)
              IN  /\ DOMAIN a = 1..(Len(queue[k]) + 1) /\ DOMAIN queue[k] = 1..Len(queue[k])
                  /\ Len(queue[k]) \in Nat /\ a[Len(queue[k]) + 1] = h
                  /\ \A i \in 1..Len(queue[k]) : a[i] = queue[k][i]
          BY <1>1, <3>1, AppendIs
        <4> QED BY <3>1, <4>1
      <3>3. h.line[1] \in from[k]
        BY <1>1, <2>1 DEF Places
      <3>4. \A i \in DOMAIN queue'[k] : i \in DOMAIN queue[k] \/ i = Len(queue[k]) + 1
        BY <3>2
      <3> QED BY <3>2, <3>3, <3>4 DEF Places
    <2>2. CASE k # h.to
      BY <1>1, <2>2 DEF Typed, TypedQueues, Places
    <2> QED BY <2>1, <2>2
  <1>6. Places(from)'
    BY <1>1, <1>4, <1>5 DEF Places
  <1> QED BY <1>4, <1>6 DEF OneLine

LEMMA OtherPlaces ==
    ASSUME NEW from, Bounds(from), Typed, Places(from), NEW n \in Nodes,
           \/ Collect(n) \/ Execute(n) \/ NextPacket(n) \/ DeliverFails(n) \/ Wait(n)
           \/ Finish(n)
    PROVE  Places(from)' /\ (OneLine => OneLine')
  <1>1. UNCHANGED <<ready, groups>>
    BY DEF Collect, Execute, NextPacket, DeliverFails, Wait, Finish, joins, routing
  <1>2. CASE Collect(n)
    <2>1. CASE IsInput(n)
      <3>1. task' = [task EXCEPT ![n] = Source(n, <<n, left[n]>>)] /\ queue' = queue
        BY <1>2, <2>1 DEF Collect
      <3>2. /\ task'[n].line[1] = n /\ n \in from[n]
            /\ \A k \in Nodes : k # n => task'[k] = task[k]
        BY <2>1, <3>1 DEF Source, Bounds, Typed, TypedWorkers
      <3> QED BY <1>1, <3>1, <3>2 DEF Places, OneLine
    <2>2. CASE ~ IsInput(n)
      <3>1. /\ queue[n] # <<>> /\ queue' = [queue EXCEPT ![n] = Tail(@)]
            /\ task' = [task EXCEPT ![n] = Head(queue[n])]
        BY <1>2, <2>2 DEF Collect
      <3>2. queue[n] \in Seq(AllTasks)
        BY DEF Typed, TypedQueues
      <3>3. /\ Head(queue[n]) = queue[n][1] /\ 1 \in DOMAIN queue[n]
            /\ \A i \in DOMAIN Tail(queue[n]) :
                  i + 1 \in DOMAIN queue[n] /\ Tail(queue[n])[i] = queue[n][i + 1]
        BY <3>1, <3>2
      <3>4. /\ task'[n].line[1] \in from[n] /\ \A k \in Nodes : k # n => task'[k] = task[k]
        BY <3>1, <3>3 DEF Places, Typed, TypedWorkers
      <3>5. /\ \A i \in DOMAIN queue'[n] : queue'[n][i].line[1] \in from[n]
            /\ \A k \in Nodes : k # n => queue'[k] = queue[k]
        BY <3>1, <3>3 DEF Places, Typed, TypedQueues
      <3> QED BY <1>1, <3>4, <3>5 DEF Places, OneLine
    <2> QED BY <2>1, <2>2
  <1>3. CASE Finish(n)
    <2>1. /\ queue' = queue /\ task'[n] = NoTask
          /\ \A k \in Nodes : k # n => task'[k] = task[k]
      BY <1>3 DEF Finish, Typed, TypedWorkers
    <2> QED BY <1>1, <2>1 DEF Places, OneLine
  <1>4. CASE Execute(n) \/ NextPacket(n) \/ DeliverFails(n) \/ Wait(n)
    <2>1. UNCHANGED <<queue, task>>
      BY <1>4 DEF Execute, NextPacket, DeliverFails, Wait, routing
    <2> QED BY <1>1, <2>1 DEF Places, OneLine
  <1> QED BY <1>2, <1>3, <1>4

(* The invariant where one lineage at most waits for a broadcast.          *)
Exact(from) == Books /\ Places(from) /\ OneLine /\ failure # "lineage"

LEMMA SpecExact ==
    ASSUME NEW from, Bounds(from), OneWaitsForBroadcast(from)
    PROVE  Spec => []Exact(from)
  <1>1. Init => Exact(from)
    <2> SUFFICES ASSUME Init PROVE Exact(from)
      OBVIOUS
    <2>1. \A n \in Nodes : task[n] = NoTask /\ queue[n] = <<>> /\ ready[n] = <<>>
                           /\ DOMAIN groups[n] = {}
      BY DEF Init
    <2>2. failure # "lineage"
      BY DEF Init
    <2> QED BY <2>1, <2>2, InitBooks DEF Exact, Places, OneLine
  <1>2. Exact(from) /\ [Next]_vars => Exact(from)'
    <2> SUFFICES ASSUME Exact(from), [Next]_vars PROVE Exact(from)'
      OBVIOUS
    <2> USE DEF Exact
    <2>1. CASE UNCHANGED vars
      <3>1. Books'
        BY <2>1, StutterBooks
      <3> QED BY <2>1, <3>1 DEF vars, routing, joins, Places, OneLine
    <2>2. CASE Next
      <3>1. PICK n \in Nodes : Work(n)
        BY <2>2 DEF Next
      <3>2. Books' /\ failure' # "lineage"
        BY <3>1, StepBooks, KnownLineages
      <3>3. Places(from)' /\ OneLine'
        BY <3>1, DeliverPlaces, AdmitPlaces, OtherPlaces DEF Work, Books
      <3> QED BY <3>2, <3>3
    <2> QED BY <2>1, <2>2
  <1> QED BY <1>1, <1>2, PTL DEF Spec

(* In every graph in which lineages never meet at a broadcast, and however *)
(* the workers interleave, the tracker counts exactly what carries a       *)
(* lineage, and never meets one it does not know.                          *)
THEOREM CountsExact ==
    ASSUME NEW from, Bounds(from), OneWaitsForBroadcast(from)
    PROVE  Spec => []CountsAreExact
  <1>1. Exact(from) => CountsAreExact
    BY ExactCounts DEF Exact
  <1> QED BY <1>1, SpecExact, PTL

(* There, nothing of a lineage that was reported completed is left.        *)
THEOREM CompletedAll ==
    ASSUME NEW from, Bounds(from), OneWaitsForBroadcast(from)
    PROVE  Spec => []CompletedAllBranches
  <1>1. Exact(from) => CompletedAllBranches
    BY AllBranches DEF Exact
  <1> QED BY <1>1, SpecExact, PTL

-----------------------------------------------------------------------------
(* Partners stay in step.                                                  *)

LEMMA PairedIs ==
    ASSUME NEW m, NEW p, Paired(m, p)
    PROVE  /\ ~ SingleInput(m) /\ p \in RequiredItems(m) /\ p \in Inputs[m]
           /\ <<m, p>> \notin ListPorts /\ <<m, p>> \notin BroadcastPorts
  BY DEF Paired, RequiredItems, Required

LEMMA RestLined ==
    ASSUME NEW m \in Nodes, NEW l, NEW items, IsBuffer(items, m), NEW b,
           ~ PopFails(m, items, b), NEW c \in Nat, Lined(m, l, items, c)
    PROVE  /\ Pops(m, items, b) \in Nat
           /\ Lined(m, l, Rest(m, items, b), c + Pops(m, items, b))
           /\ \A p : Paired(m, p) =>
                /\ Count(items, p) \in Nat /\ Count(Rest(m, items, b), p) \in Nat
                /\ Pops(m, items, b) + Count(Rest(m, items, b), p) = Count(items, p)
  <1> DEFINE e == Pops(m, items, b)
             g == Rest(m, items, b)
  <1>1. /\ e \in Nat
        /\ e > 0 => RequiredItems(m) \subseteq DOMAIN items
        /\ \A p \in DOMAIN items : items[p] \in Seq(Packets) /\ Len(items[p]) \in Nat
                                   /\ e <= Len(items[p])
    BY PopsIs
  <1>2. g = [p \in DOMAIN items |->
                IF e = 0 THEN items[p]
                ELSE IF <<m, p>> \in ListPorts THEN <<>>
                ELSE SubSeq(items[p], e + 1, Len(items[p]))]
    BY DEF Rest
  <1> HIDE DEF e, g
  <1>3. ASSUME NEW p \in DOMAIN items, Paired(m, p)
        PROVE  /\ g[p] \in Seq(Packets) /\ Len(g[p]) = Len(items[p]) - e
               /\ DOMAIN g[p] = 1..(Len(items[p]) - e)
               /\ \A k \in 1..(Len(items[p]) - e) :
                    /\ e + k \in DOMAIN items[p]
                    /\ g[p][k] = items[p][e + k]
    <2>1. items[p] \in Seq(Packets) /\ Len(items[p]) \in Nat /\ e <= Len(items[p])
      BY <1>1
    <2>2. CASE e = 0
      <3>1. g[p] = items[p]
        BY <1>2, <2>2
      <3> QED BY <2>1, <2>2, <3>1
    <2>3. CASE e # 0
      <3> DEFINE q == items[p]
                 f == SubSeq(q, e + 1, Len(q))
      <3>1. g[p] = f
        BY <1>2, <1>3, <2>3, PairedIs
      <3>2. e + 1 \in Int /\ Len(q) \in Int /\ e + 1 >= 1
        BY <1>1, <2>1
      <3> HIDE DEF q
      <3>3. /\ f \in Seq(Packets) /\ Len(f) = Len(q) - e
            /\ \A k \in 1..(Len(q) - e) : f[k] = q[e + k] /\ e + k \in 1..Len(q)
        BY <1>1, <2>1, <2>3 DEF q
      <3>4. DOMAIN f = 1..Len(f) /\ DOMAIN q = 1..Len(q)
        BY <2>1, <3>3, LenProperties DEF q
      <3> HIDE DEF f
      <3> QED BY <3>1, <3>3, <3>4 DEF q
    <2> QED BY <2>2, <2>3
  <1>4. Lined(m, l, g, c + e)
    <2> SUFFICES ASSUME NEW p \in DOMAIN g, Paired(m, p), NEW k \in DOMAIN g[p]
                 PROVE  g[p][k] = [line |-> l, num |-> c + e + k]
      BY DEF Lined
    <2>1. p \in DOMAIN items
      BY <1>2
    <2>2. /\ k \in 1..(Len(items[p]) - e) /\ e + k \in DOMAIN items[p]
          /\ g[p][k] = items[p][e + k]
      BY <1>3, <2>1
    <2>3. items[p][e + k] = [line |-> l, num |-> c + (e + k)]
      BY <2>1, <2>2 DEF Lined
    <2>4. c + (e + k) = c + e + k
      BY <1>1, <2>2
    <2> QED BY <2>2, <2>3, <2>4
  <1>5. ASSUME NEW p, Paired(m, p)
        PROVE  /\ Count(items, p) \in Nat /\ Count(g, p) \in Nat
               /\ e + Count(g, p) = Count(items, p)
    <2>1. CASE p \in DOMAIN items
      <3>1. p \in DOMAIN g
        BY <1>2, <2>1
      <3>2. /\ Len(g[p]) = Len(items[p]) - e /\ Len(items[p]) \in Nat /\ e <= Len(items[p])
        BY <1>1, <1>3, <1>5, <2>1
      <3> QED BY <1>1, <2>1, <3>1, <3>2 DEF Count
    <2>2. CASE p \notin DOMAIN items
      <3>1. e = 0
        <4>1. p \in RequiredItems(m)
          BY <1>5 DEF Paired
        <4> QED BY <1>1, <2>2, <4>1
      <3>2. p \notin DOMAIN g
        BY <1>2, <2>2
      <3> QED BY <2>2, <3>1, <3>2 DEF Count
    <2> QED BY <2>1, <2>2
  <1> QED BY <1>1, <1>4, <1>5 DEF e, g

LEMMA PoppedInStep ==
    ASSUME NEW m \in Nodes, NEW l, NEW items, IsBuffer(items, m), NEW b,
           ~ PopFails(m, items, b), Lined(m, l, items, built[<<m, l>>]),
           \A p \in DOMAIN b : <<m, p>> \in BroadcastPorts,
           NEW k \in 1..Pops(m, items, b)
    PROVE  InStep(Popped(m, l, items, b, k))
  <1> DEFINE t == Popped(m, l, items, b, k)
             c == Pops(m, items, b)
  <1>1. /\ c \in Nat
        /\ c > 0 => RequiredItems(m) \subseteq DOMAIN items
        /\ \A p \in DOMAIN items : /\ items[p] \in Seq(Packets) /\ Len(items[p]) \in Nat
                                   /\ c <= Len(items[p])
    BY PopsIs
  <1>2. /\ t.to = m /\ t.line = l /\ t.nth = built[<<m, l>>] + k
        /\ t.inputs = [p \in DOMAIN items \cup DOMAIN b |->
                         IF p \in DOMAIN b THEN <<b[p]>>
                         ELSE IF <<m, p>> \in ListPorts THEN items[p]
                         ELSE <<items[p][k]>>]
    BY DEF Popped
  <1> HIDE DEF t
  <1> SUFFICES ASSUME NEW p \in RequiredItems(m), Paired(m, p)
               PROVE  t.inputs[p] = <<[line |-> l, num |-> built[<<m, l>>] + k]>>
    BY <1>2 DEF InStep, t
  <1>3. k \in 1..c
    OBVIOUS
  <1> HIDE DEF c
  <1>4. p \in DOMAIN items /\ p \notin DOMAIN b /\ <<m, p>> \notin ListPorts
    BY <1>1, <1>3, PairedIs
  <1>5. k \in DOMAIN items[p]
    BY <1>1, <1>3, <1>4
  <1>6. items[p][k] = [line |-> l, num |-> built[<<m, l>>] + k]
    BY <1>4, <1>5 DEF Lined
  <1> QED BY <1>2, <1>4, <1>6

(* The effect of a delivery on how many packets have come to the ports.    *)
PoppedIn(r, k) == IF k \in DOMAIN r.popped THEN r.popped[k] ELSE 0
HeldIn(r, k, p) == IF k \in DOMAIN r.groups THEN Count(r.groups[k], p) ELSE 0

LinedGroups(m) ==
    \A l \in DOMAIN groups[m] : Lined(m, l, groups[m][l], built[<<m, l>>])

OnBroadcastPorts(m, b) == \A p \in DOMAIN b : <<m, p>> \in BroadcastPorts

Comes(d, k, p) == k = d.packet.line /\ p = d.port

StepsKept(d, r) ==
    LET m == d.to
    IN  /\ \A i \in DOMAIN r.tasks : InStep(r.tasks[i])
        /\ OnBroadcastPorts(m, r.broadcasts)
        /\ \A k \in DOMAIN r.groups :
              Lined(m, k, r.groups[k], built[<<m, k>>] + PoppedIn(r, k))
        /\ \A k \in Lineages : \A p : Paired(m, p) =>
              /\ PoppedIn(r, k) \in Nat /\ HeldIn(r, k, p) \in Nat /\ Held(m, k, p) \in Nat
              /\ PoppedIn(r, k) + HeldIn(r, k, p) = Held(m, k, p) + One(Comes(d, k, p))

LEMMA PopGroupsSteps ==
    ASSUME Typed, NEW d, IsDelivery(d), NEW b, IsBroadcast(b, d.to), OnBroadcastPorts(d.to, b),
           <<d.to, d.port>> \in BroadcastPorts, ~ PopGroups(d.to, b).fails, LinedGroups(d.to)
    PROVE  StepsKept(d, PopGroups(d.to, b))
  <1> DEFINE m == d.to
             gs == groups[m]
             r == PopGroups(m, b)
             ts == FlattenSeq(PoppedLists(m, b))
  <1>1. m \in Nodes
    BY DEF IsDelivery
  <1>2. /\ r.tasks = ts
        /\ \A l \in DOMAIN gs : ~ PopFails(m, gs[l], b)
        /\ \A i \in DOMAIN ts : \E l \in DOMAIN gs :
             \E k \in 1..Pops(m, gs[l], b) : ts[i] = Popped(m, l, gs[l], b, k)
    BY <1>1, PoppedListsIs
  <1> HIDE DEF ts
  <1>3. /\ r.closed = {l \in DOMAIN gs : AllEmpty(Rest(m, gs[l], b))} /\ r.broadcasts = b
        /\ DOMAIN r.groups = DOMAIN gs \ r.closed
        /\ \A l \in DOMAIN r.groups : r.groups[l] = Rest(m, gs[l], b)
        /\ DOMAIN r.popped = DOMAIN gs
        /\ \A l \in DOMAIN gs : r.popped[l] = Pops(m, gs[l], b)
    BY DEF PopGroups
  <1>4. /\ \A l \in DOMAIN gs : IsBuffer(gs[l], m) /\ Lined(m, l, gs[l], built[<<m, l>>])
        /\ DOMAIN gs \subseteq Lineages
        /\ \A l \in Lineages : built[<<m, l>>] \in Nat
    BY <1>1 DEF Typed, TypedJoins, JoinsOK, LinedGroups
  <1>5. \A p \in DOMAIN b : <<m, p>> \in BroadcastPorts
    BY DEF OnBroadcastPorts
  <1>b. <<m, d.port>> \in BroadcastPorts
    OBVIOUS
  <1> HIDE DEF r, gs, m
  <1>6. ASSUME NEW i \in DOMAIN ts PROVE InStep(ts[i])
    <2>1. PICK l \in DOMAIN gs :
             \E k \in 1..Pops(m, gs[l], b) : ts[i] = Popped(m, l, gs[l], b, k)
      BY <1>2
    <2>2. PICK k \in 1..Pops(m, gs[l], b) : ts[i] = Popped(m, l, gs[l], b, k)
      BY <2>1
    <2>3. InStep(Popped(m, l, gs[l], b, k))
      BY <1>1, <1>2, <1>4, <1>5, PoppedInStep
    <2> QED BY <2>2, <2>3
  <1>7. ASSUME NEW l \in DOMAIN gs
        PROVE  /\ Pops(m, gs[l], b) \in Nat
               /\ Lined(m, l, Rest(m, gs[l], b), built[<<m, l>>] + Pops(m, gs[l], b))
               /\ \A p : Paired(m, p) =>
                    /\ Count(gs[l], p) \in Nat /\ Count(Rest(m, gs[l], b), p) \in Nat
                    /\ Pops(m, gs[l], b) + Count(Rest(m, gs[l], b), p) = Count(gs[l], p)
    BY <1>1, <1>2, <1>4, RestLined
  <1>8. ASSUME NEW k \in DOMAIN r.groups
        PROVE  Lined(m, k, r.groups[k], built[<<m, k>>] + PoppedIn(r, k))
    BY <1>3, <1>7 DEF PoppedIn
  <1>9. ASSUME NEW k \in Lineages, NEW p, Paired(m, p)
        PROVE  /\ PoppedIn(r, k) \in Nat /\ HeldIn(r, k, p) \in Nat /\ Held(m, k, p) \in Nat
               /\ PoppedIn(r, k) + HeldIn(r, k, p) = Held(m, k, p) + One(Comes(d, k, p))
    <2>1. One(Comes(d, k, p)) = 0
      BY <1>9, <1>b, PairedIs DEF One, Comes
    <2>2. CASE k \notin DOMAIN gs
      <3>1. PoppedIn(r, k) = 0 /\ HeldIn(r, k, p) = 0 /\ Held(m, k, p) = 0
        BY <1>3, <2>2 DEF PoppedIn, HeldIn, Held, gs
      <3> QED BY <2>1, <3>1
    <2>3. CASE k \in DOMAIN gs
      <3> DEFINE e == Pops(m, gs[k], b)
                 g == Rest(m, gs[k], b)
      <3>1. PoppedIn(r, k) = e /\ Held(m, k, p) = Count(gs[k], p)
        BY <1>3, <2>3 DEF PoppedIn, Held, gs
      <3>2. /\ e \in Nat /\ Count(gs[k], p) \in Nat /\ Count(g, p) \in Nat
            /\ e + Count(g, p) = Count(gs[k], p)
        BY <1>7, <1>9, <2>3
      <3>3. HeldIn(r, k, p) = Count(g, p)
        <4>1. CASE k \in DOMAIN r.groups
          BY <1>3, <4>1 DEF HeldIn
        <4>2. CASE k \notin DOMAIN r.groups
          <5>1. AllEmpty(g)
            BY <1>3, <2>3, <4>2
          <5>2. Count(g, p) = 0
            BY <5>1 DEF AllEmpty, Count
          <5> QED BY <4>2, <5>2 DEF HeldIn
        <4> QED BY <4>1, <4>2
      <3> HIDE DEF e, g
      <3> QED BY <2>1, <3>1, <3>2, <3>3
    <2> QED BY <2>2, <2>3
  <1>10. OnBroadcastPorts(m, r.broadcasts)
    BY <1>3, <1>5 DEF OnBroadcastPorts
  <1>11. \A i \in DOMAIN r.tasks : InStep(r.tasks[i])
    BY <1>2, <1>6
  <1> QED BY <1>8, <1>9, <1>10, <1>11 DEF StepsKept, r, m

LEMMA AddItemSteps ==
    ASSUME Typed, NEW d, IsDelivery(d), ~ AddItem(d).fails, LinedGroups(d.to),
           OnBroadcastPorts(d.to, broadcasts[d.to]),
           Paired(d.to, d.port) =>
              d.packet.num = built[<<d.to, d.packet.line>>]
                             + Held(d.to, d.packet.line, d.port) + 1
    PROVE  StepsKept(d, AddItem(d))
  <1> DEFINE m == d.to
             l == d.packet.line
             x == d.packet
             gs == groups[m]
             old == IF l \in DOMAIN gs THEN gs[l] ELSE <<>>
             items == Grown(d)
             b == broadcasts[m]
             c == built[<<m, l>>]
             full == RequiredItems(m) \subseteq DOMAIN items
             e == IF full THEN Pops(m, items, b) ELSE 0
             rest == IF full THEN Rest(m, items, b) ELSE items
             ts == IF full THEN PoppedOf(m, l, items, b) ELSE <<>>
             r == AddItem(d)
  <1>1. /\ m \in Nodes /\ l \in Lineages /\ x \in Packets /\ x.line = l
        /\ x = [line |-> l, num |-> x.num] /\ d.port \in Inputs[m]
    BY DEF IsDelivery, Packets
  <1>2. /\ IsBuffer(items, m) /\ c \in Nat
        /\ \A k \in Lineages : built[<<m, k>>] \in Nat
        /\ \A k \in DOMAIN gs : IsBuffer(gs[k], m) /\ Lined(m, k, gs[k], built[<<m, k>>])
    BY <1>1, GrownIs DEF Typed, TypedJoins, JoinsOK, LinedGroups
  <1>3. IsBuffer(old, m) /\ Lined(m, l, old, c)
    <2>1. CASE l \in DOMAIN gs
      BY <1>2, <2>1
    <2>2. CASE l \notin DOMAIN gs
      <3>1. IsBuffer(<<>>, m) /\ Lined(m, l, <<>>, c)
        BY DEF IsBuffer, Lined
      <3>2. old = <<>>
        BY <2>2
      <3> HIDE DEF old, c, l, m
      <3> QED BY <3>1, <3>2
    <2> QED BY <2>1, <2>2
  <1>4. items = With(old, d.port, IF d.port \in DOMAIN old
                                  THEN Append(old[d.port], x) ELSE <<x>>)
    BY DEF Grown
  <1>5. \A p : Held(m, l, p) = Count(old, p)
    BY DEF Held, Count
  <1>6. /\ full => ~ PopFails(m, items, b)
        /\ r.closed = IF AllEmpty(rest) THEN {l} ELSE {}
        /\ r.popped = [k \in {l} |-> e] /\ r.broadcasts = b /\ r.tasks = ts
        /\ r.groups = IF AllEmpty(rest) THEN Without(gs, {l}) ELSE With(gs, l, rest)
    BY DEF AddItem
  <1>7. OnBroadcastPorts(m, b)
    OBVIOUS
  <1>8. Paired(m, d.port) => x.num = c + Count(old, d.port) + 1
    BY <1>5
  <1> HIDE DEF r, b, c, items, old, l, m, x, gs
  <1>9. ASSUME NEW p, Paired(m, p)
        PROVE  /\ Count(old, p) \in Nat /\ Count(items, p) \in Nat
               /\ Count(items, p) = Count(old, p) + (IF p = d.port THEN 1 ELSE 0)
               /\ p \in DOMAIN items => \A k \in DOMAIN items[p] :
                     items[p][k] = [line |-> l, num |-> c + k]
    <2>1. \A q \in DOMAIN old : old[q] \in Seq(Packets) /\ Len(old[q]) \in Nat
      BY <1>3 DEF IsBuffer
    <2>2. Count(old, p) \in Nat
      BY <2>1 DEF Count
    <2>3. CASE p # d.port
      <3>1. p \in DOMAIN items <=> p \in DOMAIN old
        BY <1>4, <2>3 DEF With
      <3>2. p \in DOMAIN old => items[p] = old[p]
        BY <1>4, <2>3 DEF With
      <3>3. p \in DOMAIN old => \A k \in DOMAIN old[p] :
               old[p][k] = [line |-> l, num |-> c + k]
        BY <1>3, <1>9 DEF Lined
      <3>4. Count(items, p) = Count(old, p) + 0
        BY <2>2, <3>1, <3>2 DEF Count
      <3> QED BY <2>2, <2>3, <3>1, <3>2, <3>3, <3>4
    <2>4. CASE p = d.port /\ p \notin DOMAIN old
      <3>1. p \in DOMAIN items /\ items[p] = <<x>>
        BY <1>4, <2>4 DEF With
      <3>2. Count(old, p) = 0 /\ Count(items, p) = 1 /\ DOMAIN items[p] = {1}
            /\ items[p][1] = x
        BY <2>4, <3>1 DEF Count
      <3>3. x = [line |-> l, num |-> c + 1]
        BY <1>1, <1>2, <1>8, <1>9, <2>4, <3>2
      <3> QED BY <2>4, <3>1, <3>2, <3>3
    <2>5. CASE p = d.port /\ p \in DOMAIN old
      <3> DEFINE q == old[p]
      <3>1. p \in DOMAIN items /\ items[p] = Append(q, x) /\ q \in Seq(Packets)
        BY <1>4, <2>1, <2>5 DEF With
      <3>2. \A k \in DOMAIN q : q[k] = [line |-> l, num |-> c + k]
        BY <1>3, <1>9, <2>5 DEF Lined
      <3>3. Count(old, p) = Len(q)
        BY <2>5 DEF Count
      <3> HIDE DEF q
      <3>4. /\ Len(q) \in Nat /\ DOMAIN q = 1..Len(q) /\ Len(items[p]) = Len(q) + 1
            /\ DOMAIN items[p] = 1..(Len(q) + 1)
            /\ \A k \in 1..Len(q) : items[p][k] = q[k]
            /\ items[p][Len(q) + 1] = x
        BY <1>1, <3>1, AppendIs
      <3>5. x = [line |-> l, num |-> c + (Len(q) + 1)]
        <4>1. x.num = c + Len(q) + 1
          BY <1>8, <1>9, <2>5, <3>3
        <4>2. x.num = c + (Len(q) + 1)
          BY <1>2, <3>4, <4>1
        <4> QED BY <1>1, <4>2
      <3>6. \A k \in DOMAIN items[p] : k \in DOMAIN q \/ k = Len(q) + 1
        BY <3>4
      <3>7. Count(items, p) = Len(q) + 1
        BY <3>1, <3>4 DEF Count
      <3> QED BY <2>2, <2>5, <3>2, <3>3, <3>4, <3>5, <3>6, <3>7
    <2> QED BY <2>3, <2>4, <2>5
  <1>10. Lined(m, l, items, c)
    BY <1>9 DEF Lined
  <1>11. /\ e \in Nat /\ Lined(m, l, rest, c + e)
         /\ \A p : Paired(m, p) =>
              /\ Count(rest, p) \in Nat
              /\ e + Count(rest, p) = Count(old, p) + (IF p = d.port THEN 1 ELSE 0)
    <2>1. CASE full
      <3>1. /\ Pops(m, items, b) \in Nat
            /\ Lined(m, l, Rest(m, items, b), c + Pops(m, items, b))
            /\ \A p : Paired(m, p) =>
                /\ Count(items, p) \in Nat /\ Count(Rest(m, items, b), p) \in Nat
                /\ Pops(m, items, b) + Count(Rest(m, items, b), p) = Count(items, p)
        BY <1>1, <1>2, <1>6, <1>10, <2>1, RestLined
      <3> QED BY <1>9, <2>1, <3>1
    <2>2. CASE ~ full
      <3>1. e = 0 /\ rest = items /\ c + 0 = c
        BY <1>2, <2>2
      <3> HIDE DEF e, rest
      <3> QED BY <1>9, <1>10, <3>1
    <2> QED BY <2>1, <2>2
  <1>12. \A i \in DOMAIN ts : InStep(ts[i])
    <2>1. CASE full
      <3>1. DOMAIN PoppedOf(m, l, items, b) = 1..Pops(m, items, b)
            /\ \A k \in 1..Pops(m, items, b) :
                  PoppedOf(m, l, items, b)[k] = Popped(m, l, items, b, k)
        BY DEF PoppedOf
      <3>2. \A k \in 1..Pops(m, items, b) : InStep(Popped(m, l, items, b, k))
        <4>1. Lined(m, l, items, built[<<m, l>>]) /\ \A p \in DOMAIN b : <<m, p>> \in BroadcastPorts
          BY <1>7, <1>10 DEF c, OnBroadcastPorts
        <4> QED BY <1>1, <1>2, <1>6, <2>1, <4>1, PoppedInStep
      <3> QED BY <2>1, <3>1, <3>2
    <2>2. CASE ~ full
      BY <2>2
    <2> QED BY <2>1, <2>2
  <1> HIDE DEF e, rest, ts, full
  <1>13. ASSUME NEW k \in DOMAIN r.groups
         PROVE  Lined(m, k, r.groups[k], built[<<m, k>>] + PoppedIn(r, k))
    <2>1. CASE k = l
      <3>1. ~ AllEmpty(rest) /\ r.groups[k] = rest
        BY <1>6, <1>13, <2>1 DEF With, Without
      <3>2. PoppedIn(r, k) = e
        BY <1>6, <2>1 DEF PoppedIn
      <3> QED BY <1>11, <2>1, <3>1, <3>2 DEF c
    <2>2. CASE k # l
      <3>1. k \in DOMAIN gs /\ r.groups[k] = gs[k] /\ k \in Lineages
        BY <1>6, <1>13, <2>2 DEF With, Without, Typed, TypedJoins, JoinsOK, gs, IsDelivery, m
      <3>2. PoppedIn(r, k) = 0
        BY <1>6, <2>2 DEF PoppedIn
      <3>3. built[<<m, k>>] + 0 = built[<<m, k>>]
        BY <1>2, <3>1
      <3> QED BY <1>2, <3>1, <3>2, <3>3
    <2> QED BY <2>1, <2>2
  <1>14. ASSUME NEW k \in Lineages, NEW p, Paired(m, p)
         PROVE  /\ PoppedIn(r, k) \in Nat /\ HeldIn(r, k, p) \in Nat /\ Held(m, k, p) \in Nat
                /\ PoppedIn(r, k) + HeldIn(r, k, p) = Held(m, k, p) + One(Comes(d, k, p))
    <2>1. CASE k = l
      <3>1. PoppedIn(r, k) = e /\ Held(m, k, p) = Count(old, p)
        BY <1>5, <1>6, <2>1 DEF PoppedIn
      <3>2. One(Comes(d, k, p)) = IF p = d.port THEN 1 ELSE 0
        BY <2>1 DEF One, Comes, l
      <3>3. HeldIn(r, k, p) = Count(rest, p)
        <4>1. CASE AllEmpty(rest)
          <5>1. k \notin DOMAIN r.groups
            BY <1>6, <2>1, <4>1 DEF Without
          <5>2. Count(rest, p) = 0
            BY <4>1 DEF AllEmpty, Count
          <5> QED BY <5>1, <5>2 DEF HeldIn
        <4>2. CASE ~ AllEmpty(rest)
          BY <1>6, <2>1, <4>2 DEF With, HeldIn
        <4> QED BY <4>1, <4>2
      <3> QED BY <1>9, <1>11, <1>14, <3>1, <3>2, <3>3
    <2>2. CASE k # l
      <3>1. PoppedIn(r, k) = 0 /\ One(Comes(d, k, p)) = 0
        BY <1>6, <2>2 DEF PoppedIn, One, Comes, l
      <3>2. HeldIn(r, k, p) = Held(m, k, p)
        BY <1>6, <2>2 DEF HeldIn, Held, With, Without, gs
      <3>3. Held(m, k, p) \in Nat
        <4>1. k \in DOMAIN gs => IsBuffer(gs[k], m)
          BY <1>2
        <4>2. k \in DOMAIN gs /\ p \in DOMAIN gs[k] => Len(gs[k][p]) \in Nat
          BY <4>1 DEF IsBuffer
        <4> QED BY <4>2 DEF Held, Count, gs
      <3> QED BY <3>1, <3>2, <3>3
    <2> QED BY <2>1, <2>2
  <1>15. OnBroadcastPorts(m, r.broadcasts) /\ \A i \in DOMAIN r.tasks : InStep(r.tasks[i])
    BY <1>6, <1>7, <1>12
  <1> QED BY <1>13, <1>14, <1>15 DEF StepsKept, r, m

LEMMA AddedSteps ==
    ASSUME Typed, NEW d, IsDelivery(d), ~ Added(d).fails, LinedGroups(d.to),
           OnBroadcastPorts(d.to, broadcasts[d.to]),
           Paired(d.to, d.port) =>
              d.packet.num = built[<<d.to, d.packet.line>>]
                             + Held(d.to, d.packet.line, d.port) + 1
    PROVE  StepsKept(d, Added(d))
  <1> DEFINE m == d.to
  <1>1. ASSUME NEW r, r.groups = groups[m], OnBroadcastPorts(m, r.broadcasts), r.popped = <<>>,
               \A p : ~ Paired(m, p), \A i \in DOMAIN r.tasks : r.tasks[i].to = m
        PROVE  StepsKept(d, r)
    BY <1>1 DEF StepsKept, Lined, InStep
  <1>2. CASE SingleInput(d.to)
    <2>1. Added(d) = Single(d)
      BY <1>2 DEF Added
    <2>2. \A p : ~ Paired(m, p)
      BY <1>2 DEF Paired
    <2>3. /\ Single(d).groups = groups[m] /\ Single(d).broadcasts = broadcasts[m]
          /\ Single(d).popped = <<>>
          /\ \A i \in DOMAIN Single(d).tasks : Single(d).tasks[i].to = m
      BY DEF Single, Task
    <2> QED BY <1>1, <2>1, <2>2, <2>3
  <1>3. CASE ~ SingleInput(d.to) /\ <<d.to, d.port>> \in BroadcastPorts
    <2> DEFINE b == With(broadcasts[m], d.port, d.packet)
    <2>1. Added(d) = IF RequiredItems(m) = {} /\ RequiredBroadcasts(m) \subseteq DOMAIN b
                     THEN BroadcastOnly(d, b) ELSE PopGroups(m, b)
      BY <1>3 DEF Added, AddBroadcast
    <2>2. IsBroadcast(b, m)
      BY WithBroadcast
    <2>3. OnBroadcastPorts(m, b)
      BY <1>3 DEF OnBroadcastPorts, With
    <2> HIDE DEF b
    <2>4. CASE RequiredItems(m) = {} /\ Added(d) = BroadcastOnly(d, b)
      <3>1. \A p : ~ Paired(m, p)
        BY <2>4 DEF Paired
      <3>2. /\ BroadcastOnly(d, b).groups = groups[m] /\ BroadcastOnly(d, b).broadcasts = b
            /\ BroadcastOnly(d, b).popped = <<>>
            /\ \A i \in DOMAIN BroadcastOnly(d, b).tasks : BroadcastOnly(d, b).tasks[i].to = m
        BY DEF BroadcastOnly, Task
      <3> QED BY <1>1, <2>3, <2>4, <3>1, <3>2
    <2>5. CASE Added(d) = PopGroups(m, b)
      BY <1>3, <2>2, <2>3, <2>5, PopGroupsSteps
    <2> QED BY <2>1, <2>4, <2>5
  <1>4. CASE ~ SingleInput(d.to) /\ <<d.to, d.port>> \notin BroadcastPorts
    BY <1>4, AddItemSteps DEF Added
  <1> QED BY <1>2, <1>3, <1>4

-----------------------------------------------------------------------------
(* What the steps do to the numbers.                                       *)

LEMMA NumberedStays ==
    ASSUME NEW from, Numbered(from), UNCHANGED <<groups, built, serial>>,
           \A n \in Nodes : \A o \in Outputs[n] : \A i \in DOMAIN Targets[n][o] :
              \A l \in Lineages : Passed(n, l, o, i)' <=> Passed(n, l, o, i)
    PROVE  Numbered(from)'
  <1>1. ASSUME NEW m \in Nodes, NEW l \in DOMAIN groups'[m]
        PROVE  Lined(m, l, groups'[m][l], built'[<<m, l>>])
    BY DEF Numbered
  <1>2. ASSUME NEW m \in Nodes, NEW p \in Inputs[m], Paired(m, p), NEW n \in Nodes,
               NEW o \in Outputs[n], NEW i \in DOMAIN Targets[n][o], NEW l \in Lineages,
               LeadsTo(n, o, i, m, p), l[1] \in from[n]
        PROVE  built'[<<m, l>>] + Held(m, l, p)'
                  = serial'[<<n, l, o>>] + (IF Passed(n, l, o, i)' THEN 1 ELSE 0)
    <2>1. Held(m, l, p)' = Held(m, l, p)
      BY DEF Held
    <2>2. built[<<m, l>>] + Held(m, l, p)
             = serial[<<n, l, o>>] + (IF Passed(n, l, o, i) THEN 1 ELSE 0)
      BY <1>2 DEF Numbered
    <2>3. Passed(n, l, o, i)' <=> Passed(n, l, o, i)
      OBVIOUS
    <2> QED BY <2>1, <2>2, <2>3
  <1> QED BY <1>1, <1>2 DEF Numbered

(* Edges are numbered from 1.                                              *)
LEMMA EdgeIs ==
    ASSUME NEW n \in Nodes, NEW o \in Outputs[n], NEW i \in DOMAIN Targets[n][o]
    PROVE  i \in Nat /\ i >= 1 /\ i <= Len(Targets[n][o])
  <1> DEFINE E == [to : Nodes, port : UNION {Inputs[m] : m \in Nodes}]
  <1>1. Targets[n][o] \in Seq(E)
    BY GraphAssumption
  <1> HIDE DEF E
  <1> QED BY <1>1

LEMMA OtherNumbered ==
    ASSUME NEW from, Typed, Births, Numbered(from), NEW n \in Nodes,
           \/ Collect(n) \/ Execute(n) \/ DeliverFails(n) \/ Wait(n) \/ Admit(n) \/ Finish(n)
    PROVE  Numbered(from)'
  <1>1. UNCHANGED <<groups, built, serial>>
    BY DEF Collect, Execute, DeliverFails, Wait, Admit, Finish, joins
  <1>2. ASSUME NEW k \in Nodes, NEW o \in Outputs[k], NEW i \in DOMAIN Targets[k][o],
               NEW l \in Lineages
        PROVE  Passed(k, l, o, i)' <=> Passed(k, l, o, i)
    <2>1. CASE Collect(n) \/ Finish(n)
      <3>1. /\ UNCHANGED <<todo, edge>> /\ \A j \in Nodes : j # n => task'[j] = task[j]
        BY <2>1 DEF Collect, Finish, Typed, TypedWorkers
      <3>2. todo[n] = <<>>
        BY <2>1 DEF Collect, Finish, Births, Working
      <3> QED BY <3>1, <3>2 DEF Passed
    <2>2. CASE Execute(n)
      <3>1. /\ task' = task /\ edge'[n] = 1
            /\ \A j \in Nodes : j # n => todo'[j] = todo[j] /\ edge'[j] = edge[j]
        BY <2>2 DEF Execute, Typed, TypedWorkers
      <3>2. todo[n] = <<>>
        BY <2>2 DEF Execute, Births, Working
      <3>3. ~ (1 > i)
        BY EdgeIs
      <3> QED BY <3>1, <3>2, <3>3 DEF Passed
    <2>3. CASE DeliverFails(n) \/ Wait(n) \/ Admit(n)
      <3>1. UNCHANGED <<task, todo, edge>>
        BY <2>3 DEF DeliverFails, Wait, Admit, routing
      <3> QED BY <3>1 DEF Passed
    <2> QED BY <2>1, <2>2, <2>3
  <1> QED BY <1>1, <1>2, NumberedStays

LEMMA NextPacketNumbered ==
    ASSUME NEW from, Typed, Numbered(from), NEW n \in Nodes, NextPacket(n)
    PROVE  Numbered(from)'
  <1> DEFINE o0 == Head(todo[n])
             l0 == task[n].line
  <1>1. /\ pc[n] = "route" /\ todo[n] # <<>> /\ edge[n] > Len(Targets[n][o0])
        /\ serial' = [serial EXCEPT ![<<n, l0, o0>>] = @ + 1]
        /\ todo' = [todo EXCEPT ![n] = Tail(@)] /\ edge' = [edge EXCEPT ![n] = 1]
        /\ UNCHANGED <<groups, built, task>>
    BY DEF NextPacket, Routes, joins, Edges
  <1>2. o0 \in Outputs[n] /\ l0 \in Lineages
    BY <1>1, LineOf DEF Typed, TypedWorkers
  <1>3. /\ edge'[n] = 1 /\ edge[n] \in Nat
        /\ \A k \in Nodes : k # n => edge'[k] = edge[k] /\ todo'[k] = todo[k]
    BY <1>1 DEF Typed, TypedWorkers
  <1>4. /\ DOMAIN serial = UNION {{k} \X Lineages \X Outputs[k] : k \in Nodes}
        /\ \A x \in DOMAIN serial : serial[x] \in Nat
    BY DEF Typed, TypedJoins
  <1> HIDE DEF o0, l0
  <1>5. ASSUME NEW k \in Nodes, NEW o \in Outputs[k], NEW i \in DOMAIN Targets[k][o],
               NEW l \in Lineages
        PROVE  /\ serial[<<k, l, o>>] \in Nat
               /\ serial'[<<k, l, o>>] + (IF Passed(k, l, o, i)' THEN 1 ELSE 0)
                    = serial[<<k, l, o>>] + (IF Passed(k, l, o, i) THEN 1 ELSE 0)
    <2>1. <<k, l, o>> \in DOMAIN serial
      BY <1>4
    <2>2. i \in Nat /\ i >= 1 /\ i <= Len(Targets[k][o])
      BY EdgeIs
    <2>3. CASE <<k, l, o>> = <<n, l0, o0>>
      <3>1. Passed(k, l, o, i)
        <4>1. Len(Targets[k][o]) \in Nat
          <5> DEFINE E == [to : Nodes, port : UNION {Inputs[m] : m \in Nodes}]
          <5>1. Targets[k][o] \in Seq(E)
            BY GraphAssumption
          <5> HIDE DEF E
          <5> QED BY <5>1
        <4>2. edge[k] > i
          BY <1>1, <1>3, <2>2, <2>3, <4>1
        <4> QED BY <1>1, <2>3, <4>2 DEF Passed, o0, l0
      <3>2. ~ Passed(k, l, o, i)'
        BY <1>3, <2>2, <2>3 DEF Passed
      <3>3. serial'[<<k, l, o>>] = serial[<<k, l, o>>] + 1
        BY <1>1, <2>1, <2>3
      <3> QED BY <1>4, <2>1, <3>1, <3>2, <3>3
    <2>4. CASE <<k, l, o>> # <<n, l0, o0>>
      <3>1. serial'[<<k, l, o>>] = serial[<<k, l, o>>]
        BY <1>1, <2>1, <2>4
      <3>2. Passed(k, l, o, i)' <=> Passed(k, l, o, i)
        <4>1. CASE k = n
          <5>1. ~ Passed(k, l, o, i)
            BY <2>4, <4>1 DEF Passed, o0, l0
          <5>2. ~ Passed(k, l, o, i)'
            BY <1>3, <2>2, <4>1 DEF Passed
          <5> QED BY <5>1, <5>2
        <4>2. CASE k # n
          BY <1>1, <1>3, <4>2 DEF Passed
        <4> QED BY <4>1, <4>2
      <3> QED BY <1>4, <2>1, <3>1, <3>2
    <2> QED BY <2>3, <2>4
  <1>6. ASSUME NEW m \in Nodes, NEW p \in Inputs[m], Paired(m, p), NEW k \in Nodes,
               NEW o \in Outputs[k], NEW i \in DOMAIN Targets[k][o], NEW l \in Lineages,
               LeadsTo(k, o, i, m, p), l[1] \in from[k]
        PROVE  built'[<<m, l>>] + Held(m, l, p)'
                  = serial'[<<k, l, o>>] + (IF Passed(k, l, o, i)' THEN 1 ELSE 0)
    <2>1. Held(m, l, p)' = Held(m, l, p)
      BY <1>1 DEF Held
    <2>2. built[<<m, l>>] + Held(m, l, p)
             = serial[<<k, l, o>>] + (IF Passed(k, l, o, i) THEN 1 ELSE 0)
      BY <1>6 DEF Numbered
    <2>3. serial'[<<k, l, o>>] + (IF Passed(k, l, o, i)' THEN 1 ELSE 0)
             = serial[<<k, l, o>>] + (IF Passed(k, l, o, i) THEN 1 ELSE 0)
      BY <1>5
    <2> QED BY <1>1, <2>1, <2>2, <2>3
  <1>7. ASSUME NEW m \in Nodes, NEW l \in DOMAIN groups'[m]
        PROVE  Lined(m, l, groups'[m][l], built'[<<m, l>>])
    BY <1>1 DEF Numbered
  <1> QED BY <1>6, <1>7 DEF Numbered

LEMMA DeliverSteps ==
    ASSUME NEW from, Typed, Places(from), Numbered(from), Steps,
           NEW n \in Nodes, Deliver(n)
    PROVE  StepsKept(Delivery(n), Added(Delivery(n)))
  <1> DEFINE d == Delivery(n)
             l == task[n].line
             o == Head(todo[n])
  <1>1. Routes(n) /\ edge[n] <= Len(Edges(n)) /\ ~ Added(d).fails
    BY DeliverIs
  <1>2. /\ IsDelivery(d) /\ d.packet = [line |-> l, num |-> serial[<<n, l, o>>] + 1]
        /\ l \in Lineages /\ serial[<<n, l, o>>] \in Nat /\ o \in Outputs[n]
        /\ task[n] \in AllTasks /\ LeadsTo(n, o, edge[n], d.to, d.port)
    BY <1>1, DeliveryIs
  <1> HIDE DEF d
  <1>3. d.to \in Nodes /\ d.port \in Inputs[d.to]
    BY <1>2 DEF IsDelivery
  <1>4. LinedGroups(d.to)
    BY <1>3 DEF Numbered, LinedGroups
  <1>5. OnBroadcastPorts(d.to, broadcasts[d.to])
    BY <1>3 DEF Steps, OnBroadcastPorts
  <1>6. ASSUME Paired(d.to, d.port)
        PROVE  d.packet.num = built[<<d.to, d.packet.line>>]
                              + Held(d.to, d.packet.line, d.port) + 1
    <2>1. l[1] \in from[n]
      BY <1>2, LineOf DEF Places
    <2>2. edge[n] \in DOMAIN Targets[n][o]
      BY <1>2 DEF LeadsTo
    <2>3. edge[n] \in Nat
      BY DEF Typed, TypedWorkers
    <2>4. ~ Passed(n, l, o, edge[n])
      BY <2>3 DEF Passed
    <2> DEFINE c == built[<<d.to, l>>] + Held(d.to, l, d.port)
    <2>5. c = serial[<<n, l, o>>] + 0
      BY <1>2, <1>3, <1>6, <2>1, <2>2, <2>4 DEF Numbered
    <2> HIDE DEF c
    <2>6. d.packet.num = c + 1
      BY <1>2, <2>5
    <2> QED BY <1>2, <2>6 DEF c
  <1> QED BY <1>1, <1>2, <1>4, <1>5, <1>6, AddedSteps DEF d

(* How far a delivery counts.                                              *)
LEMMA DeliverPasses ==
    ASSUME NEW from, OneFeedPerLineage(from), Typed, Places(from),
           NEW n \in Nodes, Deliver(n),
           NEW m \in Nodes, NEW p \in Inputs[m], Paired(m, p), NEW k \in Nodes,
           NEW o \in Outputs[k], NEW i \in DOMAIN Targets[k][o], NEW l \in Lineages,
           LeadsTo(k, o, i, m, p), l[1] \in from[k]
    PROVE  LET comes == m = Delivery(n).to /\ Comes(Delivery(n), l, p)
           IN  /\ comes => ~ Passed(k, l, o, i) /\ Passed(k, l, o, i)'
               /\ ~ comes => (Passed(k, l, o, i)' <=> Passed(k, l, o, i))
  <1> DEFINE d == Delivery(n)
             l0 == task[n].line
             o0 == Head(todo[n])
             i0 == edge[n]
             comes == m = Delivery(n).to /\ Comes(Delivery(n), l, p)
  <1>1. /\ Routes(n) /\ edge[n] <= Len(Edges(n)) /\ edge' = [edge EXCEPT ![n] = @ + 1]
        /\ UNCHANGED <<task, todo>>
    BY DeliverIs
  <1>2. /\ d.packet = [line |-> l0, num |-> serial[<<n, l0, o0>>] + 1]
        /\ task[n] \in AllTasks /\ o0 \in Outputs[n]
        /\ LeadsTo(n, o0, i0, d.to, d.port)
    BY <1>1, DeliveryIs
  <1>3. comes <=> m = d.to /\ l = l0 /\ p = d.port
    BY <1>2 DEF Comes
  <1> HIDE DEF d, comes
  <1>4. /\ i0 \in Nat /\ edge'[n] = i0 + 1
        /\ \A j \in Nodes : j # n => edge'[j] = edge[j]
    BY <1>1 DEF Typed, TypedWorkers
  <1>5. i \in Nat /\ i0 \in DOMAIN Targets[n][o0]
    BY <1>2, EdgeIs DEF LeadsTo
  <1>6. todo[n] # <<>>
    BY <1>1 DEF Routes
  <1> HIDE DEF l0, o0, i0
  <1>7. ASSUME comes
        PROVE  k = n /\ o = o0 /\ i = i0
    <2>1. l[1] \in from[n]
      BY <1>2, <1>3, <1>7, LineOf DEF Places, l0
    <2>2. LeadsTo(n, o0, i0, m, p)
      BY <1>2, <1>3, <1>7
    <2>3. from[k] \cap from[n] = {} \/ <<k, o, i>> = <<n, o0, i0>>
      BY <1>2, <1>5, <2>2 DEF OneFeedPerLineage
    <2> QED BY <2>1, <2>3
  <1>8. ASSUME k = n, o = o0, i = i0, l = l0
        PROVE  comes
    BY <1>2, <1>3, <1>8 DEF LeadsTo
  <1>9. CASE comes
    <2>1. l = l0 /\ k = n /\ o = o0 /\ i = i0
      BY <1>3, <1>7, <1>9
    <2>2. ~ Passed(k, l, o, i)
      BY <1>4, <2>1 DEF Passed, i0
    <2>3. Passed(k, l, o, i)'
      BY <1>1, <1>4, <1>6, <2>1 DEF Passed, o0, l0
    <2> QED BY <1>9, <2>2, <2>3 DEF comes
  <1>10. CASE ~ comes
    <2>1. CASE k # n
      <3>1. Passed(k, l, o, i)' <=> Passed(k, l, o, i)
        BY <1>1, <1>4, <2>1 DEF Passed
      <3> QED BY <1>10, <3>1 DEF comes
    <2>2. CASE k = n /\ ~ (l = l0 /\ o = o0)
      <3>1. ~ Passed(k, l, o, i)' /\ ~ Passed(k, l, o, i)
        BY <1>1, <2>2 DEF Passed, l0, o0
      <3> QED BY <1>10, <3>1 DEF comes
    <2>3. CASE k = n /\ l = l0 /\ o = o0
      <3>1. i # i0
        BY <1>8, <1>10, <2>3
      <3>2. edge'[k] > i <=> edge[k] > i
        BY <1>4, <1>5, <2>3, <3>1 DEF i0
      <3>3. Passed(k, l, o, i)' <=> Passed(k, l, o, i)
        BY <1>1, <3>2 DEF Passed
      <3> QED BY <1>10, <3>3 DEF comes
    <2> QED BY <2>1, <2>2, <2>3
  <1> QED BY <1>9, <1>10

LEMMA DeliverNumbered ==
    ASSUME NEW from, OneFeedPerLineage(from), Typed, Places(from), Numbered(from), Steps,
           NEW n \in Nodes, Deliver(n)
    PROVE  Numbered(from)'
  <1> DEFINE d == Delivery(n)
             r == Added(d)
  <1>1. /\ groups' = [groups EXCEPT ![d.to] = r.groups]
        /\ built' = [x \in DOMAIN built |->
                         IF x[1] = d.to /\ x[2] \in DOMAIN r.popped
                         THEN built[x] + r.popped[x[2]] ELSE built[x]]
        /\ serial' = serial
    BY DeliverIs
  <1>2. d.to \in Nodes
    BY DeliverIs, DeliveryIs DEF IsDelivery
  <1>3. StepsKept(d, r)
    BY DeliverSteps
  <1> HIDE DEF d, r
  <1>4. /\ groups'[d.to] = r.groups
        /\ \A k \in Nodes : k # d.to => groups'[k] = groups[k]
    BY <1>1, <1>2 DEF Typed, TypedJoins
  <1>5. ASSUME NEW l \in Lineages
        PROVE  /\ built'[<<d.to, l>>] = built[<<d.to, l>>] + PoppedIn(r, l)
               /\ \A k \in Nodes : built[<<k, l>>] \in Nat
               /\ \A k \in Nodes : k # d.to => built'[<<k, l>>] = built[<<k, l>>]
    <2>1. DOMAIN built = Nodes \X Lineages /\ \A k \in Nodes : built[<<k, l>>] \in Nat
      BY DEF Typed, TypedJoins
    <2>2. built[<<d.to, l>>] + 0 = built[<<d.to, l>>]
      BY <1>2, <2>1
    <2> QED BY <1>1, <1>2, <2>1, <2>2 DEF PoppedIn
  <1>6. ASSUME NEW m \in Nodes, NEW l \in DOMAIN groups'[m]
        PROVE  Lined(m, l, groups'[m][l], built'[<<m, l>>])
    <2>1. l \in Lineages
      BY DeliverTyped DEF Typed, TypedJoins, JoinsOK
    <2>2. CASE m = d.to
      <3>1. Lined(m, l, r.groups[l], built[<<m, l>>] + PoppedIn(r, l))
        BY <1>3, <1>4, <2>2 DEF StepsKept
      <3> QED BY <1>4, <1>5, <2>1, <2>2, <3>1
    <2>3. CASE m # d.to
      BY <1>4, <1>5, <2>1, <2>3 DEF Numbered
    <2> QED BY <2>2, <2>3
  <1>7. ASSUME NEW m \in Nodes, NEW p \in Inputs[m], Paired(m, p), NEW k \in Nodes,
               NEW o \in Outputs[k], NEW i \in DOMAIN Targets[k][o], NEW l \in Lineages,
               LeadsTo(k, o, i, m, p), l[1] \in from[k]
        PROVE  built'[<<m, l>>] + Held(m, l, p)'
                  = serial'[<<k, l, o>>] + (IF Passed(k, l, o, i)' THEN 1 ELSE 0)
    <2> DEFINE comes == m = d.to /\ Comes(d, l, p)
               b == built[<<m, l>>]
               h == Held(m, l, p)
               s == serial[<<k, l, o>>]
               u == IF Passed(k, l, o, i) THEN 1 ELSE 0
               v == IF Passed(k, l, o, i)' THEN 1 ELSE 0
    <2>1. b + h = s + u
      BY <1>7 DEF Numbered
    <2>2. v = u + One(comes) /\ u \in Nat /\ One(comes) \in Nat
      BY <1>7, DeliverPasses DEF d, One
    <2>3. s \in Nat /\ b \in Nat /\ serial' = serial
      <3>1. <<k, l, o>> \in UNION {{j} \X Lineages \X Outputs[j] : j \in Nodes}
        OBVIOUS
      <3> QED BY <1>1, <1>5, <3>1 DEF Typed, TypedJoins
    <2>4. CASE m = d.to
      <3> DEFINE e == PoppedIn(r, l)
                 g == HeldIn(r, l, p)
      <3>1. e \in Nat /\ g \in Nat /\ h \in Nat /\ e + g = h + One(comes)
        <4>1. /\ e \in Nat /\ g \in Nat /\ Held(d.to, l, p) \in Nat
              /\ e + g = Held(d.to, l, p) + One(Comes(d, l, p))
          BY <1>3, <1>7, <2>4 DEF StepsKept
        <4>2. One(comes) = One(Comes(d, l, p))
          BY <2>4 DEF One
        <4> QED BY <2>4, <4>1, <4>2
      <3>2. Held(m, l, p)' = g
        BY <1>4, <2>4 DEF Held, HeldIn
      <3>3. built'[<<m, l>>] = b + e
        BY <1>5, <2>4
      <3> HIDE DEF b, h, s, u, v, e, g, comes
      <3>4. (b + e) + g = s + v
        BY <2>1, <2>2, <2>3, <3>1
      <3> QED BY <2>3, <3>2, <3>3, <3>4 DEF s, v
    <2>5. CASE m # d.to
      <3>1. Held(m, l, p)' = h /\ built'[<<m, l>>] = b
        BY <1>4, <1>5, <2>5 DEF Held
      <3>2. One(comes) = 0
        BY <2>5 DEF One
      <3> HIDE DEF b, h, s, u, v, comes
      <3>3. b + h = s + v
        BY <2>1, <2>2, <3>2
      <3> QED BY <2>3, <3>1, <3>3 DEF s, v
    <2> QED BY <2>4, <2>5
  <1> QED BY <1>6, <1>7 DEF Numbered

LEMMA StepKeepsSteps ==
    ASSUME NEW from, Typed, Places(from), Numbered(from), Steps, NEW n \in Nodes, Work(n)
    PROVE  Steps'
  <1> USE DEF Typed
  <1>1. CASE Deliver(n)
    <2> DEFINE d == Delivery(n)
               r == Added(d)
    <2>1. /\ broadcasts' = [broadcasts EXCEPT ![d.to] = r.broadcasts] /\ queue' = queue
          /\ AddedOK(d, r)
      BY <1>1, DeliverIs
    <2>2. d.to \in Nodes
      BY <1>1, DeliverIs, DeliveryIs DEF IsDelivery
    <2>3. StepsKept(d, r)
      BY <1>1, DeliverSteps
    <2>4. ready'[n] \in {<<>>, r.tasks} /\ \A k \in Nodes : k # n => ready'[k] = ready[k]
      BY <1>1, DeliverProceeds
    <2> HIDE DEF d, r
    <2>5. ASSUME NEW k \in Nodes
          PROVE  DOMAIN broadcasts'[k] \subseteq {p \in Inputs[k] : <<k, p>> \in BroadcastPorts}
      <3>1. CASE k = d.to
        <4>1. broadcasts'[k] = r.broadcasts
          BY <2>1, <2>2, <3>1 DEF TypedJoins
        <4> QED BY <2>1, <2>3, <3>1, <4>1
                DEF StepsKept, OnBroadcastPorts, AddedOK, IsBroadcast
      <3>2. CASE k # d.to
        BY <2>1, <3>2 DEF TypedJoins, Steps
      <3> QED BY <3>1, <3>2
    <2>6. ASSUME NEW k \in Nodes, NEW i \in DOMAIN ready'[k] PROVE InStep(ready'[k][i])
      BY <2>3, <2>4 DEF StepsKept, Steps
    <2> QED BY <2>1, <2>5, <2>6 DEF Steps
  <1>2. CASE Admit(n)
    <2> DEFINE h == Head(ready[n])
               rest == Tail(ready[n])
    <2>1. /\ failure = "none" /\ Working(n) /\ h \in AllTasks /\ h.to \in Nodes
          /\ h = ready[n][1] /\ 1 \in DOMAIN ready[n] /\ rest \in Seq(AllTasks)
          /\ \A i \in DOMAIN rest : i + 1 \in DOMAIN ready[n] /\ rest[i] = ready[n][i + 1]
          /\ queue' = [queue EXCEPT ![h.to] = Append(@, h)] /\ broadcasts' = broadcasts
          /\ Proceed(n, rest, closing[n], tracker)
      BY <1>2, AdmitIs
    <2> HIDE DEF rest, h
    <2>2. /\ \A k \in Nodes : k # n => ready'[k] = ready[k]
          /\ ready'[n] \in {rest, ready[n]}
      <3>1. closing[n] \in SUBSET Lineages /\ DOMAIN tracker \subseteq Lineages \ done
            /\ tracker = [l \in DOMAIN tracker |-> tracker[l]]
        BY DEF TypedWorkers, TypedLineages
      <3>2. /\ \A k \in Nodes : k # n => ready'[k] = ready[k]
            /\ failure' = "none" => ready'[n] = rest
            /\ failure' # "none" => ready'[n] = ready[n]
        BY <2>1, <3>1, ProceedTyped
      <3> QED BY <3>2
    <2>3. ASSUME NEW k \in Nodes, NEW i \in DOMAIN ready'[k] PROVE InStep(ready'[k][i])
      BY <2>1, <2>2 DEF Steps
    <2>4. ASSUME NEW k \in Nodes, NEW i \in DOMAIN queue'[k] PROVE InStep(queue'[k][i])
      <3>1. CASE k = h.to
        <4>1. queue[k] \in Seq(AllTasks) /\ queue'[k] = Append(queue[k], h)
          BY <2>1, <3>1 DEF TypedQueues
        <4>2. /\ DOMAIN queue'[k] = 1..(Len(queue[k]) + 1) /\ DOMAIN queue[k] = 1..Len(queue[k])
              /\ Len(queue[k]) \in Nat /\ queue'[k][Len(queue[k]) + 1] = h
              /\ \A j \in 1..Len(queue[k]) : queue'[k][j] = queue[k][j]
          <5>1. LET a == Append(queue[k], h)
                IN  /\ DOMAIN a = 1..(Len(queue[k]) + 1) /\ DOMAIN queue[k] = 1..Len(queue[k])
                    /\ Len(queue[k]) \in Nat /\ a[Len(queue[k]) + 1] = h
                    /\ \A j \in 1..Len(queue[k]) : a[j] = queue[k][j]
            BY <2>1, <4>1, AppendIs
          <5> QED BY <4>1, <5>1
        <4>3. i \in DOMAIN queue[k] \/ i = Len(queue[k]) + 1
          BY <4>2
        <4>4. InStep(h)
          BY <2>1 DEF Steps
        <4> QED BY <4>2, <4>3, <4>4 DEF Steps
      <3>2. CASE k # h.to
        BY <2>1, <3>2 DEF TypedQueues, Steps
      <3> QED BY <3>1, <3>2
    <2> QED BY <2>1, <2>3, <2>4 DEF Steps
  <1>3. CASE Collect(n)
    <2>1. UNCHANGED <<ready, broadcasts>>
      BY <1>3 DEF Collect, joins
    <2>2. ASSUME NEW k \in Nodes, NEW i \in DOMAIN queue'[k] PROVE InStep(queue'[k][i])
      <3>1. CASE queue' = queue
        BY <3>1 DEF Steps
      <3>2. CASE queue[n] # <<>> /\ queue' = [queue EXCEPT ![n] = Tail(@)]
        <4>1. queue[n] \in Seq(AllTasks)
          BY DEF TypedQueues
        <4>2. \A j \in DOMAIN Tail(queue[n]) :
                 j + 1 \in DOMAIN queue[n] /\ Tail(queue[n])[j] = queue[n][j + 1]
          BY <3>2, <4>1
        <4>3. queue'[n] = Tail(queue[n]) /\ (k # n => queue'[k] = queue[k])
          BY <3>2 DEF TypedQueues
        <4> QED BY <4>2, <4>3 DEF Steps
      <3> QED BY <1>3, <3>1, <3>2 DEF Collect
    <2> QED BY <2>1, <2>2 DEF Steps
  <1>4. CASE Execute(n) \/ NextPacket(n) \/ DeliverFails(n) \/ Wait(n) \/ Finish(n)
    <2>1. UNCHANGED <<queue, ready, broadcasts>>
      BY <1>4 DEF Execute, NextPacket, DeliverFails, Wait, Finish, joins, routing
    <2> QED BY <2>1 DEF Steps
  <1> QED BY <1>1, <1>2, <1>3, <1>4 DEF Work

(* The invariant where a lineage comes to a port by one edge.              *)
Stepping(from) == Typed /\ Births /\ Places(from) /\ Numbered(from) /\ Steps

LEMMA InitStepping ==
    ASSUME NEW from, Bounds(from), Init PROVE Stepping(from)
  <1>1. /\ \A n \in Nodes : /\ task[n] = NoTask /\ todo[n] = <<>>
                            /\ DOMAIN queue[n] = {} /\ DOMAIN ready[n] = {}
                            /\ DOMAIN groups[n] = {} /\ DOMAIN broadcasts[n] = {}
        /\ serial = [x \in UNION {{n} \X Lineages \X Outputs[n] : n \in Nodes} |-> 0]
        /\ built = [x \in Nodes \X Lineages |-> 0]
    BY DEF Init
  <1>2. Places(from) /\ Steps
    BY <1>1 DEF Places, Steps
  <1>3. Numbered(from)
    <2>1. ASSUME NEW m \in Nodes, NEW p \in Inputs[m], NEW n \in Nodes, NEW o \in Outputs[n],
                 NEW i \in DOMAIN Targets[n][o], NEW l \in Lineages
          PROVE  /\ built[<<m, l>>] = 0 /\ Held(m, l, p) = 0 /\ serial[<<n, l, o>>] = 0
                 /\ ~ Passed(n, l, o, i)
      <3>1. <<n, l, o>> \in UNION {{k} \X Lineages \X Outputs[k] : k \in Nodes}
        OBVIOUS
      <3> QED BY <1>1, <3>1 DEF Held, Passed
    <2>2. ASSUME NEW m \in Nodes, NEW p \in Inputs[m], NEW n \in Nodes, NEW o \in Outputs[n],
                 NEW i \in DOMAIN Targets[n][o], NEW l \in Lineages
          PROVE  built[<<m, l>>] + Held(m, l, p)
                    = serial[<<n, l, o>>] + (IF Passed(n, l, o, i) THEN 1 ELSE 0)
      BY <2>1
    <2>3. \A m \in Nodes : \A l \in DOMAIN groups[m] :
             Lined(m, l, groups[m][l], built[<<m, l>>])
      BY <1>1
    <2> QED BY <2>2, <2>3 DEF Numbered
  <1> QED BY <1>2, <1>3, InitBooks DEF Stepping, Books

LEMMA StepStepping ==
    ASSUME NEW from, Bounds(from), OneFeedPerLineage(from), Stepping(from), Books,
           NEW n \in Nodes, Work(n)
    PROVE  Stepping(from)'
  <1> USE DEF Stepping
  <1>1. Typed' /\ Births'
    BY StepBooks DEF Books
  <1>2. Places(from)'
    BY DeliverPlaces, AdmitPlaces, OtherPlaces DEF Work
  <1>3. Numbered(from)'
    BY DeliverNumbered, NextPacketNumbered, OtherNumbered DEF Work
  <1>4. Steps'
    BY StepKeepsSteps
  <1> QED BY <1>1, <1>2, <1>3, <1>4

LEMMA StutterStepping ==
    ASSUME NEW from, Stepping(from), Books, UNCHANGED vars PROVE Stepping(from)'
  <1>1. Typed' /\ Births'
    BY StutterBooks DEF Books
  <1>2. UNCHANGED <<queue, task, ready, groups, broadcasts, todo, edge, serial, built>>
    BY DEF vars, routing, joins
  <1>3. Places(from)' /\ Steps'
    BY <1>2 DEF Stepping, Places, Steps
  <1>4. Numbered(from)'
    BY <1>2, NumberedStays DEF Stepping, Passed
  <1> QED BY <1>1, <1>3, <1>4 DEF Stepping

(* In every graph in which a lineage comes to a pairing port by one edge,  *)
(* the k-th task of a join has the k-th packet of each of its ports.       *)
THEOREM PartnersInStep ==
    ASSUME NEW from, Bounds(from), OneFeedPerLineage(from)
    PROVE  Spec => []JoinsInStep
  <1>1. Init => Stepping(from)
    BY InitStepping
  <1>2. Books /\ Stepping(from) /\ [Next]_vars => Stepping(from)'
    BY StepStepping, StutterStepping DEF Next
  <1>3. Stepping(from) => JoinsInStep
    BY DEF Stepping, Steps, InStep, JoinsInStep, ToSet
  <1> QED BY <1>1, <1>2, <1>3, SpecBooks, PTL DEF Spec
=============================================================================
