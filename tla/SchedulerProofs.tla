-------------------------- MODULE SchedulerProofs ---------------------------
(***************************************************************************)
(* Scheduler, proved for every graph and every value of the bounds: what   *)
(* its operations do to queues, byte counts and the counters of            *)
(* TaskAdmission and WeightBudget; where the tasks are, and what the       *)
(* counters say about them; that nobody misses a wakeup, that a completed  *)
(* run is done, and that the engine implements TaskRun.                    *)
(***************************************************************************)
EXTENDS Scheduler, ListProofs

-----------------------------------------------------------------------------
(* Queues as sets of tasks.                                                *)

LEMMA ElemsEmpty ==
    ASSUME NEW S, NEW s \in Seq(S)
    PROVE  /\ Elems(s) \subseteq S
           /\ Elems(s) = {} <=> s = <<>>
  <1>1. Len(s) \in Nat /\ (s # <<>> => Len(s) # 0) /\ Len(<<>>) = 0
    BY LenProperties, EmptySeq
  <1>2. s # <<>> => s[1] \in Elems(s)
    BY <1>1 DEF Elems
  <1>3. s = <<>> => Elems(s) = {}
    BY <1>1 DEF Elems
  <1>4. Elems(s) \subseteq S
    BY ElementOfSeq DEF Elems
  <1> QED BY <1>2, <1>3, <1>4

LEMMA ElemsAppend ==
    ASSUME NEW S, NEW s \in Seq(S), NEW t \in S
    PROVE  /\ Append(s, t) \in Seq(S)
           /\ Elems(Append(s, t)) = Elems(s) \cup {t}
           /\ Distinct(s) /\ t \notin Elems(s) => Distinct(Append(s, t))
  <1>1. /\ Append(s, t) \in Seq(S)
        /\ Len(s) \in Nat /\ Len(Append(s, t)) = Len(s) + 1
        /\ \A i \in 1..Len(s) : Append(s, t)[i] = s[i]
        /\ Append(s, t)[Len(s) + 1] = t
    BY AppendProperties, LenProperties
  <1> DEFINE a == Append(s, t)
             k == Len(s)
  <1>2. Elems(a) = Elems(s) \cup {t}
    <2>1. ASSUME NEW i \in 1..Len(a) PROVE a[i] \in Elems(s) \cup {t}
      <3>1. CASE i = k + 1  BY <3>1, <1>1
      <3>2. CASE i # k + 1  BY <3>2, <1>1 DEF Elems
      <3> QED BY <3>1, <3>2
    <2>2. ASSUME NEW i \in 1..k PROVE s[i] \in Elems(a)
      <3>1. i \in 1..Len(a) /\ a[i] = s[i]  BY <1>1
      <3> QED BY <3>1 DEF Elems
    <2>3. t \in Elems(a)
      <3>1. k + 1 \in 1..Len(a) /\ a[k + 1] = t  BY <1>1
      <3> QED BY <3>1 DEF Elems
    <2> HIDE DEF a
    <2> QED BY <2>1, <2>2, <2>3 DEF Elems
  <1>3. ASSUME Distinct(s), t \notin Elems(s) PROVE Distinct(a)
    <2> SUFFICES ASSUME NEW i \in 1..Len(a), NEW j \in 1..Len(a), a[i] = a[j]
                 PROVE  i = j
      BY DEF Distinct
    <2>1. \A l \in 1..k : a[l] = s[l] /\ s[l] # t  BY <1>1, <1>3 DEF Elems
    <2>2. CASE i = k + 1 \/ j = k + 1
      BY <2>1, <2>2, <1>1
    <2>3. CASE i # k + 1 /\ j # k + 1
      <3>1. i \in 1..k /\ j \in 1..k  BY <2>3, <1>1
      <3>2. s[i] = s[j]  BY <3>1, <2>1
      <3> QED BY <3>1, <3>2, <1>3 DEF Distinct
    <2> QED BY <2>2, <2>3
  <1> QED BY <1>1, <1>2, <1>3

LEMMA ElemsSplit ==
    ASSUME NEW S, NEW s \in Seq(S), NEW k \in 0..Len(s)
    PROVE  LET a == SubSeq(s, 1, k)
               b == SubSeq(s, k + 1, Len(s))
           IN  /\ a \in Seq(S) /\ b \in Seq(S)
               /\ Len(a) = k /\ Len(b) = Len(s) - k
               /\ Elems(a) \cup Elems(b) = Elems(s)
               /\ Distinct(s) => /\ Distinct(a) /\ Distinct(b)
                                 /\ Elems(a) \cap Elems(b) = {}
  <1> DEFINE a == SubSeq(s, 1, k)
             b == SubSeq(s, k + 1, Len(s))
  <1>1. Len(s) \in Nat /\ \A i \in 1..Len(s) : s[i] \in S
    BY LenProperties, ElementOfSeq
  <1>2. a \in Seq(S) /\ Len(a) = k /\ \A i \in 1..k : a[i] = s[i]
    <2>1. \A i \in 1..k : s[i] \in S  BY <1>1
    <2>2. /\ a \in Seq(S)
          /\ Len(a) = IF 1 <= k THEN k - 1 + 1 ELSE 0
          /\ \A i \in 1..(k - 1 + 1) : a[i] = s[1 + i - 1]
      <3> HIDE DEF a
      <3>1. 1 \in Int /\ k \in Int  BY <1>1
      <3> QED BY <2>1, <3>1, SubSeqProperties DEF a
    <2> HIDE DEF a
    <2> QED BY <2>2, <1>1
  <1>3. /\ b \in Seq(S) /\ Len(b) = Len(s) - k
        /\ \A i \in 1..(Len(s) - k) : b[i] = s[k + i]
    <2>1. \A i \in (k + 1)..Len(s) : s[i] \in S  BY <1>1
    <2>2. /\ b \in Seq(S)
          /\ Len(b) = IF k + 1 <= Len(s) THEN Len(s) - (k + 1) + 1 ELSE 0
          /\ \A i \in 1..(Len(s) - (k + 1) + 1) : b[i] = s[(k + 1) + i - 1]
      <3> HIDE DEF b
      <3>1. (k + 1) \in Int /\ Len(s) \in Int  BY <1>1
      <3> QED BY <2>1, <3>1, SubSeqProperties DEF b
    <2> HIDE DEF b
    <2> QED BY <2>2, <1>1
  <1> HIDE DEF a, b
  <1>4. Elems(a) \cup Elems(b) = Elems(s)
    <2>1. \A i \in 1..k : a[i] \in Elems(s)
      BY <1>1, <1>2 DEF Elems
    <2>2. \A i \in 1..(Len(s) - k) : b[i] \in Elems(s)
      BY <1>1, <1>3 DEF Elems
    <2>3. ASSUME NEW i \in 1..Len(s) PROVE s[i] \in Elems(a) \cup Elems(b)
      <3>1. CASE i <= k
        <4>1. i \in 1..Len(a) /\ a[i] = s[i]  BY <3>1, <1>1, <1>2
        <4> QED BY <4>1 DEF Elems
      <3>2. CASE i > k
        <4>1. i - k \in 1..Len(b) /\ b[i - k] = s[i]  BY <3>2, <1>1, <1>3
        <4> QED BY <4>1 DEF Elems
      <3> QED BY <3>1, <3>2, <1>1
    <2> QED BY ZenonT(30), <2>1, <2>2, <2>3, <1>2, <1>3 DEF Elems
  <1>5. ASSUME Distinct(s)
        PROVE  Distinct(a) /\ Distinct(b) /\ Elems(a) \cap Elems(b) = {}
    <2>1. Distinct(a)  BY <1>5, <1>1, <1>2 DEF Distinct
    <2>2. Distinct(b)
      <3> SUFFICES ASSUME NEW i \in 1..Len(b), NEW j \in 1..Len(b), b[i] = b[j]
                   PROVE  i = j
        BY DEF Distinct
      <3>1. k + i \in 1..Len(s) /\ k + j \in 1..Len(s) /\ s[k + i] = s[k + j]
        BY <1>1, <1>3
      <3>2. k + i = k + j  BY <3>1, <1>5 DEF Distinct
      <3> QED BY <3>2, <1>1, <1>3
    <2>3. ASSUME NEW i \in 1..Len(a), NEW j \in 1..Len(b) PROVE a[i] # b[j]
      <3>1. i \in 1..Len(s) /\ k + j \in 1..Len(s) /\ i # k + j
        BY <1>1, <1>2, <1>3
      <3>2. a[i] = s[i] /\ b[j] = s[k + j]  BY <1>2, <1>3
      <3> QED BY <3>1, <3>2, <1>5 DEF Distinct
    <2> QED BY <2>1, <2>2, <2>3 DEF Elems
  <1> QED BY <1>2, <1>3, <1>4, <1>5 DEF a, b

LEMMA ElemsTail ==
    ASSUME NEW S, NEW s \in Seq(S), s # <<>>
    PROVE  /\ Tail(s) \in Seq(S)
           /\ Head(s) \in Elems(s)
           /\ Elems(s) = {Head(s)} \cup Elems(Tail(s))
           /\ Distinct(s) => Distinct(Tail(s)) /\ Head(s) \notin Elems(Tail(s))
  <1>1. /\ Tail(s) \in Seq(S) /\ Len(s) \in Nat \ {0}
        /\ Len(Tail(s)) = Len(s) - 1
        /\ \A i \in 1..Len(Tail(s)) : Tail(s)[i] = s[i + 1]
    BY HeadTailProperties, EmptySeq
  <1>2. Head(s) = s[1]  OBVIOUS
  <1> DEFINE b == Tail(s)
  <1> HIDE DEF b
  <1>3. Elems(s) = {s[1]} \cup Elems(b)
    <2>1. \A i \in 1..Len(b) : b[i] \in Elems(s)  BY <1>1 DEF Elems, b
    <2>2. s[1] \in Elems(s)  BY <1>1 DEF Elems
    <2>3. ASSUME NEW i \in 1..Len(s), i # 1 PROVE s[i] \in Elems(b)
      <3>1. i - 1 \in 1..Len(b) /\ b[i - 1] = s[i]  BY <1>1, <2>3 DEF b
      <3> QED BY <3>1 DEF Elems
    <2> QED BY <2>1, <2>2, <2>3 DEF Elems
  <1>4. ASSUME Distinct(s) PROVE Distinct(b) /\ s[1] \notin Elems(b)
    <2>1. \A i \in 1..Len(b) : i + 1 \in 1..Len(s) /\ b[i] = s[i + 1]
      BY <1>1 DEF b
    <2>2. Distinct(b)
      <3> SUFFICES ASSUME NEW i \in 1..Len(b), NEW j \in 1..Len(b), b[i] = b[j]
                   PROVE  i = j
        BY DEF Distinct
      <3>1. i + 1 = j + 1  BY <2>1, <1>4 DEF Distinct
      <3> QED BY <3>1, <1>1 DEF b
    <2>3. \A i \in 1..Len(b) : b[i] # s[1]
      <3>1. 1 \in 1..Len(s) /\ \A i \in 1..Len(b) : i + 1 # 1  BY <1>1 DEF b
      <3> QED BY <3>1, <2>1, <1>4 DEF Distinct
    <2> QED BY <2>2, <2>3 DEF Elems
  <1> QED BY <1>1, <1>2, <1>3, <1>4 DEF b

LEMMA EmptyDistinct == Elems(<<>>) = {} /\ Distinct(<<>>)
  BY EmptySeq DEF Elems, Distinct

-----------------------------------------------------------------------------
(* Byte counts: adding a task to a set adds its weight.                    *)

LEMMA BytesFinite ==
    ASSUME NEW A \in SUBSET Tasks, NEW w \in [Tasks -> Nat]
    PROVE  IsFiniteSet(Bytes(A, w))
  <1> DEFINE Of(t) == {t} \X (1..w[t])
             P == {Of(t) : t \in A}
             f == [t \in A |-> Of(t)]
  <1>1. f \in Surjection(A, P)
    BY DEF Surjection
  <1>2. IsFiniteSet(A)
    BY FS_Subset, BoundAssumption
  <1>3. IsFiniteSet(P)
    <2> HIDE DEF f, P
    <2> QED BY <1>1, <1>2, FS_Surjection
  <1>4. \A t \in A : IsFiniteSet(Of(t))
    <2> TAKE t \in A
    <2>1. IsFiniteSet({t})  BY FS_Singleton
    <2>2. IsFiniteSet(1..w[t])
      <3>1. 1 \in Int /\ w[t] \in Int  OBVIOUS
      <3> QED BY <3>1, FS_Interval
    <2> QED BY <2>1, <2>2, FS_Product
  <1>5. \A T \in P : IsFiniteSet(T)  BY <1>4
  <1>6. Bytes(A, w) = UNION P  BY DEF Bytes
  <1> HIDE DEF P
  <1> QED BY <1>3, <1>5, <1>6, FS_UNION

LEMMA BytesAdd ==
    ASSUME NEW A \in SUBSET Tasks, NEW w \in [Tasks -> Nat],
           NEW t \in Tasks, t \notin A
    PROVE  /\ Cardinality(Bytes(A, w)) \in Nat
           /\ Cardinality(Bytes(A \cup {t}, w)) = Cardinality(Bytes(A, w)) + w[t]
  <1> DEFINE B == {t} \X (1..w[t])
  <1>1. Bytes(A \cup {t}, w) = Bytes(A, w) \cup B
    BY DEF Bytes
  <1>2. Bytes(A, w) \cap B = {}
    BY DEF Bytes
  <1>3. IsFiniteSet(B) /\ Cardinality(B) = w[t]
    <2>1. IsFiniteSet({t}) /\ Cardinality({t}) = 1  BY FS_Singleton
    <2>2. IsFiniteSet(1..w[t]) /\ Cardinality(1..w[t]) = w[t]
      <3>1. 1 \in Int /\ w[t] \in Int /\ w[t] \in Nat  OBVIOUS
      <3>2. /\ IsFiniteSet(1..w[t])
            /\ Cardinality(1..w[t]) = IF 1 > w[t] THEN 0 ELSE w[t] - 1 + 1
        BY <3>1, FS_Interval
      <3> QED BY <3>1, <3>2
    <2>3. /\ IsFiniteSet({t} \X (1..w[t]))
          /\ Cardinality({t} \X (1..w[t])) = 1 * w[t]
      BY <2>1, <2>2, FS_Product
    <2> QED BY <2>3
  <1>4. IsFiniteSet(Bytes(A, w))  BY BytesFinite
  <1>5. Cardinality(Bytes(A, w)) \in Nat  BY <1>4, FS_CardinalityType
  <1> HIDE DEF B
  <1>6. Cardinality(Bytes(A, w) \cup B)
          = Cardinality(Bytes(A, w)) + Cardinality(B) - Cardinality(Bytes(A, w) \cap B)
    BY <1>3, <1>4, FS_Union
  <1>7. Cardinality(Bytes(A, w) \cap B) = 0  BY <1>2, FS_EmptySet
  <1>8. w[t] \in Nat  OBVIOUS
  <1>9. Cardinality(Bytes(A, w) \cup B) = Cardinality(Bytes(A, w)) + w[t]
    BY <1>3, <1>5, <1>6, <1>7, <1>8
  <1> QED BY <1>1, <1>5, <1>9

LEMMA BytesRemove ==
    ASSUME NEW A \in SUBSET Tasks, NEW w \in [Tasks -> Nat], NEW t \in A
    PROVE  /\ Cardinality(Bytes(A \ {t}, w)) \in Nat
           /\ Cardinality(Bytes(A, w)) = Cardinality(Bytes(A \ {t}, w)) + w[t]
  <1>1. A = (A \ {t}) \cup {t} /\ t \notin A \ {t} /\ A \ {t} \in SUBSET Tasks
        /\ t \in Tasks
    OBVIOUS
  <1> QED BY <1>1, BytesAdd

LEMMA BytesOfTwo ==
    ASSUME NEW A \in SUBSET Tasks, NEW w \in [Tasks -> Nat],
           NEW t \in A, NEW u \in A, t # u
    PROVE  Cardinality(Bytes(A, w)) >= w[t] + w[u]
  <1>1. u \in A \ {t} /\ A \ {t} \in SUBSET Tasks  OBVIOUS
  <1>2. /\ Cardinality(Bytes(A \ {t}, w)) \in Nat
        /\ Cardinality(Bytes(A, w)) = Cardinality(Bytes(A \ {t}, w)) + w[t]
    BY BytesRemove
  <1>3. /\ Cardinality(Bytes((A \ {t}) \ {u}, w)) \in Nat
        /\ Cardinality(Bytes(A \ {t}, w)) = Cardinality(Bytes((A \ {t}) \ {u}, w)) + w[u]
    BY <1>1, BytesRemove
  <1>4. w[t] \in Nat /\ w[u] \in Nat  OBVIOUS
  <1> QED BY <1>2, <1>3, <1>4

LEMMA BytesSame ==
    ASSUME NEW A, NEW v, NEW w, \A t \in A : v[t] = w[t]
    PROVE  Bytes(A, v) = Bytes(A, w)
  BY DEF Bytes

-----------------------------------------------------------------------------
(* Counters.                                                               *)

ActiveExact ==
    /\ activeTotal = Cardinality(Live)
    /\ \A n \in Nodes : activeBy[n] = Cardinality(TasksOf(n))

BlockedExact == \A n \in Nodes : blockedBy[n] = Cardinality(Blockers(n))

LEMMA AllFinite ==
    /\ IsFiniteSet(Live)
    /\ \A n \in Nodes : /\ IsFiniteSet(TasksOf(n)) /\ IsFiniteSet(Blockers(n))
                        /\ TasksOf(n) \subseteq Live
                        /\ Admitted(n) \subseteq TasksOf(n)
  <1>1. IsFiniteSet(Live)
    <2>1. Live \in SUBSET Tasks  BY DEF Live
    <2> QED BY <2>1, FS_Subset, BoundAssumption
  <1>2. ASSUME NEW n \in Nodes PROVE IsFiniteSet(TasksOf(n)) /\ IsFiniteSet(Blockers(n))
    <2>1. TasksOf(n) \in SUBSET Tasks  BY DEF TasksOf
    <2>2. Blockers(n) \in SUBSET Nodes  BY DEF Blockers
    <2> QED BY <2>1, <2>2, FS_Subset, BoundAssumption, GraphAssumption
  <1>3. \A n \in Nodes : TasksOf(n) \subseteq Live /\ Admitted(n) \subseteq TasksOf(n)
    BY GraphAssumption DEF TasksOf, Live, Admitted
  <1> QED BY <1>1, <1>2, <1>3

LEMMA FreshTask ==
    ASSUME Live # Tasks
    PROVE  NewTask \in Tasks /\ owner[NewTask] = NoNode /\ NewTask \notin Live
  <1>1. \E t \in Tasks : owner[t] = NoNode  BY DEF Live
  <1> QED BY <1>1 DEF NewTask, Live

LEMMA RegisterCounts ==
    ASSUME TypeOK, NEW t \in Tasks, NEW m \in Nodes, NEW w \in Nat,
           owner[t] = NoNode, Register(t, m, w)
    PROVE  /\ owner' \in [Tasks -> Nodes \cup {NoNode}]
           /\ weight' \in [Tasks -> Nat]
           /\ activeTotal' \in Nat
           /\ activeBy' \in [Nodes -> Nat]
           /\ t \notin Live /\ Live' = Live \cup {t}
           /\ TasksOf(m)' = TasksOf(m) \cup {t}
           /\ \A k \in Nodes \ {m} : TasksOf(k)' = TasksOf(k)
           /\ owner'[t] = m /\ weight'[t] = w
           /\ \A u \in Tasks \ {t} : owner'[u] = owner[u] /\ weight'[u] = weight[u]
           /\ ActiveExact => ActiveExact'
  <1>0. /\ owner \in [Tasks -> Nodes \cup {NoNode}] /\ weight \in [Tasks -> Nat]
        /\ activeTotal \in Nat /\ activeBy \in [Nodes -> Nat]
    BY DEF TypeOK
  <1>1. /\ owner' = [owner EXCEPT ![t] = m]
        /\ weight' = [weight EXCEPT ![t] = w]
        /\ activeTotal' = activeTotal + 1
        /\ activeBy' = [activeBy EXCEPT ![m] = @ + 1]
    BY DEF Register
  <1>2. /\ owner' \in [Tasks -> Nodes \cup {NoNode}]
        /\ weight' \in [Tasks -> Nat]
        /\ owner'[t] = m /\ weight'[t] = w
        /\ \A u \in Tasks \ {t} : owner'[u] = owner[u] /\ weight'[u] = weight[u]
    BY <1>0, <1>1
  <1>3. /\ activeTotal' = activeTotal + 1 /\ activeTotal' \in Nat
        /\ activeBy' \in [Nodes -> Nat]
        /\ activeBy'[m] = activeBy[m] + 1
        /\ \A k \in Nodes \ {m} : activeBy'[k] = activeBy[k]
    BY <1>0, <1>1
  <1>4. t \notin Live /\ Live' = Live \cup {t}
    BY <1>2, GraphAssumption DEF Live
  <1>5. /\ t \notin TasksOf(m) /\ TasksOf(m)' = TasksOf(m) \cup {t}
        /\ \A k \in Nodes \ {m} : TasksOf(k)' = TasksOf(k)
    BY <1>2, GraphAssumption DEF TasksOf
  <1>6. ASSUME ActiveExact PROVE ActiveExact'
    <2>1. Cardinality(Live') = Cardinality(Live) + 1
      BY <1>4, AllFinite, FS_AddElement
    <2>2. Cardinality(TasksOf(m)') = Cardinality(TasksOf(m)) + 1
      BY <1>5, AllFinite, FS_AddElement
    <2>3. ASSUME NEW k \in Nodes PROVE activeBy'[k] = Cardinality(TasksOf(k)')
      BY <1>3, <1>5, <1>6, <2>2 DEF ActiveExact
    <2>4. activeTotal' = Cardinality(Live')
      BY <1>3, <1>6, <2>1 DEF ActiveExact
    <2> QED BY <2>3, <2>4 DEF ActiveExact
  <1> QED BY <1>2, <1>3, <1>4, <1>5, <1>6

LEMMA ForgetCounts ==
    ASSUME TypeOK, ActiveExact, NEW t \in Tasks, NEW m \in Nodes,
           owner[t] = m, Forget(t, m)
    PROVE  /\ owner' \in [Tasks -> Nodes \cup {NoNode}]
           /\ weight' \in [Tasks -> Nat]
           /\ activeTotal' \in Nat
           /\ activeBy' \in [Nodes -> Nat]
           /\ t \in Live /\ Live' = Live \ {t}
           /\ TasksOf(m)' = TasksOf(m) \ {t}
           /\ \A k \in Nodes \ {m} : TasksOf(k)' = TasksOf(k)
           /\ \A u \in Tasks \ {t} : owner'[u] = owner[u] /\ weight'[u] = weight[u]
           /\ ActiveExact'
  <1> USE GraphAssumption DEF TypeOK, Forget
  <1>1. /\ owner' \in [Tasks -> Nodes \cup {NoNode}]
        /\ weight' \in [Tasks -> Nat]
        /\ owner'[t] = NoNode
        /\ \A u \in Tasks \ {t} : owner'[u] = owner[u] /\ weight'[u] = weight[u]
    OBVIOUS
  <1>2. t \in Live /\ Live' = Live \ {t}
    BY <1>1 DEF Live
  <1>3. /\ t \in TasksOf(m) /\ TasksOf(m)' = TasksOf(m) \ {t}
        /\ \A k \in Nodes \ {m} : TasksOf(k)' = TasksOf(k)
    BY <1>1 DEF TasksOf
  <1>4. /\ IsFiniteSet(Live') /\ Cardinality(Live') = Cardinality(Live) - 1
        /\ Cardinality(Live') \in Nat
    BY <1>2, AllFinite, FS_RemoveElement, FS_CardinalityType
  <1>5. /\ Cardinality(TasksOf(m)') = Cardinality(TasksOf(m)) - 1
        /\ Cardinality(TasksOf(m)') \in Nat
    <2>1. /\ IsFiniteSet(TasksOf(m) \ {t})
          /\ Cardinality(TasksOf(m) \ {t}) = Cardinality(TasksOf(m)) - 1
      BY <1>3, AllFinite, FS_RemoveElement
    <2>2. Cardinality(TasksOf(m) \ {t}) \in Nat
      BY <2>1, FS_CardinalityType
    <2> QED BY <1>3, <2>1, <2>2
  <1>6. activeTotal' = Cardinality(Live')
    BY <1>4 DEF ActiveExact
  <1>7. activeBy[m] - 1 = Cardinality(TasksOf(m)')
    BY <1>5 DEF ActiveExact
  <1>8. activeBy' \in [Nodes -> Nat] /\ activeBy'[m] = Cardinality(TasksOf(m)')
        /\ \A k \in Nodes \ {m} : activeBy'[k] = activeBy[k]
    BY <1>7, <1>5
  <1>9. ASSUME NEW k \in Nodes PROVE activeBy'[k] = Cardinality(TasksOf(k)')
    BY <1>3, <1>8 DEF ActiveExact
  <1> QED BY <1>1, <1>2, <1>3, <1>4, <1>6, <1>8, <1>9 DEF ActiveExact

LEMMA BlockedUp ==
    ASSUME TypeOK, BlockedExact, NEW n \in Nodes, NEW m \in Nodes,
           n \notin Blockers(m), Blockers(m)' = Blockers(m) \cup {n},
           \A k \in Nodes \ {m} : Blockers(k)' = Blockers(k),
           blockedBy' = [blockedBy EXCEPT ![m] = @ + 1]
    PROVE  blockedBy' \in [Nodes -> Nat] /\ BlockedExact'
  <1>1. Cardinality(Blockers(m)') = Cardinality(Blockers(m)) + 1
    BY AllFinite, FS_AddElement
  <1>2. /\ blockedBy' \in [Nodes -> Nat] /\ blockedBy'[m] = blockedBy[m] + 1
        /\ \A k \in Nodes \ {m} : blockedBy'[k] = blockedBy[k]
    BY SMTT(30) DEF TypeOK
  <1>3. ASSUME NEW k \in Nodes PROVE blockedBy'[k] = Cardinality(Blockers(k)')
    BY <1>1, <1>2 DEF BlockedExact
  <1> QED BY <1>2, <1>3 DEF BlockedExact

LEMMA BlockedDown ==
    ASSUME TypeOK, BlockedExact, NEW n \in Nodes, NEW m \in Nodes,
           n \in Blockers(m), Blockers(m)' = Blockers(m) \ {n},
           \A k \in Nodes \ {m} : Blockers(k)' = Blockers(k),
           blockedBy' = [blockedBy EXCEPT ![m] = @ - 1]
    PROVE  blockedBy' \in [Nodes -> Nat] /\ BlockedExact'
  <1>1. /\ Cardinality(Blockers(m)') = Cardinality(Blockers(m)) - 1
        /\ Cardinality(Blockers(m)') \in Nat
    BY AllFinite, FS_RemoveElement, FS_CardinalityType
  <1>2. blockedBy[m] - 1 = Cardinality(Blockers(m)')
    BY <1>1 DEF BlockedExact
  <1>3. /\ blockedBy' \in [Nodes -> Nat] /\ blockedBy'[m] = blockedBy[m] - 1
        /\ \A k \in Nodes \ {m} : blockedBy'[k] = blockedBy[k]
    BY <1>1, <1>2 DEF TypeOK
  <1>4. ASSUME NEW k \in Nodes PROVE blockedBy'[k] = Cardinality(Blockers(k)')
    BY <1>2, <1>3 DEF BlockedExact
  <1> QED BY <1>3, <1>4 DEF BlockedExact

LEMMA BlockedSame ==
    ASSUME TypeOK, BlockedExact, UNCHANGED blockedBy,
           \A k \in Nodes : Blockers(k)' = Blockers(k)
    PROVE  blockedBy' \in [Nodes -> Nat] /\ BlockedExact'
  BY DEF TypeOK, BlockedExact
-----------------------------------------------------------------------------
(* Budgets.                                                                *)

LEMMA AdmittedTasks == \A n \in Nodes : Admitted(n) \in SUBSET Tasks
  BY DEF Admitted, TasksOf

LEMMA BudgetAdd ==
    ASSUME TypeOK, BudgetExact, weight' \in [Tasks -> Nat],
           NEW t \in Tasks, NEW m \in Nodes,
           \A k \in Nodes : t \notin Admitted(k),
           Admitted(m)' = Admitted(m) \cup {t},
           \A k \in Nodes \ {m} : Admitted(k)' = Admitted(k),
           \A u \in Tasks \ {t} : weight'[u] = weight[u],
           used' = [used EXCEPT ![m] = @ + weight'[t]],
           ~OverBudget(m, weight'[t]) \/ weight'[t] = 0
    PROVE  used' \in [Nodes -> Nat] /\ BudgetExact'
  <1> DEFINE v == weight'
  <1>1. /\ used \in [Nodes -> Nat] /\ used' \in [Nodes -> Nat]
        /\ v[t] \in Nat /\ v \in [Tasks -> Nat]
        /\ used'[m] = used[m] + v[t]
        /\ \A k \in Nodes \ {m} : used'[k] = used[k]
    BY DEF TypeOK
  <1>2. ASSUME NEW k \in Nodes PROVE Bytes(Admitted(k), weight) = Bytes(Admitted(k), v)
    <2>1. \A u \in Admitted(k) : weight[u] = v[u]  BY AdmittedTasks
    <2> HIDE DEF v
    <2> QED BY <2>1, BytesSame
  <1> HIDE DEF v
  <1>3. Cardinality(Bytes(Admitted(m)', v)) = Cardinality(Bytes(Admitted(m), v)) + v[t]
    BY <1>1, AdmittedTasks, BytesAdd
  <1>4. ASSUME NEW k \in Nodes
        PROVE  used'[k] = Cardinality(Bytes(Admitted(k)', v))
    <2>1. CASE k = m
      BY <1>1, <1>2, <1>3, <2>1 DEF BudgetExact
    <2>2. CASE k # m
      BY <1>1, <1>2, <2>2 DEF BudgetExact
    <2> QED BY <2>1, <2>2
  <1>5. ASSUME NEW k \in Nodes
        PROVE  used'[k] <= Budget \/ \E u \in Admitted(k)' : used'[k] = v[u]
    <2>1. CASE k = m
      <3>1. used[m] = 0 \/ used'[m] <= Budget \/ v[t] = 0
        BY <1>1, BoundAssumption DEF OverBudget, v
      <3>2. CASE used[m] = 0
        <4>1. used'[m] = v[t] /\ t \in Admitted(m)'  BY <3>2, <1>1
        <4> QED BY <4>1, <2>1
      <3>3. CASE v[t] = 0
        <4>1. used'[m] = used[m]  BY <3>3, <1>1
        <4>2. used[m] <= Budget \/ \E u \in Admitted(m) : used[m] = weight[u]
          BY DEF BudgetExact
        <4>3. \A u \in Admitted(m) : weight[u] = v[u]
          BY AdmittedTasks DEF v
        <4> QED BY <4>1, <4>2, <4>3, <2>1
      <3> QED BY <3>1, <3>2, <3>3, <2>1
    <2>2. CASE k # m
      <3>1. used[k] <= Budget \/ \E u \in Admitted(k) : used[k] = weight[u]
        BY DEF BudgetExact
      <3>2. \A u \in Admitted(k) : weight[u] = v[u]
        BY AdmittedTasks DEF v
      <3> QED BY <3>1, <3>2, <2>2, <1>1
    <2> QED BY <2>1, <2>2
  <1> QED BY <1>1, <1>4, <1>5 DEF BudgetExact, v

LEMMA BudgetRemove ==
    ASSUME TypeOK, BudgetExact, weight' \in [Tasks -> Nat],
           NEW t \in Tasks, NEW m \in Nodes,
           t \in Admitted(m),
           Admitted(m)' = Admitted(m) \ {t},
           \A k \in Nodes \ {m} : Admitted(k)' = Admitted(k) /\ t \notin Admitted(k),
           \A u \in Tasks \ {t} : weight'[u] = weight[u],
           used' = [used EXCEPT ![m] = @ - weight[t]]
    PROVE  used' \in [Nodes -> Nat] /\ BudgetExact'
  <1> DEFINE v == weight'
             Rest == Admitted(m) \ {t}
  <1>1. /\ used \in [Nodes -> Nat] /\ weight \in [Tasks -> Nat]
        /\ v \in [Tasks -> Nat]
    BY DEF TypeOK
  <1>2. /\ Cardinality(Bytes(Rest, weight)) \in Nat
        /\ Cardinality(Bytes(Admitted(m), weight))
              = Cardinality(Bytes(Rest, weight)) + weight[t]
    BY <1>1, AdmittedTasks, BytesRemove
  <1>3. used[m] - weight[t] = Cardinality(Bytes(Rest, weight))
    <2>1. weight[t] \in Nat  BY <1>1
    <2> HIDE DEF Rest
    <2> QED BY <1>2, <2>1 DEF BudgetExact
  <1>4. /\ used' \in [Nodes -> Nat]
        /\ used'[m] = Cardinality(Bytes(Rest, weight))
        /\ \A k \in Nodes \ {m} : used'[k] = used[k]
    <2> HIDE DEF Rest
    <2> QED BY <1>1, <1>2, <1>3
  <1>5. ASSUME NEW k \in Nodes
        PROVE  Bytes(Admitted(k)', weight) = Bytes(Admitted(k)', v)
    <2>1. \A u \in Admitted(k)' : weight[u] = v[u]
      BY AdmittedTasks
    <2> HIDE DEF v
    <2> QED BY <2>1, BytesSame
  <1>6. ASSUME NEW k \in Nodes
        PROVE  used'[k] = Cardinality(Bytes(Admitted(k)', v))
    <2> HIDE DEF v
    <2>1. CASE k = m
      BY <1>4, <1>5, <2>1
    <2>2. CASE k # m
      BY <1>4, <1>5, <2>2 DEF BudgetExact
    <2> QED BY <2>1, <2>2
  <1>7. ASSUME NEW k \in Nodes
        PROVE  used'[k] <= Budget \/ \E u \in Admitted(k)' : used'[k] = v[u]
    <2>1. PICK u \in Admitted(k) \cup {NoTask} :
              used[k] <= Budget \/ (u \in Admitted(k) /\ used[k] = weight[u])
      BY DEF BudgetExact
    <2>2. CASE k # m
      <3>1. \A x \in Admitted(k) : weight[x] = v[x]  BY <2>2, AdmittedTasks
      <3> QED BY <2>1, <2>2, <3>1, <1>4
    <2>3. CASE k = m /\ used[m] <= Budget
      <3>1. used[m] \in Nat /\ weight[t] \in Nat /\ Budget \in Nat
        BY <1>1, BoundAssumption
      <3> HIDE DEF Rest
      <3> QED BY <2>3, <3>1, <1>3, <1>4
    <2>4. CASE k = m /\ u \in Admitted(m) /\ used[m] = weight[u] /\ u = t
      <3>1. weight[t] \in Nat /\ Budget \in Nat  BY <1>1, BoundAssumption
      <3>2. used'[m] = 0
        <4> HIDE DEF Rest
        <4> QED BY <2>4, <3>1, <1>3, <1>4
      <3> QED BY <2>4, <3>1, <3>2
    <2>5. CASE k = m /\ u \in Admitted(m) /\ used[m] = weight[u] /\ u # t
      <3>1. weight[t] \in Nat /\ weight[u] \in Nat /\ u \in Tasks
        BY <2>5, <1>1, AdmittedTasks
      <3>2. used[m] >= weight[t] + weight[u]
        <4>1. Cardinality(Bytes(Admitted(m), weight)) >= weight[t] + weight[u]
          BY <1>1, <2>5, AdmittedTasks, BytesOfTwo
        <4> QED BY <4>1 DEF BudgetExact
      <3>3. used'[m] = weight[u]
        <4> HIDE DEF Rest
        <4> QED BY <2>5, <3>1, <3>2, <1>3, <1>4
      <3>4. u \in Admitted(m)' /\ weight[u] = v[u]  BY <2>5, <3>1
      <3> HIDE DEF v
      <3> QED BY <2>5, <3>3, <3>4
    <2> QED BY <2>1, <2>2, <2>3, <2>4, <2>5
  <1> QED BY <1>4, <1>6, <1>7 DEF BudgetExact

LEMMA BudgetSame ==
    ASSUME TypeOK, BudgetExact, UNCHANGED used,
           \A k \in Nodes : /\ Admitted(k)' = Admitted(k)
                            /\ \A u \in Admitted(k) : weight'[u] = weight[u]
    PROVE  used' \in [Nodes -> Nat] /\ BudgetExact'
  <1> DEFINE v == weight'
  <1>1. ASSUME NEW k \in Nodes
        PROVE  Bytes(Admitted(k), weight) = Bytes(Admitted(k), v)
    <2>1. \A u \in Admitted(k) : weight[u] = v[u]  OBVIOUS
    <2> HIDE DEF v
    <2> QED BY <2>1, BytesSame
  <1>2. ASSUME NEW k \in Nodes
        PROVE  /\ used'[k] = Cardinality(Bytes(Admitted(k)', v))
               /\ used'[k] <= Budget \/ \E u \in Admitted(k)' : used'[k] = v[u]
    <2>1. /\ used[k] = Cardinality(Bytes(Admitted(k), weight))
          /\ used[k] <= Budget \/ \E u \in Admitted(k) : used[k] = weight[u]
      BY DEF BudgetExact
    <2>2. \A u \in Admitted(k) : weight[u] = v[u]  OBVIOUS
    <2> HIDE DEF v
    <2> QED BY <2>1, <2>2, <1>1
  <1>3. used' \in [Nodes -> Nat]  BY DEF TypeOK
  <1> QED BY <1>2, <1>3 DEF BudgetExact

-----------------------------------------------------------------------------
(* The accounting: where the tasks are, and what the counters say of them. *)

Accounting == TypeOK /\ TasksInPlace /\ CountersExact /\ BudgetExact

LEMMA CountersParts == CountersExact <=> ActiveExact /\ BlockedExact
  BY DEF CountersExact, ActiveExact, BlockedExact

(* No worker enters or leaves an admission, and what each one holds fits   *)
(* the state it is in.                                                     *)
SameAdmissions ==
    \A n \in Nodes : /\ pc'[n] = "budget" <=> pc[n] = "budget"
                     /\ pc'[n] = "put" <=> pc[n] = "put"

placeVars == <<owner, weight, activeTotal, activeBy, queue, used, blockedBy,
               held, sending>>

-----------------------------------------------------------------------------
(* Steps that move no task.                                                *)

LEMMA QuietStep ==
    ASSUME Accounting, UNCHANGED placeVars, SameAdmissions, HeldWhileBusy'
    PROVE  TasksInPlace' /\ CountersExact' /\ BudgetExact'
  <1> USE DEF Accounting, placeVars
  <1>1. \A n \in Nodes : Admitting(n)' <=> Admitting(n)
    BY DEF SameAdmissions, Admitting
  <1>2. Live' = Live /\ \A n \in Nodes : TasksOf(n)' = TasksOf(n)
    BY DEF Live, TasksOf
  <1>3. AtOwnNode'
    BY <1>2 DEF AtOwnNode, TasksInPlace
  <1>4. SentIsApart'
    BY <1>1, <1>2 DEF SentIsApart, TasksInPlace
  <1>5. NoneLost'
    BY <1>2 DEF NoneLost, TasksInPlace
  <1>6. \A n \in Nodes : Blockers(n)' = Blockers(n)
    BY <1>1 DEF Blockers
  <1>7. \A n \in Nodes : Admitted(n)' = Admitted(n)
    BY <1>2 DEF Admitted, SameAdmissions
  <1>8. CountersExact'
    BY <1>2, <1>6 DEF CountersExact
  <1>9. BudgetExact'
    BY <1>7 DEF BudgetExact
  <1> QED BY <1>3, <1>4, <1>5, <1>8, <1>9 DEF TasksInPlace

QuietMain ==
    \/ SeedDone \/ MainSleep \/ MainWake \/ MainCancelled \/ MainJoined
    \/ Cancel \/ UNCHANGED vars
    \/ \E i \in InputNodes : SeedInput(i) /\ UNCHANGED placeVars

LEMMA QuietMainStep ==
    ASSUME Accounting, QuietMain
    PROVE  Accounting'
  <1> USE DEF Accounting
  <1>1. /\ UNCHANGED placeVars /\ UNCHANGED <<pc, pending, remaining, errors>>
        /\ toSeed' \subseteq toSeed
        /\ mainPc' \in {"seed", "wait", "stop", "unwind", "done"}
        /\ outcome' \in {"none", "completed", "failed", "cancelled"}
        /\ token' \in BOOLEAN
        /\ asleep' \subseteq asleep \cup {Main}
    <2>1. CASE SeedDone
      BY <2>1 DEF SeedDone, placeVars, taskVars, queueVars, TypeOK
    <2>2. CASE MainSleep
      BY <2>2 DEF MainSleep, placeVars, taskVars, queueVars, mainVars, TypeOK
    <2>3. CASE MainWake
      BY <2>3 DEF MainWake, placeVars, taskVars, queueVars, TypeOK
    <2>4. CASE MainCancelled
      BY <2>4 DEF MainCancelled, placeVars, taskVars, queueVars, TypeOK
    <2>5. CASE MainJoined
      BY <2>5 DEF MainJoined, placeVars, taskVars, queueVars, TypeOK
    <2>6. CASE Cancel
      BY <2>6 DEF Cancel, placeVars, taskVars, queueVars, mainVars, TypeOK
    <2>7. CASE UNCHANGED vars
      BY <2>7 DEF vars, placeVars, taskVars, queueVars, mainVars, TypeOK
    <2>8. ASSUME NEW i \in InputNodes, SeedInput(i), UNCHANGED placeVars
          PROVE  /\ UNCHANGED <<pc, pending, remaining, errors>>
                 /\ toSeed' \subseteq toSeed
                 /\ mainPc' = mainPc /\ outcome' = outcome /\ token' = token
                 /\ asleep' \subseteq asleep
      BY <2>8 DEF SeedInput, Notify
    <2>9. CASE \E i \in InputNodes : SeedInput(i) /\ UNCHANGED placeVars
      BY <2>8, <2>9 DEF TypeOK
    <2> QED BY <2>1, <2>2, <2>3, <2>4, <2>5, <2>6, <2>7, <2>9 DEF QuietMain
  <1>2. SameAdmissions
    BY <1>1 DEF SameAdmissions
  <1>3. HeldWhileBusy'
    BY <1>1 DEF placeVars, HeldWhileBusy, TasksInPlace
  <1>4. TypeOK'
    BY <1>1 DEF placeVars, TypeOK
  <1> QED BY <1>1, <1>2, <1>3, <1>4, QuietStep

QuietWorker(n) ==
    \/ CollectSleep(n) \/ CollectFirst(n) \/ AcquireLease(n) \/ Execute(n)
    \/ Fail(n) \/ RouteCancelled(n) \/ LeaveFinally(n) \/ CancelIdle(n)
    \/ CancelBusy(n)
    \/ EndBatch(n) /\ ~MoreItems(n)

LEMMA QuietWorkerStep ==
    ASSUME Accounting, NEW n \in Nodes, QuietWorker(n)
    PROVE  Accounting'
  <1> USE DEF Accounting
  <1>1. /\ UNCHANGED placeVars /\ UNCHANGED <<mainPc, toSeed, outcome, token>>
        /\ \E p \in WorkerStates :
            /\ pc' = [pc EXCEPT ![n] = p]
            /\ p = "budget" <=> pc[n] = "budget"
            /\ p = "put" <=> pc[n] = "put"
            /\ p = "fill" => queue[n] # <<>>
            /\ p \in {"first", "fill", "dead"} => held[n] = <<>>
            /\ p \in {"lease", "execute", "route", "budget", "put"} => held[n] # <<>>
        /\ pending' \in [Nodes -> Nat]
        /\ remaining' \in [Nodes -> 0..MaxItems]
        /\ errors' \subseteq Nodes
        /\ asleep' \subseteq asleep \cup {n}
    <2> USE DEF placeVars, taskVars, queueVars, mainVars, TypeOK, WorkerStates,
                TasksInPlace, HeldWhileBusy
    <2>1. CASE CollectSleep(n)
      <3>1. pc' = [pc EXCEPT ![n] = pc[n]]  BY <2>1 DEF CollectSleep
      <3> QED BY <2>1, <3>1 DEF CollectSleep
    <2>2. CASE CollectFirst(n)
      <3>1. queue[n] # <<>>
        BY <2>2, EmptySeq DEF CollectFirst, Ready
      <3> QED BY <2>2, <3>1 DEF CollectFirst
    <2>3. CASE AcquireLease(n)
      BY <2>3 DEF AcquireLease
    <2>4. CASE Execute(n)
      <3>1. /\ UNCHANGED placeVars
            /\ UNCHANGED <<mainPc, toSeed, outcome, token, errors, asleep>>
        BY <2>4 DEF Execute
      <3>2. remaining' \in [Nodes -> 0..MaxItems]
        BY <2>4 DEF Execute
      <3>3. pending' \in [Nodes -> Nat]
        <4>1. pending' = pending \/ \E k \in 0..MaxOut : pending' = [pending EXCEPT ![n] = k]
          BY <2>4 DEF Execute
        <4>2. 0..MaxOut \subseteq Nat  BY BoundAssumption
        <4>3. pending \in [Nodes -> Nat]  OBVIOUS
        <4> QED BY <4>1, <4>2, <4>3
      <3>4. held[n] # <<>> /\ pc[n] = "execute"
        BY <2>4 DEF Execute
      <3>5. \E p \in {"raising", "route"} : pc' = [pc EXCEPT ![n] = p]
        BY <2>4 DEF Execute
      <3> QED BY <3>1, <3>2, <3>3, <3>4, <3>5
    <2>5. CASE Fail(n)
      BY <2>5 DEF Fail, Notify
    <2>6. CASE RouteCancelled(n)
      BY <2>6 DEF RouteCancelled
    <2>7. CASE LeaveFinally(n)
      BY <2>7 DEF LeaveFinally
    <2>8. CASE CancelIdle(n)
      BY <2>8 DEF CancelIdle
    <2>9. CASE CancelBusy(n)
      BY <2>9 DEF CancelBusy
    <2>10. CASE EndBatch(n) /\ ~MoreItems(n)
      BY <2>10 DEF EndBatch
    <2> QED BY <2>1, <2>2, <2>3, <2>4, <2>5, <2>6, <2>7, <2>8, <2>9, <2>10
            DEF QuietWorker
  <1>2. SameAdmissions
    BY <1>1 DEF SameAdmissions, TypeOK
  <1>3. HeldWhileBusy'
    BY <1>1 DEF placeVars, HeldWhileBusy, TasksInPlace, TypeOK
  <1>4. TypeOK'
    BY ZenonT(30), <1>1 DEF placeVars, TypeOK
  <1> QED BY <1>1, <1>2, <1>3, <1>4, QuietStep

-----------------------------------------------------------------------------
(* A new task is created: for the queue of m, or for the worker n that     *)
(* has to wait before it may put it there.                                 *)

LEMMA ArriveInQueue ==
    ASSUME Accounting, NEW t \in Tasks, NEW m \in Nodes, NEW w \in Nat,
           owner[t] = NoNode, Register(t, m, w),
           ~OverBudget(m, w) \/ w = 0,
           used' = [used EXCEPT ![m] = @ + w],
           queue' = [queue EXCEPT ![m] = Append(@, t)],
           UNCHANGED <<blockedBy, held, sending>>,
           SameAdmissions, HeldWhileBusy'
    PROVE  /\ owner' \in [Tasks -> Nodes \cup {NoNode}]
           /\ weight' \in [Tasks -> Nat]
           /\ activeTotal' \in Nat
           /\ activeBy' \in [Nodes -> Nat]
           /\ used' \in [Nodes -> Nat]
           /\ queue' \in [Nodes -> Seq(Tasks)]
           /\ queue'[m] # <<>>
           /\ TasksInPlace' /\ CountersExact' /\ BudgetExact'
  <1> USE DEF Accounting
  <1>1. /\ owner' \in [Tasks -> Nodes \cup {NoNode}]
        /\ weight' \in [Tasks -> Nat]
        /\ activeTotal' \in Nat
        /\ activeBy' \in [Nodes -> Nat]
        /\ t \notin Live /\ Live' = Live \cup {t}
        /\ TasksOf(m)' = TasksOf(m) \cup {t}
        /\ \A k \in Nodes \ {m} : TasksOf(k)' = TasksOf(k)
        /\ owner'[t] = m /\ weight'[t] = w
        /\ \A u \in Tasks \ {t} : owner'[u] = owner[u] /\ weight'[u] = weight[u]
        /\ ActiveExact'
    BY RegisterCounts, CountersParts
  <1>2. /\ queue' \in [Nodes -> Seq(Tasks)]
        /\ Elems(queue'[m]) = Elems(queue[m]) \cup {t}
        /\ Distinct(queue[m]) /\ t \notin Elems(queue[m]) => Distinct(queue'[m])
        /\ \A k \in Nodes \ {m} : queue'[k] = queue[k]
    <2>1. queue \in [Nodes -> Seq(Tasks)]  BY DEF TypeOK
    <2>2. /\ Append(queue[m], t) \in Seq(Tasks)
          /\ Elems(Append(queue[m], t)) = Elems(queue[m]) \cup {t}
          /\ Distinct(queue[m]) /\ t \notin Elems(queue[m]) => Distinct(Append(queue[m], t))
      BY <2>1, ElemsAppend
    <2> QED BY <2>1, <2>2
  <1>3. t \notin TasksOf(m) /\ \A k \in Nodes : TasksOf(k) \subseteq Live
    BY <1>1, AllFinite
  <1>4. \A n \in Nodes : Admitting(n)' <=> Admitting(n)
    BY DEF SameAdmissions, Admitting
  <1>5. AtOwnNode'
    <2> SUFFICES ASSUME NEW n \in Nodes
                 PROVE  /\ Elems(queue'[n]) \subseteq TasksOf(n)'
                        /\ Elems(held'[n]) \subseteq TasksOf(n)'
                        /\ Elems(queue'[n]) \cap Elems(held'[n]) = {}
                        /\ Distinct(queue'[n]) /\ Distinct(held'[n])
      BY DEF AtOwnNode
    <2>1. /\ Elems(queue[n]) \subseteq TasksOf(n)
          /\ Elems(held[n]) \subseteq TasksOf(n)
          /\ Elems(queue[n]) \cap Elems(held[n]) = {}
          /\ Distinct(queue[n]) /\ Distinct(held[n])
      BY DEF AtOwnNode, TasksInPlace
    <2>2. CASE n = m
      BY <1>1, <1>2, <1>3, <2>1, <2>2
    <2>3. CASE n # m
      BY <1>1, <1>2, <2>1, <2>3
    <2> QED BY <2>2, <2>3
  <1>6. SentIsApart'
    <2> SUFFICES ASSUME NEW n \in Nodes
                 PROVE  /\ sending'[n] # NoTask <=> Admitting(n)'
                        /\ Admitting(n)' =>
                            /\ sending'[n] \in Live'
                            /\ \A k \in Nodes :
                                /\ sending'[n] \notin Elems(queue'[k]) \cup Elems(held'[k])
                                /\ sending'[k] = sending'[n] => k = n
      BY DEF SentIsApart
    <2>1. /\ sending[n] # NoTask <=> Admitting(n)
          /\ Admitting(n) =>
              /\ sending[n] \in Live
              /\ \A k \in Nodes :
                  /\ sending[n] \notin Elems(queue[k]) \cup Elems(held[k])
                  /\ sending[k] = sending[n] => k = n
      BY DEF SentIsApart, TasksInPlace
    <2> QED BY <1>1, <1>2, <1>4, <2>1
  <1>7. NoneLost'
    <2> SUFFICES ASSUME NEW u \in Live'
                 PROVE  \/ u \in Elems(queue'[owner'[u]]) \cup Elems(held'[owner'[u]])
                        \/ \E n \in Nodes : sending'[n] = u
      BY DEF NoneLost
    <2>1. CASE u = t
      BY <2>1, <1>1, <1>2
    <2>2. CASE u # t
      <3>1. u \in Live /\ u \in Tasks /\ owner'[u] = owner[u] /\ owner[u] \in Nodes
        BY <2>2, <1>1 DEF Live, TypeOK
      <3>2. \/ u \in Elems(queue[owner[u]]) \cup Elems(held[owner[u]])
            \/ \E n \in Nodes : sending[n] = u
        BY <3>1 DEF NoneLost, TasksInPlace
      <3> QED BY <3>1, <3>2, <1>2
    <2> QED BY <2>1, <2>2
  <1>8. BlockedExact'
    <2>1. ASSUME NEW k \in Nodes PROVE Blockers(k)' = Blockers(k)
      <3>1. \A p \in Nodes : Admitting(p) => sending[p] \in Tasks \ {t}
        BY <1>1 DEF SentIsApart, TasksInPlace, Live
      <3> QED BY <3>1, <1>1, <1>4 DEF Blockers
    <2> QED BY <2>1, BlockedSame, CountersParts
  <1>9. used' \in [Nodes -> Nat] /\ BudgetExact'
    <2>1. \A k \in Nodes : t \notin Admitted(k)
      BY <1>1, <1>3, AllFinite
    <2>2. \A n \in Nodes : pc[n] = "budget" => sending[n] # t
      BY <1>1 DEF SentIsApart, TasksInPlace, Admitting
    <2>3. Admitted(m)' = Admitted(m) \cup {t}
      BY <1>1, <2>2 DEF Admitted, SameAdmissions
    <2>4. \A k \in Nodes \ {m} : Admitted(k)' = Admitted(k)
      BY <1>1 DEF Admitted, SameAdmissions
    <2>5. weight'[t] = w /\ \A u \in Tasks \ {t} : weight'[u] = weight[u]
      BY <1>1
    <2>6. /\ used' = [used EXCEPT ![m] = @ + weight'[t]]
          /\ ~OverBudget(m, weight'[t]) \/ weight'[t] = 0
      BY <2>5
    <2>7. weight' \in [Tasks -> Nat]  BY <1>1
    <2> QED BY <2>1, <2>3, <2>4, <2>5, <2>6, <2>7, BudgetAdd
  <1>10. CountersExact'
    BY <1>1, <1>8 DEF CountersExact, ActiveExact, BlockedExact
  <1>11. queue'[m] # <<>>
    <2>1. Elems(queue'[m]) # {}  BY <1>2
    <2> QED BY <2>1, EmptyDistinct
  <1> QED BY <1>1, <1>2, <1>5, <1>6, <1>7, <1>9, <1>10, <1>11 DEF TasksInPlace

LEMMA ArriveBlocked ==
    ASSUME Accounting, NEW t \in Tasks, NEW m \in Nodes, NEW w \in Nat,
           NEW n \in Nodes, NEW p \in {"budget", "put"},
           owner[t] = NoNode, Register(t, m, w),
           pc[n] = "route", pc' = [pc EXCEPT ![n] = p],
           \/ p = "budget" /\ UNCHANGED used
           \/ p = "put" /\ ~OverBudget(m, w) /\ used' = [used EXCEPT ![m] = @ + w],
           sending' = [sending EXCEPT ![n] = t],
           blockedBy' = [blockedBy EXCEPT ![m] = @ + 1],
           UNCHANGED <<queue, held>>
    PROVE  /\ owner' \in [Tasks -> Nodes \cup {NoNode}]
           /\ weight' \in [Tasks -> Nat]
           /\ activeTotal' \in Nat
           /\ activeBy' \in [Nodes -> Nat]
           /\ used' \in [Nodes -> Nat]
           /\ blockedBy' \in [Nodes -> Nat]
           /\ TasksInPlace' /\ CountersExact' /\ BudgetExact'
  <1> USE DEF Accounting
  <1>1. /\ owner' \in [Tasks -> Nodes \cup {NoNode}]
        /\ weight' \in [Tasks -> Nat]
        /\ activeTotal' \in Nat
        /\ activeBy' \in [Nodes -> Nat]
        /\ t \notin Live /\ Live' = Live \cup {t}
        /\ TasksOf(m)' = TasksOf(m) \cup {t}
        /\ \A k \in Nodes \ {m} : TasksOf(k)' = TasksOf(k)
        /\ owner'[t] = m /\ weight'[t] = w
        /\ \A u \in Tasks \ {t} : owner'[u] = owner[u] /\ weight'[u] = weight[u]
        /\ ActiveExact'
    BY RegisterCounts, CountersParts
  <1>2. /\ pc'[n] = p /\ sending'[n] = t
        /\ \A k \in Nodes \ {n} : pc'[k] = pc[k] /\ sending'[k] = sending[k]
    BY DEF TypeOK
  <1>3. /\ Admitting(n)' /\ ~Admitting(n)
        /\ \A k \in Nodes \ {n} : Admitting(k)' <=> Admitting(k)
    BY <1>2 DEF Admitting
  <1>4. \A k \in Nodes : /\ TasksOf(k) \subseteq Live
                         /\ Elems(queue[k]) \subseteq TasksOf(k)
                         /\ Elems(held[k]) \subseteq TasksOf(k)
    BY AllFinite DEF AtOwnNode, TasksInPlace
  <1>5. t # NoTask /\ \A k \in Nodes : sending[k] # t
    BY <1>1, BoundAssumption DEF SentIsApart, TasksInPlace
  <1>6. AtOwnNode'
    <2>1. \A k \in Nodes : TasksOf(k) \subseteq TasksOf(k)'  BY <1>1
    <2> QED BY <2>1 DEF AtOwnNode, TasksInPlace
  <1>7. HeldWhileBusy'
    BY <1>2 DEF HeldWhileBusy, TasksInPlace
  <1>8. SentIsApart'
    <2> SUFFICES ASSUME NEW k \in Nodes
                 PROVE  /\ sending'[k] # NoTask <=> Admitting(k)'
                        /\ Admitting(k)' =>
                            /\ sending'[k] \in Live'
                            /\ \A l \in Nodes :
                                /\ sending'[k] \notin Elems(queue[l]) \cup Elems(held[l])
                                /\ sending'[l] = sending'[k] => l = k
      BY DEF SentIsApart
    <2>1. CASE k = n
      BY <2>1, <1>1, <1>2, <1>3, <1>4, <1>5
    <2>2. CASE k # n
      <3>1. /\ sending[k] # NoTask <=> Admitting(k)
            /\ Admitting(k) =>
                /\ sending[k] \in Live
                /\ \A l \in Nodes :
                    /\ sending[k] \notin Elems(queue[l]) \cup Elems(held[l])
                    /\ sending[l] = sending[k] => l = k
        BY DEF SentIsApart, TasksInPlace
      <3> QED BY <2>2, <3>1, <1>1, <1>2, <1>3, <1>5
    <2> QED BY <2>1, <2>2
  <1>9. NoneLost'
    <2> SUFFICES ASSUME NEW u \in Live'
                 PROVE  \/ u \in Elems(queue[owner'[u]]) \cup Elems(held[owner'[u]])
                        \/ \E k \in Nodes : sending'[k] = u
      BY DEF NoneLost
    <2>1. CASE u = t
      BY <2>1, <1>2
    <2>2. CASE u # t
      <3>1. u \in Live /\ u \in Tasks /\ owner'[u] = owner[u]
        BY <2>2, <1>1 DEF Live
      <3>2. \/ u \in Elems(queue[owner[u]]) \cup Elems(held[owner[u]])
            \/ \E k \in Nodes : sending[k] = u
        BY <3>1 DEF NoneLost, TasksInPlace
      <3>3. sending[n] = NoTask /\ u # NoTask
        BY <1>3, <3>1, BoundAssumption DEF SentIsApart, TasksInPlace
      <3> QED BY <3>1, <3>2, <3>3, <1>2
    <2> QED BY <2>1, <2>2
  <1>10. blockedBy' \in [Nodes -> Nat] /\ BlockedExact'
    <2>1. \A k \in Nodes \ {n} : Admitting(k) => sending[k] \in Tasks \ {t}
      BY <1>1 DEF SentIsApart, TasksInPlace, Live
    <2>2. n \notin Blockers(m) /\ Blockers(m)' = Blockers(m) \cup {n}
      BY <1>1, <1>2, <1>3, <2>1 DEF Blockers
    <2>3. \A k \in Nodes \ {m} : Blockers(k)' = Blockers(k)
      BY <1>1, <1>2, <1>3, <2>1 DEF Blockers
    <2> QED BY <2>2, <2>3, BlockedUp, CountersParts
  <1>11. used' \in [Nodes -> Nat] /\ BudgetExact'
    <2>1. \A k \in Nodes : t \notin Admitted(k)
      BY <1>1, AllFinite
    <2>2. \A u \in Tasks \ {t} :
              (\A k \in Nodes : pc'[k] = "budget" => sending'[k] # u)
                <=> (\A k \in Nodes : pc[k] = "budget" => sending[k] # u)
      BY <1>2
    <2>3. \A k \in Nodes \ {m} : Admitted(k)' = Admitted(k)
      <3>1. \A k \in Nodes \ {m} : t \notin TasksOf(k)  BY <1>1, <1>4
      <3>2. \A k \in Nodes : TasksOf(k) \subseteq Tasks  BY DEF TasksOf
      <3> QED BY <1>1, <2>2, <3>1, <3>2 DEF Admitted
    <2>4. CASE p = "budget"
      <3>1. Admitted(m)' = Admitted(m)
        <4>1. t \notin Admitted(m)'  BY <1>2, <2>4 DEF Admitted
        <4>2. TasksOf(m) \subseteq Tasks /\ t \notin TasksOf(m)  BY <1>1, <1>4 DEF TasksOf
        <4> QED BY <1>1, <2>2, <4>1, <4>2 DEF Admitted
      <3>2. \A k \in Nodes : /\ Admitted(k)' = Admitted(k)
                             /\ \A u \in Admitted(k) : weight'[u] = weight[u]
        BY <1>1, <2>1, <2>3, <3>1, AdmittedTasks
      <3>3. UNCHANGED used  BY <2>4
      <3> QED BY <3>2, <3>3, BudgetSame
    <2>5. CASE p = "put"
      <3>1. Admitted(m)' = Admitted(m) \cup {t}
        <4>1. t \in Admitted(m)'
          BY <1>1, <1>2, <1>5, <2>5 DEF Admitted
        <4>2. TasksOf(m) \subseteq Tasks /\ t \notin TasksOf(m)  BY <1>1, <1>4 DEF TasksOf
        <4> QED BY <1>1, <2>2, <4>1, <4>2 DEF Admitted
      <3>2. used' = [used EXCEPT ![m] = @ + weight'[t]] /\ ~OverBudget(m, weight'[t])
        BY <2>5, <1>1
      <3>3. /\ weight' \in [Tasks -> Nat]
            /\ \A u \in Tasks \ {t} : weight'[u] = weight[u]
        BY <1>1
      <3> QED BY <2>1, <2>3, <3>1, <3>2, <3>3, BudgetAdd
    <2> QED BY <2>4, <2>5
  <1>12. CountersExact'
    BY <1>1, <1>10 DEF CountersExact, ActiveExact, BlockedExact
  <1> QED BY <1>1, <1>6, <1>7, <1>8, <1>9, <1>10, <1>11, <1>12 DEF TasksInPlace

-----------------------------------------------------------------------------
(* A worker that waited gets what it waited for.                           *)

LEMMA PassBudget ==
    ASSUME Accounting, NEW n \in Nodes, NEW t \in Tasks, NEW m \in Nodes,
           pc[n] = "budget", sending[n] = t, owner[t] = m,
           ~OverBudget(m, weight[t]),
           used' = [used EXCEPT ![m] = @ + weight[t]],
           pc' = [pc EXCEPT ![n] = "put"],
           UNCHANGED <<taskVars, queue, blockedBy, held, sending>>
    PROVE  /\ used' \in [Nodes -> Nat]
           /\ TasksInPlace' /\ CountersExact' /\ BudgetExact'
  <1> USE DEF Accounting
  <1>1. /\ pc'[n] = "put"
        /\ \A k \in Nodes \ {n} : pc'[k] = pc[k]
        /\ \A k \in Nodes : Admitting(k)' <=> Admitting(k)
    BY DEF TypeOK, Admitting
  <1>2. t \in Live /\ \A k \in Nodes : sending[k] = t => k = n
    BY DEF SentIsApart, TasksInPlace, Live, Admitting, TypeOK
  <1>3. /\ Live' = Live /\ \A k \in Nodes : TasksOf(k)' = TasksOf(k)
        /\ UNCHANGED <<owner, weight, activeTotal, activeBy>>
    BY DEF Live, TasksOf, taskVars
  <1>4. TasksInPlace'
    <2>1. AtOwnNode'  BY <1>3 DEF AtOwnNode, TasksInPlace
    <2>2. HeldWhileBusy'  BY <1>1 DEF HeldWhileBusy, TasksInPlace
    <2>3. SentIsApart'  BY <1>1, <1>3 DEF SentIsApart, TasksInPlace
    <2>4. NoneLost'  BY <1>3 DEF NoneLost, TasksInPlace
    <2> QED BY <2>1, <2>2, <2>3, <2>4 DEF TasksInPlace
  <1>5. CountersExact'
    BY <1>1, <1>3 DEF CountersExact, Blockers
  <1>6. used' \in [Nodes -> Nat] /\ BudgetExact'
    <2>1. \A k \in Nodes : t \notin Admitted(k)
      BY DEF Admitted
    <2>2. \A u \in Tasks \ {t} :
              (\A k \in Nodes : pc'[k] = "budget" => sending[k] # u)
                <=> (\A k \in Nodes : pc[k] = "budget" => sending[k] # u)
      BY <1>1
    <2>3. \A k \in Nodes : TasksOf(k) \subseteq Tasks  BY DEF TasksOf
    <2>4. t \in TasksOf(m) /\ \A k \in Nodes \ {m} : t \notin TasksOf(k)
      BY <1>2 DEF TasksOf
    <2>5. \A k \in Nodes \ {m} : Admitted(k)' = Admitted(k)
      BY <1>3, <2>2, <2>3, <2>4 DEF Admitted
    <2>6. Admitted(m)' = Admitted(m) \cup {t}
      <3>1. t \in Admitted(m)'  BY <1>1, <1>2, <1>3, <2>4 DEF Admitted
      <3> QED BY <1>2, <1>3, <2>2, <2>3, <3>1 DEF Admitted
    <2>7. /\ weight' \in [Tasks -> Nat] /\ weight'[t] = weight[t]
          /\ \A u \in Tasks \ {t} : weight'[u] = weight[u]
      BY <1>3 DEF TypeOK
    <2>8. used' = [used EXCEPT ![m] = @ + weight'[t]] /\ ~OverBudget(m, weight'[t])
      BY <2>7
    <2> QED BY <1>2, <2>1, <2>5, <2>6, <2>7, <2>8, BudgetAdd
  <1> QED BY <1>4, <1>5, <1>6

LEMMA PutSent ==
    ASSUME Accounting, NEW n \in Nodes, NEW t \in Tasks, NEW m \in Nodes,
           NEW p \in {"route", "finally"},
           sending[n] = t, owner[t] = m, Admitting(n),
           \/ /\ pc[n] = "budget" /\ ~OverBudget(m, weight[t])
              /\ used' = [used EXCEPT ![m] = @ + weight[t]]
           \/ pc[n] = "put" /\ UNCHANGED used,
           queue' = [queue EXCEPT ![m] = Append(@, t)],
           blockedBy' = [blockedBy EXCEPT ![m] = @ - 1],
           sending' = [sending EXCEPT ![n] = NoTask],
           pc' = [pc EXCEPT ![n] = p],
           UNCHANGED <<taskVars, held>>
    PROVE  /\ used' \in [Nodes -> Nat]
           /\ queue' \in [Nodes -> Seq(Tasks)]
           /\ queue'[m] # <<>>
           /\ blockedBy' \in [Nodes -> Nat]
           /\ TasksInPlace' /\ CountersExact' /\ BudgetExact'
  <1> USE DEF Accounting
  <1>1. /\ pc'[n] = p /\ sending'[n] = NoTask
        /\ \A k \in Nodes \ {n} : pc'[k] = pc[k] /\ sending'[k] = sending[k]
        /\ ~Admitting(n)'
        /\ \A k \in Nodes \ {n} : Admitting(k)' <=> Admitting(k)
    BY DEF TypeOK, Admitting
  <1>2. /\ t \in Live /\ t # NoTask
        /\ \A k \in Nodes : sending[k] = t => k = n
        /\ \A k \in Nodes : t \notin Elems(queue[k]) \cup Elems(held[k])
    BY BoundAssumption DEF SentIsApart, TasksInPlace
  <1>3. /\ Live' = Live /\ \A k \in Nodes : TasksOf(k)' = TasksOf(k)
        /\ UNCHANGED <<owner, weight, activeTotal, activeBy>>
        /\ t \in TasksOf(m)
    BY DEF Live, TasksOf, taskVars
  <1>4. /\ queue' \in [Nodes -> Seq(Tasks)]
        /\ Elems(queue'[m]) = Elems(queue[m]) \cup {t}
        /\ Distinct(queue[m]) => Distinct(queue'[m])
        /\ \A k \in Nodes \ {m} : queue'[k] = queue[k]
        /\ queue'[m] # <<>>
    <2>1. queue \in [Nodes -> Seq(Tasks)]  BY DEF TypeOK
    <2>2. /\ Append(queue[m], t) \in Seq(Tasks)
          /\ Elems(Append(queue[m], t)) = Elems(queue[m]) \cup {t}
          /\ Distinct(queue[m]) /\ t \notin Elems(queue[m]) => Distinct(Append(queue[m], t))
      BY <2>1, ElemsAppend
    <2>3. Append(queue[m], t) # <<>>
      BY <2>2, EmptyDistinct
    <2> QED BY <1>2, <2>1, <2>2, <2>3
  <1>5. AtOwnNode'
    <2> SUFFICES ASSUME NEW k \in Nodes
                 PROVE  /\ Elems(queue'[k]) \subseteq TasksOf(k)'
                        /\ Elems(held'[k]) \subseteq TasksOf(k)'
                        /\ Elems(queue'[k]) \cap Elems(held'[k]) = {}
                        /\ Distinct(queue'[k]) /\ Distinct(held'[k])
      BY DEF AtOwnNode
    <2>1. /\ Elems(queue[k]) \subseteq TasksOf(k)
          /\ Elems(held[k]) \subseteq TasksOf(k)
          /\ Elems(queue[k]) \cap Elems(held[k]) = {}
          /\ Distinct(queue[k]) /\ Distinct(held[k])
      BY DEF AtOwnNode, TasksInPlace
    <2>2. CASE k = m
      BY <1>2, <1>3, <1>4, <2>1, <2>2
    <2>3. CASE k # m
      BY <1>3, <1>4, <2>1, <2>3
    <2> QED BY <2>2, <2>3
  <1>6. HeldWhileBusy'
    BY <1>1, <1>4 DEF HeldWhileBusy, TasksInPlace
  <1>7. SentIsApart'
    <2> SUFFICES ASSUME NEW k \in Nodes
                 PROVE  /\ sending'[k] # NoTask <=> Admitting(k)'
                        /\ Admitting(k)' =>
                            /\ sending'[k] \in Live'
                            /\ \A l \in Nodes :
                                /\ sending'[k] \notin Elems(queue'[l]) \cup Elems(held'[l])
                                /\ sending'[l] = sending'[k] => l = k
      BY DEF SentIsApart
    <2>1. CASE k = n
      BY <2>1, <1>1
    <2>2. CASE k # n
      <3>1. /\ sending[k] # NoTask <=> Admitting(k)
            /\ Admitting(k) =>
                /\ sending[k] \in Live
                /\ \A l \in Nodes :
                    /\ sending[k] \notin Elems(queue[l]) \cup Elems(held[l])
                    /\ sending[l] = sending[k] => l = k
        BY DEF SentIsApart, TasksInPlace
      <3>2. sending[k] # t  BY <1>2, <2>2
      <3> QED BY <2>2, <3>1, <3>2, <1>1, <1>3, <1>4
    <2> QED BY <2>1, <2>2
  <1>8. NoneLost'
    <2> SUFFICES ASSUME NEW u \in Live
                 PROVE  \/ u \in Elems(queue'[owner[u]]) \cup Elems(held[owner[u]])
                        \/ \E k \in Nodes : sending'[k] = u
      BY <1>3 DEF NoneLost
    <2>1. CASE u = t
      BY <2>1, <1>4
    <2>2. CASE u # t
      <3>1. \/ u \in Elems(queue[owner[u]]) \cup Elems(held[owner[u]])
            \/ \E k \in Nodes : sending[k] = u
        BY DEF NoneLost, TasksInPlace
      <3>2. owner[u] \in Nodes  BY DEF Live, TypeOK
      <3> QED BY <2>2, <3>1, <3>2, <1>1, <1>4
    <2> QED BY <2>1, <2>2
  <1>9. blockedBy' \in [Nodes -> Nat] /\ BlockedExact'
    <2>1. n \in Blockers(m) /\ Blockers(m)' = Blockers(m) \ {n}
      BY <1>1, <1>3 DEF Blockers
    <2>2. \A k \in Nodes \ {m} : Blockers(k)' = Blockers(k)
      BY <1>1, <1>3 DEF Blockers
    <2> QED BY <2>1, <2>2, BlockedDown, CountersParts
  <1>10. used' \in [Nodes -> Nat] /\ BudgetExact'
    <2>1. \A u \in Tasks \ {t} :
              (\A k \in Nodes : pc'[k] = "budget" => sending'[k] # u)
                <=> (\A k \in Nodes : pc[k] = "budget" => sending[k] # u)
      BY <1>1
    <2>2. \A k \in Nodes : TasksOf(k) \subseteq Tasks  BY DEF TasksOf
    <2>3. \A k \in Nodes \ {m} : t \notin TasksOf(k)  BY DEF TasksOf
    <2>4. \A k \in Nodes \ {m} : Admitted(k)' = Admitted(k)
      BY <1>3, <2>1, <2>2, <2>3 DEF Admitted
    <2>5. Admitted(m)' = Admitted(m) \cup {t}
      <3>1. t \in Admitted(m)'  BY <1>1, <1>2, <1>3 DEF Admitted
      <3> QED BY <1>3, <2>1, <2>2, <3>1 DEF Admitted
    <2>6. CASE pc[n] = "budget"
      <3>1. \A k \in Nodes : t \notin Admitted(k)
        BY <2>6 DEF Admitted
      <3>2. /\ weight' \in [Tasks -> Nat] /\ weight'[t] = weight[t]
            /\ \A u \in Tasks \ {t} : weight'[u] = weight[u]
        BY <1>3 DEF TypeOK
      <3>3. used' = [used EXCEPT ![m] = @ + weight'[t]] /\ ~OverBudget(m, weight'[t])
        BY <2>6, <3>2
      <3> QED BY <2>4, <2>5, <3>1, <3>2, <3>3, BudgetAdd
    <2>7. CASE pc[n] = "put"
      <3>1. t \in Admitted(m)
        BY <1>2, <1>3, <2>7 DEF Admitted
      <3>2. \A k \in Nodes : Admitted(k)' = Admitted(k)
        BY <2>4, <2>5, <3>1
      <3>3. UNCHANGED <<used, weight>>  BY <1>3, <2>7
      <3> QED BY <3>2, <3>3, BudgetSame
    <2> QED BY <2>6, <2>7 DEF Admitting
  <1>11. CountersExact'
    BY <1>3, <1>9, CountersParts DEF CountersExact, ActiveExact, BlockedExact
  <1> QED BY <1>4, <1>5, <1>6, <1>7, <1>8, <1>9, <1>10, <1>11 DEF TasksInPlace

-----------------------------------------------------------------------------
(* A worker takes a batch, completes a task, or gives up an admission.     *)

LEMMA BatchTaken ==
    ASSUME Accounting, NEW n \in Nodes, pc[n] = "fill", TakeBatch(n)
    PROVE  /\ queue' \in [Nodes -> Seq(Tasks)] /\ held' \in [Nodes -> Seq(Tasks)]
           /\ TasksInPlace' /\ CountersExact' /\ BudgetExact'
  <1> USE DEF Accounting
  <1> DEFINE k == IF Len(queue[n]) < Target[n] THEN Len(queue[n]) ELSE Target[n]
             a == SubSeq(queue[n], 1, k)
             b == SubSeq(queue[n], k + 1, Len(queue[n]))
  <1>1. queue \in [Nodes -> Seq(Tasks)] /\ held \in [Nodes -> Seq(Tasks)]
        /\ pc \in [Nodes -> WorkerStates]
    BY DEF TypeOK
  <1>2. k \in 0..Len(queue[n]) /\ k # 0
    <2>1. Len(queue[n]) \in Nat \ {0}
      BY <1>1, EmptySeq DEF HeldWhileBusy, TasksInPlace
    <2>2. Target[n] \in Nat \ {0}  BY BoundAssumption
    <2> QED BY <2>1, <2>2
  <1>3. /\ held' = [held EXCEPT ![n] = a] /\ queue' = [queue EXCEPT ![n] = b]
        /\ pc' = [pc EXCEPT ![n] = "lease"]
        /\ UNCHANGED <<owner, weight, activeTotal, activeBy, used, blockedBy, sending>>
    BY DEF TakeBatch, taskVars
  <1> HIDE DEF k
  <1>4. /\ a \in Seq(Tasks) /\ b \in Seq(Tasks) /\ Len(a) = k
        /\ Elems(a) \cup Elems(b) = Elems(queue[n])
        /\ Distinct(queue[n]) => /\ Distinct(a) /\ Distinct(b)
                                 /\ Elems(a) \cap Elems(b) = {}
    BY <1>1, <1>2, ElemsSplit
  <1>5. a # <<>>  BY <1>2, <1>4, EmptySeq
  <1> HIDE DEF a, b
  <1>6. /\ queue' \in [Nodes -> Seq(Tasks)] /\ held' \in [Nodes -> Seq(Tasks)]
        /\ held'[n] = a /\ queue'[n] = b /\ pc'[n] = "lease"
        /\ \A l \in Nodes \ {n} : held'[l] = held[l] /\ queue'[l] = queue[l] /\ pc'[l] = pc[l]
    BY <1>1, <1>3, <1>4
  <1>7. Live' = Live /\ \A l \in Nodes : TasksOf(l)' = TasksOf(l)
    BY <1>3 DEF Live, TasksOf
  <1>8. held[n] = <<>> /\ Elems(held[n]) = {}
    BY EmptyDistinct DEF HeldWhileBusy, TasksInPlace
  <1>9. \A l \in Nodes : Elems(queue'[l]) \cup Elems(held'[l]) = Elems(queue[l]) \cup Elems(held[l])
    BY <1>4, <1>6, <1>8
  <1>10. \A l \in Nodes : Admitting(l)' <=> Admitting(l)
    BY <1>6 DEF Admitting
  <1>11. AtOwnNode'
    BY ZenonT(30), <1>4, <1>6, <1>7 DEF AtOwnNode, TasksInPlace
  <1>12. HeldWhileBusy'
    BY <1>5, <1>6 DEF HeldWhileBusy, TasksInPlace
  <1>13. SentIsApart'
    BY <1>3, <1>7, <1>9, <1>10 DEF SentIsApart, TasksInPlace
  <1>14. NoneLost'
    <2>1. \A t \in Live : owner[t] \in Nodes  BY DEF Live, TypeOK
    <2> QED BY <1>3, <1>7, <1>9, <2>1 DEF NoneLost, TasksInPlace
  <1>15. CountersExact'
    BY <1>3, <1>7, <1>10 DEF CountersExact, Blockers
  <1>16. BudgetExact'
    <2>1. \A l \in Nodes : Admitted(l)' = Admitted(l)
      BY <1>3, <1>6, <1>7 DEF Admitted
    <2> QED BY <1>3, <2>1 DEF BudgetExact
  <1> QED BY <1>6, <1>11, <1>12, <1>13, <1>14, <1>15, <1>16 DEF TasksInPlace

LEMMA TaskCompleted ==
    ASSUME Accounting, NEW n \in Nodes, Complete(n)
    PROVE  Accounting'
  <1> USE DEF Accounting
  <1>1. /\ pc[n] \in {"finally", "raising"} /\ held[n] # <<>>
        /\ UNCHANGED <<mainPc, toSeed, outcome, token, pc, queue, blockedBy,
                       sending, pending, remaining, errors>>
        /\ held' = [held EXCEPT ![n] = Tail(@)]
        /\ asleep' = {}
    BY DEF Complete, mainVars, Notify
  <1>2. held \in [Nodes -> Seq(Tasks)]  BY DEF TypeOK
  <1>3. PICK t \in Tasks : t = Head(held[n])
    BY <1>1, <1>2, HeadTailProperties
  <1>4. Forget(t, n) /\ used' = [used EXCEPT ![n] = @ - weight[t]]
    BY <1>3 DEF Complete
  <1>5. /\ Tail(held[n]) \in Seq(Tasks) /\ t \in Elems(held[n])
        /\ Elems(held[n]) = {t} \cup Elems(Tail(held[n]))
        /\ Distinct(held[n]) => Distinct(Tail(held[n])) /\ t \notin Elems(Tail(held[n]))
    BY <1>1, <1>2, <1>3, ElemsTail
  <1>6. /\ held' \in [Nodes -> Seq(Tasks)]
        /\ Elems(held[n]) = {t} \cup Elems(held'[n])
        /\ Distinct(held'[n]) /\ t \notin Elems(held'[n])
        /\ \A k \in Nodes \ {n} : held'[k] = held[k]
    BY <1>1, <1>2, <1>5 DEF AtOwnNode, TasksInPlace
  <1>7. owner[t] = n /\ t \in TasksOf(n)
    BY <1>5 DEF AtOwnNode, TasksInPlace, TasksOf
  <1>8. /\ owner' \in [Tasks -> Nodes \cup {NoNode}]
        /\ weight' \in [Tasks -> Nat]
        /\ activeTotal' \in Nat
        /\ activeBy' \in [Nodes -> Nat]
        /\ t \in Live /\ Live' = Live \ {t}
        /\ TasksOf(n)' = TasksOf(n) \ {t}
        /\ \A k \in Nodes \ {n} : TasksOf(k)' = TasksOf(k)
        /\ \A u \in Tasks \ {t} : owner'[u] = owner[u] /\ weight'[u] = weight[u]
        /\ ActiveExact'
    BY <1>4, <1>7, CountersParts, ForgetCounts
  <1>9. /\ \A k \in Nodes : sending[k] # t
        /\ \A k \in Nodes : t \notin Elems(queue[k]) /\ t \notin Elems(held'[k])
        /\ \A k \in Nodes \ {n} : t \notin TasksOf(k)
    <2>1. \A k \in Nodes : sending[k] # t
      BY <1>5, BoundAssumption DEF SentIsApart, TasksInPlace
    <2>2. \A k \in Nodes \ {n} : t \notin TasksOf(k)
      BY <1>7 DEF TasksOf
    <2> QED BY <2>1, <2>2, <1>5, <1>6 DEF AtOwnNode, TasksInPlace
  <1>10. AtOwnNode'
    <2> SUFFICES ASSUME NEW k \in Nodes
                 PROVE  /\ Elems(queue'[k]) \subseteq TasksOf(k)'
                        /\ Elems(held'[k]) \subseteq TasksOf(k)'
                        /\ Elems(queue'[k]) \cap Elems(held'[k]) = {}
                        /\ Distinct(queue'[k]) /\ Distinct(held'[k])
      BY DEF AtOwnNode
    <2>1. /\ Elems(queue[k]) \subseteq TasksOf(k)
          /\ Elems(held[k]) \subseteq TasksOf(k)
          /\ Elems(queue[k]) \cap Elems(held[k]) = {}
          /\ Distinct(queue[k]) /\ Distinct(held[k])
      BY DEF AtOwnNode, TasksInPlace
    <2>2. CASE k = n
      BY <1>1, <1>6, <1>8, <1>9, <2>1, <2>2
    <2>3. CASE k # n
      BY <1>1, <1>6, <1>8, <2>1, <2>3
    <2> QED BY <2>2, <2>3
  <1>11. HeldWhileBusy'
    BY <1>1, <1>6 DEF HeldWhileBusy, TasksInPlace
  <1>12. SentIsApart'
    <2>1. \A k \in Nodes : Admitting(k)' <=> Admitting(k)
      BY <1>1 DEF Admitting
    <2>2. \A k \in Nodes : Elems(held'[k]) \subseteq Elems(held[k])
      BY <1>6
    <2> QED BY <1>1, <1>8, <1>9, <2>1, <2>2 DEF SentIsApart, TasksInPlace
  <1>13. NoneLost'
    <2> SUFFICES ASSUME NEW u \in Live'
                 PROVE  \/ u \in Elems(queue'[owner'[u]]) \cup Elems(held'[owner'[u]])
                        \/ \E k \in Nodes : sending'[k] = u
      BY DEF NoneLost
    <2>1. u \in Live /\ u \in Tasks \ {t} /\ owner'[u] = owner[u] /\ owner[u] \in Nodes
      BY <1>8 DEF Live, TypeOK
    <2>2. \/ u \in Elems(queue[owner[u]]) \cup Elems(held[owner[u]])
          \/ \E k \in Nodes : sending[k] = u
      BY <2>1 DEF NoneLost, TasksInPlace
    <2> QED BY <1>1, <1>6, <2>1, <2>2
  <1>14. BlockedExact'
    <2>1. \A k \in Nodes : Blockers(k)' = Blockers(k)
      <3>1. \A p \in Nodes : Admitting(p) => sending[p] \in Tasks \ {t}
        BY <1>9 DEF SentIsApart, TasksInPlace, Live
      <3> QED BY <1>1, <1>8, <3>1 DEF Blockers, Admitting
    <2> QED BY <1>1, <2>1, BlockedSame, CountersParts
  <1>15. used' \in [Nodes -> Nat] /\ BudgetExact'
    <2>1. t \in Admitted(n)  BY <1>7, <1>9 DEF Admitted
    <2>2. Admitted(n)' = Admitted(n) \ {t}
      BY <1>1, <1>8 DEF Admitted
    <2>3. \A k \in Nodes \ {n} : Admitted(k)' = Admitted(k) /\ t \notin Admitted(k)
      BY <1>1, <1>8, <1>9 DEF Admitted
    <2> QED BY <1>4, <1>8, <2>1, <2>2, <2>3, BudgetRemove
  <1>16. CountersExact'
    BY <1>8, <1>14 DEF CountersExact, ActiveExact, BlockedExact
  <1>17. TypeOK'
    BY <1>1, <1>6, <1>8, <1>15 DEF TypeOK
  <1> QED BY <1>10, <1>11, <1>12, <1>13, <1>15, <1>16, <1>17 DEF TasksInPlace

LEMMA AdmissionGivenUp ==
    ASSUME Accounting, NEW n \in Nodes, CancelAdmission(n)
    PROVE  Accounting'
  <1> USE DEF Accounting
  <1>1. /\ Admitting(n) /\ pc' = [pc EXCEPT ![n] = "raising"]
        /\ sending' = [sending EXCEPT ![n] = NoTask]
        /\ UNCHANGED <<mainPc, toSeed, outcome, token, queue, held, remaining>>
        /\ pending' = [pending EXCEPT ![n] = 0]
        /\ errors' \subseteq errors \cup {n}
        /\ asleep' = {}
    BY DEF CancelAdmission, mainVars, Notify, Admitting
  <1>2. PICK t \in Tasks, m \in Nodes : t = sending[n] /\ m = owner[t]
    BY <1>1 DEF SentIsApart, TasksInPlace, Live, TypeOK
  <1>3. /\ Forget(t, m) /\ used' = [used EXCEPT ![m] = @ - Granted(n)]
        /\ blockedBy' = [blockedBy EXCEPT ![m] = @ - 1]
    BY <1>2 DEF CancelAdmission
  <1>4. /\ owner' \in [Tasks -> Nodes \cup {NoNode}]
        /\ weight' \in [Tasks -> Nat]
        /\ activeTotal' \in Nat
        /\ activeBy' \in [Nodes -> Nat]
        /\ t \in Live /\ Live' = Live \ {t}
        /\ TasksOf(m)' = TasksOf(m) \ {t}
        /\ \A k \in Nodes \ {m} : TasksOf(k)' = TasksOf(k)
        /\ \A u \in Tasks \ {t} : owner'[u] = owner[u] /\ weight'[u] = weight[u]
        /\ ActiveExact'
    BY <1>2, <1>3, CountersParts, ForgetCounts
  <1>5. /\ pc'[n] = "raising" /\ sending'[n] = NoTask
        /\ \A k \in Nodes \ {n} : pc'[k] = pc[k] /\ sending'[k] = sending[k]
        /\ ~Admitting(n)'
        /\ \A k \in Nodes \ {n} : Admitting(k)' <=> Admitting(k)
    BY <1>1 DEF TypeOK, Admitting
  <1>6. /\ t # NoTask
        /\ \A k \in Nodes : sending[k] = t => k = n
        /\ \A k \in Nodes : t \notin Elems(queue[k]) \cup Elems(held[k])
        /\ \A k \in Nodes : t \in TasksOf(k) <=> k = m
    BY <1>1, <1>2, BoundAssumption DEF SentIsApart, TasksInPlace, TasksOf
  <1>7. AtOwnNode'
    BY SMTT(30), <1>1, <1>4, <1>6 DEF AtOwnNode, TasksInPlace
  <1>8. HeldWhileBusy'
    BY <1>1, <1>5 DEF HeldWhileBusy, TasksInPlace
  <1>9. SentIsApart'
    <2> SUFFICES ASSUME NEW k \in Nodes
                 PROVE  /\ sending'[k] # NoTask <=> Admitting(k)'
                        /\ Admitting(k)' =>
                            /\ sending'[k] \in Live'
                            /\ \A l \in Nodes :
                                /\ sending'[k] \notin Elems(queue'[l]) \cup Elems(held'[l])
                                /\ sending'[l] = sending'[k] => l = k
      BY DEF SentIsApart
    <2>1. CASE k = n
      BY <2>1, <1>5
    <2>2. CASE k # n
      <3>1. /\ sending[k] # NoTask <=> Admitting(k)
            /\ Admitting(k) =>
                /\ sending[k] \in Live
                /\ \A l \in Nodes :
                    /\ sending[k] \notin Elems(queue[l]) \cup Elems(held[l])
                    /\ sending[l] = sending[k] => l = k
        BY DEF SentIsApart, TasksInPlace
      <3>2. sending[k] # t  BY <1>6, <2>2
      <3> QED BY <2>2, <3>1, <3>2, <1>1, <1>4, <1>5
    <2> QED BY <2>1, <2>2
  <1>10. NoneLost'
    <2> SUFFICES ASSUME NEW u \in Live'
                 PROVE  \/ u \in Elems(queue[owner'[u]]) \cup Elems(held[owner'[u]])
                        \/ \E k \in Nodes : sending'[k] = u
      BY <1>1 DEF NoneLost
    <2>1. u \in Live /\ u \in Tasks \ {t} /\ owner'[u] = owner[u]
      BY <1>4 DEF Live
    <2>2. \/ u \in Elems(queue[owner[u]]) \cup Elems(held[owner[u]])
          \/ \E k \in Nodes : sending[k] = u
      BY <2>1 DEF NoneLost, TasksInPlace
    <2> QED BY <1>2, <1>5, <2>1, <2>2
  <1>11. blockedBy' \in [Nodes -> Nat] /\ BlockedExact'
    <2>1. \A k \in Nodes \ {n} : Admitting(k) => sending[k] \in Tasks \ {t}
      BY <1>6 DEF SentIsApart, TasksInPlace, Live
    <2>2. n \in Blockers(m) /\ Blockers(m)' = Blockers(m) \ {n}
      BY <1>1, <1>2, <1>4, <1>5, <2>1 DEF Blockers
    <2>3. \A k \in Nodes \ {m} : Blockers(k)' = Blockers(k)
      BY <1>1, <1>2, <1>4, <1>5, <2>1 DEF Blockers
    <2> QED BY <1>3, <2>2, <2>3, BlockedDown, CountersParts
  <1>12. used' \in [Nodes -> Nat] /\ BudgetExact'
    <2>1. \A u \in Tasks \ {t} :
              (\A k \in Nodes : pc'[k] = "budget" => sending'[k] # u)
                <=> (\A k \in Nodes : pc[k] = "budget" => sending[k] # u)
      BY <1>2, <1>5
    <2>2. \A k \in Nodes : TasksOf(k) \subseteq Tasks  BY DEF TasksOf
    <2>3. \A k \in Nodes \ {m} : Admitted(k)' = Admitted(k) /\ t \notin Admitted(k)
      BY <1>4, <1>6, <2>1, <2>2 DEF Admitted
    <2>4. Admitted(m)' = Admitted(m) \ {t}
      BY <1>4, <2>1, <2>2 DEF Admitted
    <2>5. CASE pc[n] = "budget"
      <3>1. t \notin Admitted(m)  BY <1>2, <2>5 DEF Admitted
      <3>2. \A k \in Nodes : /\ Admitted(k)' = Admitted(k)
                             /\ \A u \in Admitted(k) : weight'[u] = weight[u]
        BY <1>4, <2>3, <2>4, <3>1, AdmittedTasks
      <3>3. UNCHANGED used
        BY <1>3, <2>5 DEF Granted, TypeOK
      <3> QED BY <3>2, <3>3, BudgetSame
    <2>6. CASE pc[n] = "put"
      <3>1. t \in Admitted(m)  BY <1>6, <2>6 DEF Admitted
      <3>2. used' = [used EXCEPT ![m] = @ - weight[t]]
        BY <1>2, <1>3, <2>6 DEF Granted
      <3> QED BY <1>4, <2>3, <2>4, <3>1, <3>2, BudgetRemove
    <2> QED BY <1>1, <2>5, <2>6 DEF Admitting
  <1>13. CountersExact'
    BY <1>4, <1>11 DEF CountersExact, ActiveExact, BlockedExact
  <1>14. TypeOK'
    BY <1>1, <1>4, <1>11, <1>12 DEF TypeOK, WorkerStates
  <1> QED BY <1>7, <1>8, <1>9, <1>10, <1>12, <1>13, <1>14 DEF TasksInPlace

-----------------------------------------------------------------------------
(* The actions that create, take and admit tasks.                          *)

LEMMA SeedStep ==
    ASSUME Accounting, NEW i \in InputNodes, SeedInput(i)
    PROVE  Accounting'
  <1> USE DEF Accounting
  <1>1. CASE UNCHANGED placeVars
    BY <1>1, QuietMainStep DEF QuietMain
  <1>2. CASE ~UNCHANGED placeVars
    <2>1. /\ Live # Tasks /\ Register(NewTask, i, 0)
          /\ queue' = [queue EXCEPT ![i] = Append(@, NewTask)]
          /\ UNCHANGED <<mainPc, outcome, token, pc, used, blockedBy, held,
                         sending, pending, remaining, errors>>
          /\ toSeed' \subseteq toSeed /\ asleep' \subseteq asleep
      BY <1>2 DEF SeedInput, placeVars, taskVars, Notify, Register
    <2>2. PICK t \in Tasks : t = NewTask /\ owner[t] = NoNode
      BY <2>1, FreshTask
    <2>3. i \in Nodes /\ used \in [Nodes -> Nat]
      BY GraphAssumption DEF TypeOK
    <2>4. used' = [used EXCEPT ![i] = @ + 0]
      BY <2>1, <2>3
    <2>5. SameAdmissions
      BY <2>1 DEF SameAdmissions
    <2>6. HeldWhileBusy'
      <3>1. \A n \in Nodes : queue[n] # <<>> => queue'[n] # <<>>
        <4>1. queue \in [Nodes -> Seq(Tasks)]  BY DEF TypeOK
        <4>2. Append(queue[i], t) # <<>>
          <5>1. Elems(Append(queue[i], t)) = Elems(queue[i]) \cup {t}
            BY <2>3, <4>1, ElemsAppend
          <5> QED BY <5>1, EmptyDistinct
        <4> QED BY <2>1, <2>2, <4>1, <4>2
      <3> QED BY <2>1, <3>1 DEF HeldWhileBusy, TasksInPlace
    <2>7. /\ owner' \in [Tasks -> Nodes \cup {NoNode}]
          /\ weight' \in [Tasks -> Nat]
          /\ activeTotal' \in Nat
          /\ activeBy' \in [Nodes -> Nat]
          /\ used' \in [Nodes -> Nat]
          /\ queue' \in [Nodes -> Seq(Tasks)]
          /\ TasksInPlace' /\ CountersExact' /\ BudgetExact'
      BY <2>1, <2>2, <2>3, <2>4, <2>5, <2>6, ArriveInQueue
    <2>8. TypeOK'
      BY <2>1, <2>7 DEF TypeOK
    <2> QED BY <2>7, <2>8
  <1> QED BY <1>1, <1>2

LEMMA EnqueueStep ==
    ASSUME Accounting, NEW n \in Nodes, NEW m \in Nodes, NEW w \in Nat,
           pc[n] = "route", Enqueue(n, m, w),
           UNCHANGED <<mainPc, toSeed, outcome, token, held, remaining, errors>>,
           pending' \in [Nodes -> Nat]
    PROVE  /\ Accounting'
           /\ m = n => pc'[n] \in {"budget", "put"} \/ queue'[n] # <<>>
  <1> USE DEF Accounting
  <1>1. Live # Tasks /\ asleep' = {} /\ pc \in [Nodes -> WorkerStates]
    BY DEF Enqueue, Register, Notify, TypeOK
  <1>2. PICK t \in Tasks : t = NewTask /\ owner[t] = NoNode
    BY <1>1, FreshTask
  <1>3. Register(t, m, w)
    BY <1>2 DEF Enqueue
  <1>4. CASE OverBudget(m, w)
    <2>1. /\ blockedBy' = [blockedBy EXCEPT ![m] = @ + 1]
          /\ sending' = [sending EXCEPT ![n] = t]
          /\ pc' = [pc EXCEPT ![n] = "budget"]
          /\ UNCHANGED <<queue, used, held>>
      BY <1>2, <1>4 DEF Enqueue
    <2>2. /\ owner' \in [Tasks -> Nodes \cup {NoNode}]
          /\ weight' \in [Tasks -> Nat]
          /\ activeTotal' \in Nat
          /\ activeBy' \in [Nodes -> Nat]
          /\ used' \in [Nodes -> Nat]
          /\ blockedBy' \in [Nodes -> Nat]
          /\ TasksInPlace' /\ CountersExact' /\ BudgetExact'
      BY <2>1, <1>2, <1>3, ArriveBlocked
    <2>3. TypeOK'
      BY <2>1, <2>2, <1>1 DEF TypeOK, WorkerStates
    <2> QED BY <2>1, <2>2, <2>3, <1>1
  <1>5. CASE ~OverBudget(m, w) /\ Full(m)
    <2>1. /\ blockedBy' = [blockedBy EXCEPT ![m] = @ + 1]
          /\ sending' = [sending EXCEPT ![n] = t]
          /\ pc' = [pc EXCEPT ![n] = "put"]
          /\ used' = [used EXCEPT ![m] = @ + w]
          /\ UNCHANGED <<queue, held>>
      BY <1>2, <1>5 DEF Enqueue
    <2>2. /\ owner' \in [Tasks -> Nodes \cup {NoNode}]
          /\ weight' \in [Tasks -> Nat]
          /\ activeTotal' \in Nat
          /\ activeBy' \in [Nodes -> Nat]
          /\ used' \in [Nodes -> Nat]
          /\ blockedBy' \in [Nodes -> Nat]
          /\ TasksInPlace' /\ CountersExact' /\ BudgetExact'
      BY <2>1, <1>2, <1>3, <1>5, ArriveBlocked
    <2>3. TypeOK'
      BY <2>1, <2>2, <1>1 DEF TypeOK, WorkerStates
    <2> QED BY <2>1, <2>2, <2>3, <1>1
  <1>6. CASE ~OverBudget(m, w) /\ ~Full(m)
    <2>1. /\ queue' = [queue EXCEPT ![m] = Append(@, t)]
          /\ used' = [used EXCEPT ![m] = @ + w]
          /\ pc' = [pc EXCEPT ![n] = AfterAdmission(n, m)]
          /\ UNCHANGED <<blockedBy, held, sending>>
      BY <1>2, <1>6 DEF Enqueue
    <2>2. AfterAdmission(n, m) \in {"finally", "route"}
      BY DEF AfterAdmission
    <2>3. SameAdmissions
      BY <2>1, <2>2, <1>1 DEF SameAdmissions
    <2>4. HeldWhileBusy'
      <3>1. \A k \in Nodes : queue[k] # <<>> => queue'[k] # <<>>
        <4>1. queue \in [Nodes -> Seq(Tasks)]  BY DEF TypeOK
        <4>2. Append(queue[m], t) # <<>>
          <5>1. Elems(Append(queue[m], t)) = Elems(queue[m]) \cup {t}
            BY <4>1, ElemsAppend
          <5> QED BY <5>1, EmptyDistinct
        <4> QED BY <2>1, <4>1, <4>2
      <3> QED BY <2>1, <2>2, <3>1, <1>1 DEF HeldWhileBusy, TasksInPlace
    <2>5. /\ owner' \in [Tasks -> Nodes \cup {NoNode}]
          /\ weight' \in [Tasks -> Nat]
          /\ activeTotal' \in Nat
          /\ activeBy' \in [Nodes -> Nat]
          /\ used' \in [Nodes -> Nat]
          /\ queue' \in [Nodes -> Seq(Tasks)]
          /\ queue'[m] # <<>>
          /\ TasksInPlace' /\ CountersExact' /\ BudgetExact'
      BY <2>1, <2>3, <2>4, <1>2, <1>3, <1>6, ArriveInQueue
    <2>6. TypeOK'
      BY <2>1, <2>2, <2>5, <1>1 DEF TypeOK, WorkerStates
    <2> QED BY <2>5, <2>6
  <1> QED BY <1>4, <1>5, <1>6

LEMMA DeliverStep ==
    ASSUME Accounting, NEW n \in Nodes, Deliver(n)
    PROVE  Accounting'
  <1> USE DEF Accounting
  <1>1. PICK m \in Succ(n), w \in Weights : Enqueue(n, m, w)
    BY DEF Deliver
  <1>2. m \in Nodes /\ w \in Nat
    BY BoundAssumption DEF Succ
  <1>3. pending' \in [Nodes -> Nat]
    BY DEF Deliver, TypeOK
  <1> QED BY <1>1, <1>2, <1>3, EnqueueStep DEF Deliver, mainVars

LEMMA EndBatchStep ==
    ASSUME Accounting, NEW n \in Nodes, EndBatch(n), MoreItems(n)
    PROVE  /\ Accounting'
           /\ pc'[n] \in {"budget", "put"} \/ queue'[n] # <<>>
  <1> USE DEF Accounting
  <1>1. Enqueue(n, n, 0) /\ pc[n] = "route"
        /\ UNCHANGED <<mainPc, toSeed, outcome, token, held, remaining, errors>>
    BY DEF EndBatch, mainVars
  <1>2. pending' \in [Nodes -> Nat]
    BY DEF EndBatch, TypeOK
  <1> QED BY <1>1, <1>2, EnqueueStep

LEMMA GrantBudgetStep ==
    ASSUME Accounting, NEW n \in Nodes, GrantBudget(n)
    PROVE  /\ Accounting'
           /\ \A k \in Nodes : queue[k] # <<>> => queue'[k] # <<>>
           /\ pc'[n] = "finally" => queue'[n] # <<>>
  <1> USE DEF Accounting
  <1>1. Admitting(n) /\ pc[n] = "budget"
    BY DEF GrantBudget, Admitting
  <1>2. PICK t \in Tasks, m \in Nodes : t = sending[n] /\ m = owner[t]
    BY <1>1 DEF SentIsApart, TasksInPlace, Live, TypeOK
  <1>3. /\ ~OverBudget(m, weight[t])
        /\ used' = [used EXCEPT ![m] = @ + weight[t]]
        /\ asleep' = {}
        /\ UNCHANGED <<mainPc, toSeed, outcome, token, held, pending, remaining,
                       errors, taskVars>>
    BY <1>2 DEF GrantBudget, mainVars, Notify
  <1>4. CASE Full(m)
    <2>1. /\ pc' = [pc EXCEPT ![n] = "put"]
          /\ UNCHANGED <<queue, blockedBy, sending>>
      BY <1>2, <1>4 DEF GrantBudget
    <2>2. used' \in [Nodes -> Nat] /\ TasksInPlace' /\ CountersExact' /\ BudgetExact'
      BY <1>1, <1>2, <1>3, <2>1, PassBudget
    <2>3. TypeOK'
      BY <1>3, <2>1, <2>2 DEF TypeOK, taskVars, WorkerStates
    <2>4. pc'[n] = "put"  BY <2>1 DEF TypeOK
    <2> QED BY <2>1, <2>2, <2>3, <2>4
  <1>5. CASE ~Full(m)
    <2>1. PICK p \in {"route", "finally"} : p = AfterAdmission(n, m)
      BY DEF AfterAdmission
    <2>2. /\ queue' = [queue EXCEPT ![m] = Append(@, t)]
          /\ blockedBy' = [blockedBy EXCEPT ![m] = @ - 1]
          /\ sending' = [sending EXCEPT ![n] = NoTask]
          /\ pc' = [pc EXCEPT ![n] = p]
      BY <1>2, <1>5, <2>1 DEF GrantBudget
    <2>3. /\ used' \in [Nodes -> Nat]
          /\ queue' \in [Nodes -> Seq(Tasks)]
          /\ queue'[m] # <<>>
          /\ blockedBy' \in [Nodes -> Nat]
          /\ TasksInPlace' /\ CountersExact' /\ BudgetExact'
      BY <1>1, <1>2, <1>3, <2>2, PutSent
    <2>4. TypeOK'
      BY <1>3, <2>2, <2>3 DEF TypeOK, taskVars, WorkerStates
    <2>5. pc'[n] = "finally" => m = n
      BY <2>1, <2>2 DEF AfterAdmission, TypeOK
    <2>6. \A k \in Nodes : queue[k] # <<>> => queue'[k] # <<>>
      BY <2>2, <2>3 DEF TypeOK
    <2> QED BY <2>3, <2>4, <2>5, <2>6
  <1> QED BY <1>4, <1>5

LEMMA GrantPutStep ==
    ASSUME Accounting, NEW n \in Nodes, GrantPut(n)
    PROVE  /\ Accounting'
           /\ \A k \in Nodes : queue[k] # <<>> => queue'[k] # <<>>
           /\ pc'[n] = "finally" => queue'[n] # <<>>
  <1> USE DEF Accounting
  <1>1. Admitting(n) /\ pc[n] = "put"
    BY DEF GrantPut, Admitting
  <1>2. PICK t \in Tasks, m \in Nodes : t = sending[n] /\ m = owner[t]
    BY <1>1 DEF SentIsApart, TasksInPlace, Live, TypeOK
  <1>3. PICK p \in {"route", "finally"} : p = AfterAdmission(n, m)
    BY DEF AfterAdmission
  <1>4. /\ queue' = [queue EXCEPT ![m] = Append(@, t)]
        /\ blockedBy' = [blockedBy EXCEPT ![m] = @ - 1]
        /\ sending' = [sending EXCEPT ![n] = NoTask]
        /\ pc' = [pc EXCEPT ![n] = p]
        /\ asleep' = {}
        /\ UNCHANGED <<mainPc, toSeed, outcome, token, used, held, pending,
                       remaining, errors, taskVars>>
    BY <1>2, <1>3 DEF GrantPut, mainVars, Notify
  <1>5. /\ used' \in [Nodes -> Nat]
        /\ queue' \in [Nodes -> Seq(Tasks)]
        /\ queue'[m] # <<>>
        /\ blockedBy' \in [Nodes -> Nat]
        /\ TasksInPlace' /\ CountersExact' /\ BudgetExact'
    BY <1>1, <1>2, <1>4, PutSent
  <1>6. TypeOK'
    BY <1>4, <1>5 DEF TypeOK, taskVars, WorkerStates
  <1>7. pc'[n] = "finally" => m = n
    BY <1>3, <1>4 DEF AfterAdmission, TypeOK
  <1>8. \A k \in Nodes : queue[k] # <<>> => queue'[k] # <<>>
    BY <1>4, <1>5 DEF TypeOK
  <1> QED BY <1>5, <1>6, <1>7, <1>8

LEMMA CollectStep ==
    ASSUME Accounting, NEW n \in Nodes, CollectBatch(n) \/ CollectTimeout(n)
    PROVE  Accounting'
  <1> USE DEF Accounting
  <1>1. pc[n] = "fill" /\ TakeBatch(n) /\ asleep' \subseteq asleep
    BY DEF CollectBatch, CollectTimeout
  <1>2. /\ queue' \in [Nodes -> Seq(Tasks)] /\ held' \in [Nodes -> Seq(Tasks)]
        /\ TasksInPlace' /\ CountersExact' /\ BudgetExact'
    BY <1>1, BatchTaken
  <1>3. /\ pc' = [pc EXCEPT ![n] = "lease"]
        /\ UNCHANGED <<mainPc, toSeed, outcome, token, taskVars, used, blockedBy,
                       sending, pending, remaining, errors>>
    BY <1>1 DEF TakeBatch, mainVars
  <1>4. TypeOK'
    BY <1>1, <1>2, <1>3 DEF TypeOK, taskVars, WorkerStates
  <1> QED BY <1>2, <1>4

-----------------------------------------------------------------------------
(* The invariant.                                                          *)

LEMMA AccountingInit == ASSUME Init PROVE Accounting
  <1> USE GraphAssumption, BoundAssumption DEF Init
  <1>1. TypeOK
    <2>1. queue \in [Nodes -> Seq(Tasks)] /\ held \in [Nodes -> Seq(Tasks)]
      BY EmptySeq
    <2>2. remaining \in [Nodes -> 0..MaxItems]
      OBVIOUS
    <2> QED BY <2>1, <2>2 DEF TypeOK, WorkerStates
  <1>2. Live = {} /\ \A n \in Nodes : TasksOf(n) = {} /\ Admitted(n) = {} /\ ~Admitting(n)
    BY DEF Live, TasksOf, Admitted, Admitting
  <1>3. TasksInPlace
    BY <1>2, EmptyDistinct
    DEF TasksInPlace, AtOwnNode, HeldWhileBusy, SentIsApart, NoneLost
  <1>4. CountersExact
    <2>1. \A n \in Nodes : Blockers(n) = {}  BY <1>2 DEF Blockers
    <2> QED BY <1>2, <2>1, FS_EmptySet DEF CountersExact
  <1>5. BudgetExact
    <2>1. \A n \in Nodes : Bytes(Admitted(n), weight) = {}
      BY <1>2 DEF Bytes
    <2>2. \A n \in Nodes : used[n] = 0 /\ 0 <= Budget
      OBVIOUS
    <2>3. Cardinality({}) = 0  BY FS_EmptySet
    <2> QED BY <2>1, <2>2, <2>3 DEF BudgetExact
  <1> QED BY <1>1, <1>3, <1>4, <1>5 DEF Accounting

LEMMA AccountingNext == ASSUME Accounting, [Next]_vars PROVE Accounting'
  <1>1. CASE UNCHANGED vars \/ Ended \/ Cancel
    BY <1>1, QuietMainStep DEF QuietMain, Ended
  <1>2. CASE MainStep
    BY <1>2, QuietMainStep, SeedStep DEF MainStep, QuietMain
  <1>3. ASSUME NEW n \in Nodes, Worker(n) PROVE Accounting'
    <2>1. CASE CollectBatch(n) \/ CollectTimeout(n)
      BY <2>1, CollectStep
    <2>2. CASE Deliver(n)
      BY <2>2, DeliverStep
    <2>3. CASE EndBatch(n) /\ MoreItems(n)
      BY <2>3, EndBatchStep
    <2>4. CASE GrantBudget(n)
      BY <2>4, GrantBudgetStep
    <2>5. CASE GrantPut(n)
      BY <2>5, GrantPutStep
    <2>6. CASE Complete(n)
      BY <2>6, TaskCompleted
    <2>7. CASE CancelAdmission(n)
      BY <2>7, AdmissionGivenUp
    <2>8. CASE QuietWorker(n)
      BY <2>8, QuietWorkerStep
    <2> QED BY <1>3, <2>1, <2>2, <2>3, <2>4, <2>5, <2>6, <2>7, <2>8
            DEF Worker, QuietWorker
  <1> QED BY <1>1, <1>2, <1>3 DEF Next

(* Where the tasks are and what the counters of TaskAdmission and          *)
(* WeightBudget say about them, in every state of every run: the inductive *)
(* invariant of the accounting.                                            *)
THEOREM AccountingHolds == Spec => []Accounting
  <1>1. Init => Accounting  BY AccountingInit
  <1>2. Accounting /\ [Next]_vars => Accounting'  BY AccountingNext
  <1> QED BY <1>1, <1>2, PTL DEF Spec

(* Type correctness.  It needs the rest of the invariant: that complete()  *)
(* and _discard() take no counter, and release() no budget, below zero     *)
(* follows from what they count.                                           *)
THEOREM TypeCorrect == Spec => []TypeOK
  <1>1. Accounting => TypeOK  BY DEF Accounting
  <1> QED BY <1>1, AccountingHolds, PTL

(* A task that _worker, _enqueue or complete() handles is never lost and   *)
(* never in two places, through every cancellation: each one waits for     *)
(* admission, is queued, or is in the consumed_tasks of its own worker.    *)
THEOREM TasksStayInPlace == Spec => []TasksInPlace
  <1>1. Accounting => TasksInPlace  BY DEF Accounting
  <1> QED BY <1>1, AccountingHolds, PTL

(* TaskAdmission's active and admission_blocked counters say exactly how   *)
(* many tasks are alive and how many producers wait, so the idle test of   *)
(* _wait_until_idle and the collector's flush rules read the truth.        *)
THEOREM CountersStayExact == Spec => []CountersExact
  <1>1. Accounting => CountersExact  BY DEF Accounting
  <1> QED BY <1>1, AccountingHolds, PTL

(* WeightBudget._used is the weight of the tasks acquire() has let in and  *)
(* release() has not given back, and exceeds max_bytes for one oversized   *)
(* task only; release() never sees more than what was admitted.            *)
THEOREM BudgetStaysExact == Spec => []BudgetExact
  <1>1. Accounting => BudgetExact  BY DEF Accounting
  <1> QED BY <1>1, AccountingHolds, PTL

-----------------------------------------------------------------------------
(* How main ends, and why an input item is not forgotten.                  *)

Lifecycle ==
    /\ outcome = "none" <=> mainPc \in {"seed", "wait", "stop"}
    /\ outcome = "completed" => mainPc = "done"
    /\ mainPc \in {"wait", "stop"} => toSeed = {}
    /\ \A n \in Nodes \ InputNodes : remaining[n] = 0

(* While the run goes on, an input node with items left is to be seeded,   *)
(* or has a task in its queue, or is working on one and not past the point *)
(* where it queues the next.                                               *)
Served(n) ==
    \/ token \/ n \in errors \/ ~Running \/ n \in toSeed
    \/ queue[n] # <<>>
    \/ pc[n] \in {"lease", "execute", "route", "budget", "put"}
InputsServed == \A n \in InputNodes : remaining[n] > 0 => Served(n)

LEMMA LifecycleStep ==
    ASSUME TypeOK, Lifecycle, [Next]_vars
    PROVE  Lifecycle'
  <1> USE DEF Lifecycle
  <1>1. CASE UNCHANGED vars \/ Ended \/ Cancel
    BY <1>1 DEF vars, mainVars, Ended, Cancel
  <1>2. CASE MainStep
    <2>1. ASSUME NEW i \in InputNodes, SeedInput(i) PROVE Lifecycle'
      BY <2>1 DEF SeedInput
    <2>2. CASE SeedDone  BY <2>2 DEF SeedDone
    <2>3. CASE MainSleep  BY <2>3 DEF MainSleep, mainVars
    <2>4. CASE MainWake  BY <2>4 DEF MainWake
    <2>5. CASE MainCancelled  BY <2>5 DEF MainCancelled
    <2>6. CASE MainJoined  BY <2>6 DEF MainJoined
    <2> QED BY <1>2, <2>1, <2>2, <2>3, <2>4, <2>5, <2>6 DEF MainStep
  <1>3. ASSUME NEW n \in Nodes, Worker(n) PROVE Lifecycle'
    <2>1. UNCHANGED mainVars
      BY <1>3 DEF Worker, CollectSleep, CollectFirst, CollectBatch, CollectTimeout,
         TakeBatch, AcquireLease, Execute, Fail, Deliver, GrantBudget, GrantPut,
         RouteCancelled, EndBatch, Complete, LeaveFinally, CancelIdle, CancelBusy,
         CancelAdmission
    <2>2. CASE Execute(n)
      <3>1. \A k \in Nodes \ {n} : remaining'[k] = remaining[k]
        BY <2>2 DEF Execute, TypeOK
      <3>2. n \notin InputNodes => remaining'[n] = 0
        BY <2>2 DEF Execute, TypeOK
      <3> QED BY <2>1, <3>1, <3>2 DEF mainVars
    <2>3. CASE ~Execute(n)
      <3>1. UNCHANGED remaining
        BY <1>3, <2>3 DEF Worker, CollectSleep, CollectFirst, CollectBatch,
           CollectTimeout, TakeBatch, AcquireLease, Fail, Deliver, GrantBudget,
           GrantPut, RouteCancelled, EndBatch, Complete, LeaveFinally, CancelIdle,
           CancelBusy, CancelAdmission
      <3> QED BY <2>1, <3>1 DEF mainVars
    <2> QED BY <2>2, <2>3
  <1> QED BY <1>1, <1>2, <1>3 DEF Next

LEMMA InputsServedStep ==
    ASSUME Accounting, InputsServed, [Next]_vars
    PROVE  InputsServed'
  <1> USE DEF Accounting
  <1> SUFFICES ASSUME NEW i \in InputNodes, remaining'[i] > 0
               PROVE  Served(i)'
    BY DEF InputsServed
  <1>a. i \in Nodes  BY GraphAssumption
  <1>b. TypeOK'  BY AccountingNext
  <1>c. remaining[i] \in Nat
    <2>1. remaining[i] \in 0..MaxItems  BY <1>a DEF TypeOK
    <2> QED BY <2>1, BoundAssumption
  <1>0. i \in Nodes /\ TypeOK' /\ remaining[i] \in Nat
    BY <1>a, <1>b, <1>c
  <1>1. CASE UNCHANGED vars \/ Ended \/ Cancel
    BY <1>1 DEF InputsServed, Served, Running, vars, mainVars, queueVars, Ended, Cancel
  <1>2. CASE MainStep
    <2>1. ASSUME NEW j \in InputNodes, SeedInput(j) PROVE Served(i)'
      <3>1. CASE i = j
        <4>1. queue' = [queue EXCEPT ![i] = Append(@, NewTask)] /\ Live # Tasks
          BY <2>1, <3>1 DEF SeedInput, Register
        <4>2. NewTask \in Tasks /\ queue \in [Nodes -> Seq(Tasks)]
          BY <4>1, FreshTask DEF TypeOK
        <4>3. Elems(queue'[i]) = Elems(queue[i]) \cup {NewTask}
          BY <4>1, <4>2, <1>0, ElemsAppend
        <4>4. queue'[i] # <<>>
          BY <4>3, EmptyDistinct
        <4> QED BY <4>4 DEF Served
      <3>2. CASE i # j
        <4>1. queue'[i] = queue[i]
          BY <2>1, <3>2, <1>0 DEF SeedInput, TypeOK
        <4> QED BY <2>1, <3>2, <4>1 DEF SeedInput, InputsServed, Served, Running
      <3> QED BY <3>1, <3>2
    <2>2. CASE SeedDone
      BY <2>2 DEF SeedDone, InputsServed, Served, Running, queueVars
    <2>3. CASE MainSleep
      BY <2>3 DEF MainSleep, InputsServed, Served, Running, mainVars, queueVars
    <2>4. CASE MainWake
      BY <2>4 DEF MainWake, InputsServed, Served, Running, queueVars
    <2>5. CASE MainCancelled
      BY <2>5 DEF MainCancelled, Served, Running
    <2>6. CASE MainJoined
      BY <2>6 DEF MainJoined, Served, Running
    <2> QED BY <1>2, <2>1, <2>2, <2>3, <2>4, <2>5, <2>6 DEF MainStep
  <1>3. ASSUME NEW n \in Nodes, Worker(n) PROVE Served(i)'
    <2>0. UNCHANGED mainVars /\ UNCHANGED token /\ errors \subseteq errors'
      BY <1>3 DEF Worker, CollectSleep, CollectFirst, CollectBatch, CollectTimeout,
         TakeBatch, AcquireLease, Execute, Fail, Deliver, GrantBudget, GrantPut,
         RouteCancelled, EndBatch, Complete, LeaveFinally, CancelIdle, CancelBusy,
         CancelAdmission, Notify
    <2>1. remaining'[i] <= remaining[i]
      <3>1. CASE Execute(n)
        <4>1. PICK r \in 0..MaxItems :
                /\ IF n \in InputNodes THEN r < remaining[n] ELSE r = 0
                /\ remaining' = [remaining EXCEPT ![n] = r]
          BY <3>1 DEF Execute
        <4>2. CASE i = n
          <5>1. remaining'[i] = r /\ r < remaining[i]
            BY <4>1, <4>2, <1>0 DEF TypeOK
          <5>2. r \in Nat  BY BoundAssumption
          <5> QED BY <5>1, <5>2, <1>0
        <4>3. CASE i # n
          <5>1. remaining'[i] = remaining[i]  BY <4>1, <4>3, <1>0 DEF TypeOK
          <5> QED BY <5>1, <1>0
        <4> QED BY <4>2, <4>3
      <3>2. CASE ~Execute(n)
        <4>1. UNCHANGED remaining
          BY <1>3, <3>2 DEF Worker, CollectSleep, CollectFirst, CollectBatch,
             CollectTimeout, TakeBatch, AcquireLease, Fail, Deliver, GrantBudget,
             GrantPut, RouteCancelled, EndBatch, Complete, LeaveFinally, CancelIdle,
             CancelBusy, CancelAdmission
        <4> QED BY <4>1, <1>0
      <3> QED BY <3>1, <3>2
    <2>2. Served(i)
      <3>1. remaining'[i] \in Nat
        BY <1>0, BoundAssumption DEF TypeOK
      <3> QED BY <1>0, <2>1, <3>1 DEF InputsServed
    <2>3. CASE token \/ i \in errors \/ ~Running \/ i \in toSeed
      BY <2>0, <2>3 DEF Served, Running, mainVars
    <2>4. CASE ~token /\ Running /\ i \notin errors
               /\ (queue[i] # <<>> \/ pc[i] \in {"lease", "execute", "route", "budget", "put"})
      <3> USE <2>4
      <3>1. CASE CollectSleep(n)
        BY <3>1 DEF CollectSleep, Served, queueVars
      <3>2. CASE CollectFirst(n)
        BY <3>2, <1>0 DEF CollectFirst, Served, queueVars, TypeOK
      <3>3. CASE CollectBatch(n) \/ CollectTimeout(n)
        <4>1. TakeBatch(n) /\ pc[n] = "fill"
          BY <3>3 DEF CollectBatch, CollectTimeout
        <4>2. pc' = [pc EXCEPT ![n] = "lease"]
              /\ \A k \in Nodes \ {n} : queue'[k] = queue[k]
          BY <4>1 DEF TakeBatch, TypeOK
        <4> QED BY <4>2, <1>0 DEF Served, TypeOK
      <3>4. CASE AcquireLease(n)
        BY <3>4, <1>0 DEF AcquireLease, Served, queueVars, TypeOK
      <3>5. CASE Execute(n)
        BY <3>5, <1>0 DEF Execute, Served, queueVars, TypeOK
      <3>6. CASE Fail(n)
        BY <3>6, <1>0 DEF Fail, Served, queueVars, TypeOK
      <3>7. CASE Deliver(n)
        <4>1. PICK m \in Succ(n), w \in Weights : Enqueue(n, m, w)
          BY <3>7 DEF Deliver
        <4>2. m # n /\ m \in Nodes
          BY GraphAssumption DEF Succ
        <4>3. \E p \in {"budget", "put", "route"} : pc' = [pc EXCEPT ![n] = p]
          BY <4>1, <4>2 DEF Enqueue, AfterAdmission
        <4>4. \A k \in Nodes : queue[k] # <<>> => queue'[k] # <<>>
          <5>1. Live # Tasks  BY <4>1 DEF Enqueue, Register
          <5>2. queue' = queue \/ queue' = [queue EXCEPT ![m] = Append(@, NewTask)]
            BY <4>1 DEF Enqueue
          <5>3. Append(queue[m], NewTask) # <<>>
            <6>1. queue[m] \in Seq(Tasks) /\ NewTask \in Tasks
              BY <4>2, <5>1, FreshTask DEF TypeOK
            <6>2. Elems(Append(queue[m], NewTask)) = Elems(queue[m]) \cup {NewTask}
              BY <6>1, ElemsAppend
            <6> QED BY <6>2, EmptyDistinct
          <5> QED BY <5>2, <5>3 DEF TypeOK
        <4> QED BY <4>3, <4>4, <1>0 DEF Served, TypeOK
      <3>8. CASE GrantBudget(n)
        <4>1. \/ pc' = [pc EXCEPT ![n] = "put"]
              \/ pc' = [pc EXCEPT ![n] = "route"]
              \/ pc' = [pc EXCEPT ![n] = "finally"]
          BY <3>8 DEF GrantBudget, AfterAdmission
        <4>2. /\ \A k \in Nodes : queue[k] # <<>> => queue'[k] # <<>>
              /\ pc'[n] = "finally" => queue'[n] # <<>>
          BY <3>8, GrantBudgetStep
        <4> QED BY <4>1, <4>2, <1>0 DEF Served, TypeOK
      <3>9. CASE GrantPut(n)
        <4>1. \/ pc' = [pc EXCEPT ![n] = "route"]
              \/ pc' = [pc EXCEPT ![n] = "finally"]
          BY <3>9 DEF GrantPut, AfterAdmission
        <4>2. /\ \A k \in Nodes : queue[k] # <<>> => queue'[k] # <<>>
              /\ pc'[n] = "finally" => queue'[n] # <<>>
          BY <3>9, GrantPutStep
        <4> QED BY <4>1, <4>2, <1>0 DEF Served, TypeOK
      <3>10. CASE RouteCancelled(n)
        BY <3>10 DEF RouteCancelled
      <3>11. CASE EndBatch(n)
        <4>1. CASE MoreItems(n)
          <5>1. pc'[n] \in {"budget", "put"} \/ queue'[n] # <<>>
            BY <3>11, <4>1, EndBatchStep
          <5>2. Enqueue(n, n, 0)
            BY <3>11, <4>1 DEF EndBatch
          <5>3. \A k \in Nodes \ {n} : queue'[k] = queue[k] /\ pc'[k] = pc[k]
            BY <5>2 DEF Enqueue, TypeOK
          <5> QED BY <5>1, <5>3, <1>0 DEF Served
        <4>2. CASE ~MoreItems(n)
          <5>1. UNCHANGED <<queue, remaining>> /\ \A k \in Nodes \ {n} : pc'[k] = pc[k]
            BY <3>11, <4>2 DEF EndBatch, queueVars, TypeOK
          <5>2. i # n
            BY <3>11, <4>2, <5>1, <1>0 DEF EndBatch, MoreItems
          <5> QED BY <5>1, <5>2, <1>0 DEF Served
        <4> QED BY <4>1, <4>2
      <3>12. CASE Complete(n)
        BY <3>12 DEF Complete, Served
      <3>13. CASE LeaveFinally(n)
        BY <3>13, <1>0 DEF LeaveFinally, Served, queueVars, TypeOK
      <3>14. CASE CancelIdle(n) \/ CancelBusy(n) \/ CancelAdmission(n)
        BY <3>14 DEF CancelIdle, CancelBusy, CancelAdmission, Stopping, Running
      <3> QED BY <1>3, <3>1, <3>2, <3>3, <3>4, <3>5, <3>6, <3>7, <3>8, <3>9,
                 <3>10, <3>11, <3>12, <3>13, <3>14 DEF Worker
    <2> QED BY <2>2, <2>3, <2>4 DEF Served
  <1> QED BY <1>1, <1>2, <1>3 DEF Next
-----------------------------------------------------------------------------
(* Nobody misses a wakeup.                                                 *)

LEMMA HoldingIsActive ==
    ASSUME Accounting, NEW n \in Nodes, held[n] # <<>>
    PROVE  activeBy[n] > 0 /\ Live # {}
  <1> USE DEF Accounting
  <1>1. held[n] \in Seq(Tasks)  BY DEF TypeOK
  <1>2. Elems(held[n]) # {} /\ Elems(held[n]) \subseteq TasksOf(n)
    BY <1>1, ElemsEmpty DEF TasksInPlace, AtOwnNode
  <1>3. IsFiniteSet(TasksOf(n)) /\ TasksOf(n) # {} /\ TasksOf(n) \subseteq Live
    BY <1>2, AllFinite
  <1>4. Cardinality(TasksOf(n)) \in Nat /\ Cardinality(TasksOf(n)) # 0
    BY <1>3, FS_CardinalityType, FS_EmptySet
  <1> QED BY <1>3, <1>4 DEF CountersExact

(* What n waits for does not become true when nothing it reads changes,    *)
(* except that its upstream may have taken inputs it still works on.       *)
LEMMA StillNotReady ==
    ASSUME NEW k \in Nodes, ~Ready(k, WaitedFor(k)),
           queue'[k] = queue[k], pc'[k] = pc[k], UNCHANGED blockedBy,
           UpstreamCanProduce(k) => UpstreamCanProduce(k)'
    PROVE  (~Ready(k, WaitedFor(k)))'
  BY DEF Ready, WaitedFor, MustFlush

LEMMA StillAsleep ==
    ASSUME NoMissedWakeup, NEW n \in Nodes, n \notin asleep',
           asleep' \subseteq asleep, UNCHANGED <<blockedBy, mainPc, activeTotal, errors>>,
           \A k \in Nodes \ {n} : queue'[k] = queue[k] /\ pc'[k] = pc[k],
           \A k \in Nodes : UpstreamCanProduce(k) => UpstreamCanProduce(k)'
    PROVE  NoMissedWakeup'
  <1>1. Main \in asleep' => mainPc' = "wait" /\ ~IdleOrFailed'
    BY DEF NoMissedWakeup, IdleOrFailed
  <1>2. ASSUME NEW k \in Nodes, k \in asleep'
        PROVE  pc'[k] \in {"first", "fill"} /\ (~Ready(k, WaitedFor(k)))'
    BY <1>2, StillNotReady DEF NoMissedWakeup
  <1> QED BY <1>1, <1>2 DEF NoMissedWakeup

LEMMA WakeupInit == ASSUME Init PROVE NoMissedWakeup
  BY DEF Init, NoMissedWakeup

LEMMA WakeupNext ==
    ASSUME Accounting, NoMissedWakeup, [Next]_vars
    PROVE  NoMissedWakeup'
  <1>0. TypeOK  BY DEF Accounting
  <1>1. ASSUME asleep' = {} PROVE NoMissedWakeup'
    BY <1>1 DEF NoMissedWakeup
  <1> DEFINE Workers == \A n \in Nodes \cap asleep' :
                            pc'[n] \in {"first", "fill"} /\ (~Ready(n, WaitedFor(n)))'
  <1>2. ASSUME UNCHANGED <<pc, queueVars, activeBy, remaining>>, asleep' \subseteq asleep \cup {Main}
        PROVE  Workers
    <2> SUFFICES ASSUME NEW n \in Nodes, n \in asleep'
                 PROVE  pc'[n] \in {"first", "fill"} /\ (~Ready(n, WaitedFor(n)))'
      OBVIOUS
    <2>1. n \in asleep  BY <1>2, GraphAssumption
    <2>2. UpstreamCanProduce(n)' <=> UpstreamCanProduce(n)
      BY <1>2 DEF UpstreamCanProduce
    <2> QED BY <1>2, <2>1, <2>2, StillNotReady DEF NoMissedWakeup, queueVars
  <1>3. CASE UNCHANGED vars \/ Ended \/ Cancel
    <2>1. UNCHANGED <<pc, queueVars, activeBy, remaining, asleep, mainPc, activeTotal, errors>>
      BY <1>3 DEF vars, mainVars, taskVars, queueVars, Ended, Cancel
    <2> QED BY <2>1, <1>2 DEF NoMissedWakeup, IdleOrFailed
  <1>4. CASE MainStep
    <2>1. ASSUME NEW i \in InputNodes, SeedInput(i) PROVE NoMissedWakeup'
      <3>1. CASE asleep' = {}
        BY <3>1, <1>1
      <3>2. CASE asleep' # {}
        <4>1. UNCHANGED <<pc, queueVars, activeBy, remaining, asleep, mainPc, activeTotal, errors>>
          BY <2>1, <3>2 DEF SeedInput, Notify, taskVars, queueVars
        <4> QED BY <4>1, <1>2 DEF NoMissedWakeup, IdleOrFailed
      <3> QED BY <3>1, <3>2
    <2>2. CASE SeedDone
      <3>1. /\ UNCHANGED <<pc, queueVars, activeBy, remaining, asleep>>
            /\ mainPc = "seed"
        BY <2>2 DEF SeedDone, taskVars
      <3> QED BY <3>1, <1>2 DEF NoMissedWakeup
    <2>3. CASE MainSleep
      <3>1. /\ UNCHANGED <<pc, queueVars, activeBy, remaining, mainPc, activeTotal, errors>>
            /\ mainPc = "wait" /\ ~IdleOrFailed /\ asleep' = asleep \cup {Main}
        BY <2>3 DEF MainSleep, taskVars, mainVars
      <3> QED BY <3>1, <1>2 DEF NoMissedWakeup, IdleOrFailed
    <2>4. CASE MainWake \/ MainCancelled
      <3>1. /\ UNCHANGED <<pc, queueVars, activeBy, remaining>>
            /\ asleep' \subseteq asleep /\ Main \notin asleep'
        BY <2>4 DEF MainWake, MainCancelled, taskVars
      <3> QED BY <3>1, <1>2 DEF NoMissedWakeup
    <2>5. CASE MainJoined
      <3>1. /\ UNCHANGED <<pc, queueVars, activeBy, remaining, asleep>>
            /\ mainPc # "wait"
        BY <2>5 DEF MainJoined, taskVars
      <3> QED BY <3>1, <1>2 DEF NoMissedWakeup
    <2> QED BY <1>4, <2>1, <2>2, <2>3, <2>4, <2>5 DEF MainStep
  <1>5. ASSUME NEW n \in Nodes, Worker(n) PROVE NoMissedWakeup'
    <2>1. CASE Fail(n) \/ GrantBudget(n) \/ GrantPut(n) \/ Complete(n) \/ CancelAdmission(n)
      BY <2>1, <1>1 DEF Fail, GrantBudget, GrantPut, Complete, CancelAdmission, Notify
    <2>2. CASE Deliver(n) \/ (EndBatch(n) /\ MoreItems(n))
      BY <2>2, <1>1 DEF Deliver, EndBatch, Enqueue, Notify
    <2>3. CASE CollectSleep(n)
      <3>1. /\ UNCHANGED <<pc, queueVars, activeBy, remaining, mainPc, activeTotal, errors>>
            /\ asleep' = asleep \cup {n}
            /\ pc[n] \in {"first", "fill"} /\ ~Ready(n, WaitedFor(n))
        BY <2>3 DEF CollectSleep, taskVars, mainVars
      <3>2. Main \in asleep' => mainPc' = "wait" /\ ~IdleOrFailed'
        BY <3>1, GraphAssumption DEF NoMissedWakeup, IdleOrFailed
      <3>3. ASSUME NEW k \in Nodes, k \in asleep'
            PROVE  pc'[k] \in {"first", "fill"} /\ (~Ready(k, WaitedFor(k)))'
        <4>1. pc[k] \in {"first", "fill"} /\ ~Ready(k, WaitedFor(k))
          BY <3>1, <3>3 DEF NoMissedWakeup
        <4>2. UpstreamCanProduce(k)' <=> UpstreamCanProduce(k)
          BY <3>1 DEF UpstreamCanProduce
        <4> QED BY <3>1, <4>1, <4>2, StillNotReady DEF queueVars
      <3> QED BY <3>2, <3>3 DEF NoMissedWakeup
    <2>4. CASE \/ CollectFirst(n) \/ CollectBatch(n) \/ CollectTimeout(n) \/ AcquireLease(n)
               \/ RouteCancelled(n) \/ LeaveFinally(n) \/ CancelIdle(n) \/ CancelBusy(n)
               \/ EndBatch(n) /\ ~MoreItems(n)
      <3>1. /\ UNCHANGED <<blockedBy, mainPc, activeTotal, errors, activeBy, remaining>>
            /\ asleep' \subseteq asleep
        BY <2>4 DEF CollectFirst, CollectBatch, CollectTimeout, TakeBatch, AcquireLease,
           RouteCancelled, LeaveFinally, CancelIdle, CancelBusy, EndBatch, taskVars,
           queueVars, mainVars
      <3>2. n \notin asleep'
        BY <2>4 DEF CollectFirst, CollectBatch, CollectTimeout, AcquireLease,
           RouteCancelled, LeaveFinally, CancelIdle, CancelBusy, EndBatch, NoMissedWakeup
      <3>3. \A k \in Nodes \ {n} : queue'[k] = queue[k] /\ pc'[k] = pc[k]
        BY <2>4, <1>0 DEF CollectFirst, CollectBatch, CollectTimeout, TakeBatch, AcquireLease,
           RouteCancelled, LeaveFinally, CancelIdle, CancelBusy, EndBatch, queueVars, TypeOK
      <3>4. \A k \in Nodes : UpstreamCanProduce(k) => UpstreamCanProduce(k)'
        BY <3>1 DEF UpstreamCanProduce
      <3> QED BY <3>1, <3>2, <3>3, <3>4, StillAsleep
    <2>5. CASE Execute(n)
      <3>1. /\ UNCHANGED <<blockedBy, mainPc, activeTotal, errors, activeBy, asleep, queue>>
            /\ pc[n] = "execute"
        BY <2>5 DEF Execute, taskVars, queueVars, mainVars
      <3>2. /\ \A k \in Nodes \ {n} : pc'[k] = pc[k] /\ remaining'[k] = remaining[k]
            /\ n \notin asleep
        BY <2>5, <1>0 DEF Execute, NoMissedWakeup, TypeOK
      <3>3. activeBy[n] > 0
        BY <3>1, HoldingIsActive DEF Accounting, TasksInPlace, HeldWhileBusy
      <3>4. ASSUME NEW k \in Nodes, UpstreamCanProduce(k) PROVE UpstreamCanProduce(k)'
        <4>1. PICK u \in Upstream[k] : activeBy[u] > 0 \/ remaining[u] > 0
          BY <3>4 DEF UpstreamCanProduce
        <4>2. u \in Nodes  BY DEF Upstream
        <4>3. activeBy'[u] > 0 \/ remaining'[u] > 0
          BY <3>1, <3>2, <3>3, <4>1, <4>2
        <4> QED BY <4>1, <4>3 DEF UpstreamCanProduce
      <3> QED BY <3>1, <3>2, <3>4, StillAsleep
    <2> QED BY <1>5, <2>1, <2>2, <2>3, <2>4, <2>5 DEF Worker
  <1> QED BY <1>3, <1>4, <1>5 DEF Next

(* Every state change that may make a predicate of _active_condition true  *)
(* is notified: neither main in _wait_until_idle nor a worker in           *)
(* _wait_for_items sleeps through the condition it waits for.              *)
THEOREM NobodyMissesAWakeup == Spec => []NoMissedWakeup
  <1>1. Init => NoMissedWakeup  BY WakeupInit
  <1>2. Accounting /\ NoMissedWakeup /\ [Next]_vars => NoMissedWakeup'
    BY WakeupNext
  <1> QED BY <1>1, <1>2, AccountingHolds, PTL DEF Spec
-----------------------------------------------------------------------------
(* A completed run is done.                                                *)

Sound == Accounting /\ Lifecycle /\ InputsServed /\ CompletedMeansDone

LEMMA NothingAlive ==
    ASSUME Accounting, Live = {}, NEW n \in Nodes
    PROVE  /\ queue[n] = <<>> /\ held[n] = <<>> /\ used[n] = 0
           /\ ~Admitting(n)
  <1> USE DEF Accounting
  <1>1. TasksOf(n) = {} /\ Admitted(n) = {}
    BY AllFinite
  <1>2. queue[n] \in Seq(Tasks) /\ held[n] \in Seq(Tasks)
    BY DEF TypeOK
  <1>3. Elems(queue[n]) = {} /\ Elems(held[n]) = {}
    BY <1>1 DEF TasksInPlace, AtOwnNode
  <1>4. Bytes(Admitted(n), weight) = {}
    BY <1>1 DEF Bytes
  <1>5. used[n] = 0
    BY <1>4, FS_EmptySet DEF BudgetExact
  <1>6. ~Admitting(n)
    BY DEF TasksInPlace, SentIsApart
  <1> QED BY <1>2, <1>3, <1>5, <1>6, ElemsEmpty

LEMMA IdleIsDone ==
    ASSUME Accounting, Lifecycle, InputsServed,
           mainPc = "wait", ~token, activeTotal = 0, errors = {}
    PROVE  /\ Live = {}
           /\ \A n \in Nodes : remaining[n] = 0 /\ queue[n] = <<>> /\ used[n] = 0
  <1>1. Live = {}
    BY AllFinite, FS_EmptySet DEF Accounting, CountersExact
  <1>2. ASSUME NEW n \in Nodes PROVE remaining[n] = 0
    <2>1. CASE n \notin InputNodes
      BY <2>1 DEF Lifecycle
    <2>2. CASE n \in InputNodes
      <3>1. ~Served(n)
        <4>1. queue[n] = <<>> /\ held[n] = <<>>
          BY <1>1, NothingAlive
        <4>2. pc[n] \notin {"lease", "execute", "route", "budget", "put"}
          BY <4>1 DEF Accounting, TasksInPlace, HeldWhileBusy
        <4> QED BY <4>1, <4>2 DEF Served, Running, Lifecycle
      <3>2. ~(remaining[n] > 0)
        BY <2>2, <3>1 DEF InputsServed
      <3>3. remaining[n] \in 0..MaxItems
        BY DEF Accounting, TypeOK
      <3> QED BY <3>2, <3>3, BoundAssumption
    <2> QED BY <2>1, <2>2
  <1> QED BY <1>1, <1>2, NothingAlive

LEMMA CompletedInit == ASSUME Init PROVE Lifecycle /\ InputsServed /\ CompletedMeansDone
  <1>1. Lifecycle  BY DEF Init, Lifecycle
  <1>2. InputsServed  BY DEF Init, InputsServed, Served
  <1>3. CompletedMeansDone  BY DEF Init, CompletedMeansDone
  <1> QED BY <1>1, <1>2, <1>3

LEMMA CompletedNext ==
    ASSUME Sound, [Next]_vars
    PROVE  CompletedMeansDone'
  <1> USE DEF Sound
  <1> DEFINE Over == outcome = "completed" \/ mainPc = "stop"
             Left == <<owner, errors, remaining, queue, used>>
  <1>1. ASSUME UNCHANGED Left, Over' => Over PROVE CompletedMeansDone'
    BY <1>1 DEF CompletedMeansDone, Live
  <1>2. CASE UNCHANGED vars \/ Ended \/ Cancel
    <2>1. UNCHANGED Left /\ UNCHANGED <<mainPc, outcome>>
      BY <1>2 DEF vars, mainVars, taskVars, queueVars, Ended, Cancel
    <2> QED BY <1>1, <2>1
  <1>3. CASE MainStep
    <2>1. ASSUME NEW i \in InputNodes, SeedInput(i) PROVE CompletedMeansDone'
      BY <2>1 DEF SeedInput, CompletedMeansDone, Lifecycle
    <2>2. CASE SeedDone \/ MainSleep \/ MainCancelled \/ MainJoined
      <3>1. UNCHANGED Left
        BY <2>2 DEF SeedDone, MainSleep, MainCancelled, MainJoined, taskVars, queueVars
      <3>2. Over' => Over
        BY <2>2 DEF SeedDone, MainSleep, MainCancelled, MainJoined, mainVars, Lifecycle
      <3> QED BY <1>1, <3>1, <3>2
    <2>3. CASE MainWake
      <3>1. UNCHANGED Left
        BY <2>3 DEF MainWake, taskVars, queueVars
      <3>2. mainPc = "wait" /\ ~token /\ IdleOrFailed /\ (errors # {} => ~Over')
        BY <2>3 DEF MainWake
      <3>3. CASE errors = {}
        <4>1. activeTotal = 0
          BY <3>2, <3>3 DEF IdleOrFailed
        <4>2. /\ Live = {}
              /\ \A n \in Nodes : remaining[n] = 0 /\ queue[n] = <<>> /\ used[n] = 0
          BY <3>2, <3>3, <4>1, IdleIsDone
        <4>3. Live' = {}
          BY <3>1, <4>2 DEF Live
        <4> QED BY <3>1, <3>3, <4>2, <4>3 DEF CompletedMeansDone
      <3>4. CASE errors # {}
        BY <3>2, <3>4 DEF CompletedMeansDone
      <3> QED BY <3>3, <3>4
    <2> QED BY <1>3, <2>1, <2>2, <2>3 DEF MainStep
  <1>4. ASSUME NEW n \in Nodes, Worker(n) PROVE CompletedMeansDone'
    <2>1. UNCHANGED <<mainPc, outcome>>
      BY <1>4 DEF Worker, CollectSleep, CollectFirst, CollectBatch, CollectTimeout,
         TakeBatch, AcquireLease, Execute, Fail, Deliver, GrantBudget, GrantPut,
         RouteCancelled, EndBatch, Complete, LeaveFinally, CancelIdle, CancelBusy,
         CancelAdmission, mainVars
    <2>2. CASE ~Over
      BY <2>1, <2>2 DEF CompletedMeansDone
    <2>3. CASE Over
      <3>1. ~Running /\ Live = {}
        BY <2>3 DEF Running, Lifecycle, CompletedMeansDone
      <3>2. held[n] = <<>> /\ ~Admitting(n)
        BY <3>1, NothingAlive
      <3>3. LeaveFinally(n) \/ CancelIdle(n) \/ CancelBusy(n)
        BY <1>4, <3>1, <3>2 DEF Worker, CollectSleep, CollectFirst, CollectBatch,
           CollectTimeout, AcquireLease, Execute, Fail, Deliver, GrantBudget, GrantPut,
           RouteCancelled, EndBatch, Complete, CancelAdmission, Admitting
      <3>4. UNCHANGED Left
        BY <3>3 DEF LeaveFinally, CancelIdle, CancelBusy, taskVars, queueVars
      <3> QED BY <1>1, <2>3, <3>4
    <2> QED BY <2>2, <2>3
  <1> QED BY <1>2, <1>3, <1>4 DEF Next

LEMMA SoundNext == ASSUME Sound, [Next]_vars PROVE Sound'
  <1>1. Accounting'  BY AccountingNext DEF Sound
  <1>2. Lifecycle'  BY LifecycleStep DEF Sound, Accounting
  <1>3. InputsServed'  BY InputsServedStep DEF Sound
  <1>4. CompletedMeansDone'  BY CompletedNext
  <1> QED BY <1>1, <1>2, <1>3, <1>4 DEF Sound

(* The inductive invariant of a whole run: the accounting, how arun()      *)
(* ends, and that _run_until_idle and _worker leave no input node with     *)
(* items but without a task.                                               *)
THEOREM RunsAreSound == Spec => []Sound
  <1>1. Init => Sound  BY AccountingInit, CompletedInit DEF Sound
  <1>2. Sound /\ [Next]_vars => Sound'  BY SoundNext
  <1> QED BY <1>1, <1>2, PTL DEF Spec

(* arun() returns without an error only when every input item was taken,   *)
(* every queue is empty, no worker holds a task and no node has failed:    *)
(* _wait_until_idle cannot mistake a pause for the end.                    *)
THEOREM CompletedRunsAreDone == Spec => []CompletedMeansDone
  <1>1. Sound => CompletedMeansDone  BY DEF Sound
  <1> QED BY <1>1, RunsAreSound, PTL

-----------------------------------------------------------------------------
(* The engine implements TaskRun.                                          *)

LEMMA PromiseInit == ASSUME Init PROVE Promise!Init
  <1>1. Live = {}  BY DEF Init, Live
  <1>2. remaining \in [Nodes -> 0..MaxItems]  BY DEF Init
  <1>3. mainPc = "seed" /\ Status = "running"  BY DEF Init, Status
  <1> QED BY <1>1, <1>2, <1>3 DEF Promise!Init

LEMMA StutterStep ==
    ASSUME UNCHANGED <<remaining, owner, outcome>>, (mainPc' = "seed") = (mainPc = "seed")
    PROVE  UNCHANGED Promise!vars
  <1>1. Live' = Live  BY DEF Live
  <1>2. Status' = Status  BY DEF Status
  <1> QED BY <1>1, <1>2 DEF Promise!vars

LEMMA EnqueueSpawns ==
    ASSUME Sound, NEW m \in Nodes, NEW w \in Nat, Register(NewTask, m, w),
           mainPc = "seed" \/ Live # {}, outcome = "none",
           UNCHANGED <<remaining, mainPc, outcome>>
    PROVE  Promise!Next
  <1>1. Live # Tasks  BY DEF Register
  <1>2. PICK t \in Tasks : t = NewTask /\ owner[t] = NoNode
    BY <1>1, FreshTask
  <1>3. t \notin Live /\ Live' = Live \cup {t}
    BY <1>2, RegisterCounts DEF Sound, Accounting
  <1>4. Status = "running" /\ Status' = Status  BY DEF Status
  <1>5. Promise!Spawn(t)
    BY <1>3, <1>4 DEF Promise!Spawn
  <1> QED BY <1>5 DEF Promise!Next

LEMMA ForgetFinishes ==
    ASSUME Sound, NEW t \in Tasks, NEW m \in Nodes, owner[t] = m, Forget(t, m),
           UNCHANGED <<remaining, mainPc, outcome>>
    PROVE  Promise!Next
  <1>1. t \in Live /\ Live' = Live \ {t}
    BY ForgetCounts, CountersParts DEF Sound, Accounting
  <1>2. Status # "completed" /\ Status' = Status
    BY <1>1 DEF Status, Sound, CompletedMeansDone
  <1>3. Promise!Finish(t)
    BY <1>1, <1>2 DEF Promise!Finish
  <1> QED BY <1>3 DEF Promise!Next

LEMMA PromiseStep ==
    ASSUME Sound, [Next]_vars
    PROVE  [Promise!Next]_(Promise!vars)
  <1> USE DEF Sound
  <1>1. CASE UNCHANGED vars \/ Ended \/ Cancel
    <2>1. UNCHANGED <<remaining, owner, outcome, mainPc>>
      BY <1>1 DEF vars, mainVars, taskVars, Ended, Cancel
    <2> QED BY <2>1, StutterStep
  <1>2. CASE MainStep
    <2>1. ASSUME NEW i \in InputNodes, SeedInput(i)
          PROVE  [Promise!Next]_(Promise!vars)
      <3>1. mainPc = "seed" /\ outcome = "none" /\ UNCHANGED <<remaining, mainPc, outcome>>
        BY <2>1 DEF SeedInput, Lifecycle
      <3>2. CASE remaining[i] = 0
        <4>1. UNCHANGED owner  BY <2>1, <3>2 DEF SeedInput, taskVars
        <4> QED BY <3>1, <4>1, StutterStep
      <3>3. CASE remaining[i] # 0
        <4>1. Register(NewTask, i, 0)  BY <2>1, <3>3 DEF SeedInput
        <4>2. i \in Nodes  BY GraphAssumption
        <4> QED BY <3>1, <4>1, <4>2, EnqueueSpawns
      <3> QED BY <3>2, <3>3
    <2>2. CASE SeedDone
      <3>1. /\ UNCHANGED <<remaining, owner, outcome>>
            /\ mainPc = "seed" /\ mainPc' = "wait" /\ outcome = "none"
        BY <2>2 DEF SeedDone, taskVars, Lifecycle
      <3>2. Live' = Live /\ Status' = Status /\ Status = "running"
        BY <3>1 DEF Live, Status
      <3>3. Promise!Seeded
        BY <3>1, <3>2 DEF Promise!Seeded
      <3> QED BY <3>3 DEF Promise!Next
    <2>3. CASE MainSleep
      <3>1. UNCHANGED <<remaining, owner, outcome, mainPc>>
        BY <2>3 DEF MainSleep, mainVars, taskVars
      <3> QED BY <3>1, StutterStep
    <2>4. ASSUME outcome = "none", outcome' \in {"failed", "cancelled"},
                 mainPc' # "seed", UNCHANGED <<remaining, owner>>
          PROVE  [Promise!Next]_(Promise!vars)
      <3>1. Live' = Live /\ Status = "running" /\ Status' = "aborted"
        BY <2>4 DEF Live, Status
      <3>2. Promise!Abort
        BY <2>4, <3>1 DEF Promise!Abort
      <3> QED BY <3>2 DEF Promise!Next
    <2>5. CASE MainWake
      <3>1. UNCHANGED <<remaining, owner>> /\ mainPc = "wait" /\ outcome = "none"
        BY <2>5 DEF MainWake, taskVars, Lifecycle
      <3>2. \/ mainPc' = "stop" /\ UNCHANGED outcome
            \/ mainPc' = "unwind" /\ outcome' = "failed"
        BY <2>5 DEF MainWake
      <3> QED BY <3>1, <3>2, <2>4, StutterStep
    <2>6. CASE MainCancelled
      <3>1. /\ UNCHANGED <<remaining, owner>> /\ outcome = "none"
            /\ mainPc' = "unwind" /\ outcome' = "cancelled"
        BY <2>6 DEF MainCancelled, taskVars, Lifecycle
      <3> QED BY <3>1, <2>4
    <2>7. CASE MainJoined
      <3>1. UNCHANGED <<remaining, owner>> /\ mainPc' = "done"
        BY <2>7 DEF MainJoined, taskVars
      <3>2. CASE mainPc = "unwind"
        <4>1. UNCHANGED outcome  BY <2>7, <3>2 DEF MainJoined
        <4> QED BY <3>1, <3>2, <4>1, StutterStep
      <3>3. CASE mainPc = "stop"
        <4>1. outcome' = "completed" /\ outcome = "none"
          BY <2>7, <3>3 DEF MainJoined, Lifecycle
        <4>2. Live = {} /\ \A n \in Nodes : remaining[n] = 0
          BY <3>3 DEF CompletedMeansDone
        <4>3. Live' = Live /\ Status = "running" /\ Status' = "completed"
          BY <3>1, <4>1 DEF Live, Status
        <4>4. Promise!Complete
          BY <3>1, <3>3, <4>2, <4>3 DEF Promise!Complete
        <4> QED BY <4>4 DEF Promise!Next
      <3> QED BY <2>7, <3>2, <3>3 DEF MainJoined
    <2> QED BY <1>2, <2>1, <2>2, <2>3, <2>5, <2>6, <2>7 DEF MainStep
  <1>3. ASSUME NEW n \in Nodes, Worker(n)
        PROVE  [Promise!Next]_(Promise!vars)
    <2>0. UNCHANGED <<mainPc, outcome>>
      BY <1>3 DEF Worker, CollectSleep, CollectFirst, CollectBatch, CollectTimeout,
         TakeBatch, AcquireLease, Execute, Fail, Deliver, GrantBudget, GrantPut,
         RouteCancelled, EndBatch, Complete, LeaveFinally, CancelIdle, CancelBusy,
         CancelAdmission, mainVars
    <2>1. ASSUME Running PROVE outcome = "none"
      BY <2>1 DEF Running, Lifecycle
    <2>2. ASSUME pc[n] \in {"execute", "route"} PROVE Live # {}
      BY <2>2, HoldingIsActive DEF Accounting, TasksInPlace, HeldWhileBusy
    <2>3. CASE Deliver(n)
      <3>1. PICK m \in Succ(n), w \in Weights : Enqueue(n, m, w)
        BY <2>3 DEF Deliver
      <3>2. m \in Nodes /\ w \in Nat  BY BoundAssumption DEF Succ
      <3>3. Register(NewTask, m, w)  BY <3>1 DEF Enqueue
      <3>4. Running /\ pc[n] = "route" /\ UNCHANGED remaining  BY <2>3 DEF Deliver
      <3> QED BY <2>0, <2>1, <2>2, <3>2, <3>3, <3>4, EnqueueSpawns
    <2>4. CASE EndBatch(n) /\ MoreItems(n)
      <3>1. Register(NewTask, n, 0)  BY <2>4 DEF EndBatch, Enqueue
      <3>2. Running /\ pc[n] = "route" /\ UNCHANGED remaining  BY <2>4 DEF EndBatch
      <3> QED BY <2>0, <2>1, <2>2, <3>1, <3>2, EnqueueSpawns
    <2>5. CASE Complete(n)
      <3>1. held[n] \in Seq(Tasks) /\ held[n] # <<>>
        BY <2>5 DEF Complete, Accounting, TypeOK
      <3>2. PICK t \in Tasks : t = Head(held[n])
        BY <3>1, HeadTailProperties
      <3>3. owner[t] = n
        BY <3>1, <3>2, ElemsTail DEF Accounting, TasksInPlace, AtOwnNode, TasksOf
      <3>4. Forget(t, n) /\ UNCHANGED remaining
        BY <2>5, <3>2 DEF Complete
      <3> QED BY <2>0, <3>3, <3>4, ForgetFinishes
    <2>6. CASE CancelAdmission(n)
      <3>1. PICK t \in Tasks, m \in Nodes : t = sending[n] /\ m = owner[t]
        BY <2>6 DEF CancelAdmission, Admitting, Accounting, SentIsApart, TasksInPlace,
           Live, TypeOK
      <3>2. Forget(t, m) /\ UNCHANGED remaining
        BY <2>6, <3>1 DEF CancelAdmission
      <3> QED BY <2>0, <3>1, <3>2, ForgetFinishes
    <2>7. CASE Execute(n)
      <3>1. UNCHANGED owner /\ Running /\ pc[n] = "execute"
        BY <2>7 DEF Execute, taskVars
      <3>2. PICK r \in 0..MaxItems :
                /\ IF n \in InputNodes THEN r < remaining[n] ELSE r = 0
                /\ remaining' = [remaining EXCEPT ![n] = r]
        BY <2>7 DEF Execute
      <3>3. Live' = Live /\ Status' = Status /\ Status = "running"
        BY <3>1, <2>0, <2>1 DEF Live, Status
      <3>4. CASE n \in InputNodes
        <4>1. Promise!Take(n)
          BY <3>1, <3>2, <3>3, <3>4, <2>0, <2>2 DEF Promise!Take
        <4> QED BY <4>1 DEF Promise!Next
      <3>5. CASE n \notin InputNodes
        <4>1. UNCHANGED remaining
          BY <3>2, <3>5 DEF Lifecycle, Accounting, TypeOK
        <4> QED BY <2>0, <3>1, <4>1, StutterStep
      <3> QED BY <3>4, <3>5
    <2>8. CASE ~ (\/ Deliver(n) \/ (EndBatch(n) /\ MoreItems(n)) \/ Complete(n)
                  \/ CancelAdmission(n) \/ Execute(n))
      <3>1. UNCHANGED <<remaining, owner>>
        BY <1>3, <2>8 DEF Worker, CollectSleep, CollectFirst, CollectBatch,
           CollectTimeout, TakeBatch, AcquireLease, Fail, GrantBudget, GrantPut,
           RouteCancelled, EndBatch, LeaveFinally, CancelIdle, CancelBusy, taskVars
      <3> QED BY <2>0, <3>1, StutterStep
    <2> QED BY <2>3, <2>4, <2>5, <2>6, <2>7, <2>8
  <1> QED BY <1>1, <1>2, <1>3 DEF Next

(* WindowedScheduler with its queues, budgets, collectors and workers does *)
(* what TaskRun promises: a run creates work only while it runs and only   *)
(* from work that is alive, takes no input item twice, and is completed    *)
(* only at the end.                                                        *)
THEOREM RefinesTaskRun == Spec => ImplementsTaskRun
  <1>1. Init => Promise!Init  BY PromiseInit
  <1>2. Sound /\ [Next]_vars => [Promise!Next]_(Promise!vars)
    BY PromiseStep
  <1> QED BY <1>1, <1>2, RunsAreSound, PTL DEF Spec, ImplementsTaskRun, Promise!Spec

-----------------------------------------------------------------------------
(* What a worker collected is one batch for the planner.                   *)

Fresh == [closed |-> <<>>, current |-> <<>>, bytes |-> 0]
Fills(h, g, c, b, n) ==
    h = [k \in 0..n |-> IF k = 0 THEN Fresh ELSE Planner!Placed(h[k - 1], g[k], c, b)]

(* The loop of build_batches goes through any number of tasks.             *)
LEMMA FillsExists ==
    ASSUME NEW n \in Nat, NEW g, NEW c, NEW b
    PROVE  \E h : Fills(h, g, c, b, n)
  <1> DEFINE T == {k \in 0..n : ~ \E h : Fills(h, g, c, b, k)}
  <1>1. 0 \notin T
    <2> DEFINE h == [k \in 0..0 |-> Fresh]
    <2>1. h = [k \in 0..0 |-> IF k = 0 THEN Fresh
                              ELSE Planner!Placed(h[k - 1], g[k], c, b)]
      OBVIOUS
    <2>2. Fills(h, g, c, b, 0)
      BY <2>1 DEF Fills
    <2> QED BY <2>2
  <1>2. ASSUME NEW m \in 1..n, m \in T, m - 1 \notin T PROVE FALSE
    <2>1. m - 1 \in 0..n /\ m - 1 \in Nat /\ m \in Nat /\ m # 0
      OBVIOUS
    <2>2. PICK u : Fills(u, g, c, b, m - 1)
      BY <1>2, <2>1
    <2>3. \A k \in 0..(m - 1) :
              u[k] = IF k = 0 THEN Fresh ELSE Planner!Placed(u[k - 1], g[k], c, b)
      BY <2>2 DEF Fills
    <2> DEFINE h == [k \in 0..m |-> IF k = m THEN Planner!Placed(u[m - 1], g[m], c, b)
                                    ELSE u[k]]
    <2>4. ASSUME NEW k \in 0..m
          PROVE  h[k] = IF k = 0 THEN Fresh ELSE Planner!Placed(h[k - 1], g[k], c, b)
      <3>1. k # 0 => k - 1 \in 0..m /\ k - 1 # m
        BY <2>1
      <3>2. k # 0 => h[k - 1] = u[k - 1]
        BY <3>1
      <3>3. CASE k = m
        <4>1. h[k] = Planner!Placed(u[m - 1], g[m], c, b)  BY <3>3
        <4> HIDE DEF h
        <4> QED BY <2>1, <3>2, <3>3, <4>1
      <3>4. CASE k # m
        <4>1. k \in 0..(m - 1) /\ h[k] = u[k]  BY <2>1, <3>4
        <4> HIDE DEF h
        <4> QED BY <2>3, <3>2, <4>1
      <3> QED BY <3>3, <3>4
    <2>5. h = [k \in 0..m |-> h[k]]
      OBVIOUS
    <2> HIDE DEF h
    <2>6. Fills(h, g, c, b, m)
      BY <2>4, <2>5 DEF Fills
    <2> QED BY <1>2, <2>6
  <1>3. T = {}
    <2>1. T \in SUBSET (0..n)  OBVIOUS
    <2>2. \A k \in 1..n : k \in T => k - 1 \in T  BY <1>2
    <2> QED BY <1>1, <2>1, <2>2, NoLeast
  <1>4. n \in 0..n  OBVIOUS
  <1> QED BY <1>3, <1>4

(* Tasks within both caps, or a single one, are never split.               *)
LEMMA OneBatch ==
    ASSUME NEW S, NEW g \in Seq(S), NEW c \in Nat, NEW b, g # <<>>, Len(g) <= c,
           NEW sum, sum[0] = 0, \A k \in 1..Len(g) : sum[k] = sum[k - 1] + g[k].weight,
           \A k \in 2..Len(g) : ~(sum[k] > b)
    PROVE  Planner!ByteBatches(g, c, b) = <<g>>
  <1> DEFINE n == Len(g)
             h == CHOOSE u : Fills(u, g, c, b, n)
             Good(k) == h[k] = [closed |-> <<>>, current |-> SubSeq(g, 1, k), bytes |-> sum[k]]
             T == {k \in 0..n : ~Good(k)}
  <1>1. Planner!Filled(g, c, b) = h
    BY DEF Planner!Filled, Fills, Fresh
  <1>2. n \in Nat /\ n > 0 /\ DOMAIN g = 1..n
    BY EmptySeq
  <1>3. Fills(h, g, c, b, n)
    BY <1>2, FillsExists
  <1> HIDE DEF h
  <1>4. \A k \in 0..n : h[k] = IF k = 0 THEN Fresh ELSE Planner!Placed(h[k - 1], g[k], c, b)
    BY <1>3 DEF Fills
  <1>5. 0 \notin T
    <2>1. SubSeq(g, 1, 0) = <<>>
      OBVIOUS
    <2> QED BY <1>2, <1>4, <2>1 DEF Fresh
  <1>6. ASSUME NEW k \in 1..n, k \in T, k - 1 \notin T PROVE FALSE
    <2>1. k - 1 \in 0..n /\ k \in 0..n /\ k # 0 /\ k - 1 < c /\ k - 1 \in Nat
      BY <1>2
    <2>2. Good(k - 1)
      BY <1>6, <2>1
    <2>3. h[k] = Planner!Placed(h[k - 1], g[k], c, b)
      BY <1>4, <2>1
    <2>4. SubSeq(g, 1, k - 1) \in Seq(S) /\ Len(SubSeq(g, 1, k - 1)) = k - 1
      BY <1>2, <2>1
    <2>5. Append(SubSeq(g, 1, k - 1), g[k]) = SubSeq(g, 1, k)
      BY <1>2, <2>1
    <2>6. sum[k] = sum[k - 1] + g[k].weight
      OBVIOUS
    <2> DEFINE st == h[k - 1]
    <2>7. st.closed = <<>> /\ st.current = SubSeq(g, 1, k - 1) /\ st.bytes = sum[k - 1]
      BY <2>2
    <2>8. ~Planner!MustClose(st, g[k], c, b)
      <3>1. CASE k = 1
        <4>1. st.current = <<>>  BY <2>4, <2>7, <3>1, EmptySeq
        <4> QED BY <4>1 DEF Planner!MustClose
      <3>2. CASE k # 1
        <4>1. ~(sum[k] > b)  BY <3>2, <1>2
        <4>2. ~(Len(st.current) >= c)  BY <2>1, <2>4, <2>7
        <4>3. ~(st.bytes + g[k].weight > b)  BY <2>6, <2>7, <4>1
        <4> QED BY <4>2, <4>3 DEF Planner!MustClose
      <3> QED BY <3>1, <3>2
    <2>9. Planner!Placed(st, g[k], c, b)
            = [closed |-> <<>>, current |-> SubSeq(g, 1, k), bytes |-> sum[k]]
      BY <2>5, <2>6, <2>7, <2>8 DEF Planner!Placed
    <2> QED BY <1>6, <2>3, <2>9
  <1>7. T = {}
    <2>1. T \in SUBSET (0..n)  OBVIOUS
    <2>2. \A k \in 1..n : k \in T => k - 1 \in T  BY <1>6
    <2> HIDE DEF T
    <2> QED BY <1>2, <1>5, <2>1, <2>2, NoLeast
  <1>8. Good(n)
    <2>1. n \in 0..n  BY <1>2
    <2> HIDE DEF n, Good
    <2> QED BY <2>1, <1>7
  <1>9. SubSeq(g, 1, n) = g
    BY <1>2
  <1>10. h[n].current = g /\ h[n].closed = <<>>
    BY <1>8, <1>9
  <1>11. Append(<<>>, g) = <<g>>
    OBVIOUS
  <1> QED BY <1>1, <1>10, <1>11 DEF Planner!ByteBatches

(* Only a task without inputs, of an input node, weighs nothing; a worker  *)
(* holds at most a batch.                                                  *)
Weighed == \A t \in Live : weight[t] = 0 <=> owner[t] \in InputNodes
HeldBounded == \A n \in Nodes : Len(held[n]) <= Target[n]
Batched == Weighed /\ HeldBounded

LEMMA WeighedStep ==
    ASSUME TypeOK, Lifecycle, Weighed, [Next]_vars
    PROVE  Weighed'
  <1> DEFINE Same == UNCHANGED <<owner, weight>>
             Comes == \E t \in Tasks, m \in Nodes, w \in Nat :
                          /\ owner' = [owner EXCEPT ![t] = m]
                          /\ weight' = [weight EXCEPT ![t] = w]
                          /\ w = 0 <=> m \in InputNodes
             Goes == \E t \in Tasks :
                          /\ owner' = [owner EXCEPT ![t] = NoNode]
                          /\ weight' = [weight EXCEPT ![t] = 0]
  <1>1. ASSUME NEW m \in Nodes, NEW w \in Nat, Register(NewTask, m, w),
               w = 0 <=> m \in InputNodes
        PROVE  Comes
    <2>1. NewTask \in Tasks
      BY <1>1, FreshTask DEF Register
    <2> QED BY <1>1, <2>1 DEF Register
  <1>2. ASSUME NEW n \in Nodes, NEW m \in Nodes, NEW w \in Nat, Enqueue(n, m, w),
               w = 0 <=> m \in InputNodes
        PROVE  Comes
    BY <1>1, <1>2 DEF Enqueue
  <1>3. ASSUME NEW t, NEW m, Forget(t, m) PROVE Goes \/ Same
    <2>1. CASE t \in Tasks
      BY <1>3, <2>1 DEF Forget
    <2>2. CASE t \notin Tasks
      <3>1. DOMAIN owner = Tasks /\ DOMAIN weight = Tasks
        BY DEF TypeOK
      <3> QED BY <1>3, <2>2, <3>1 DEF Forget, TypeOK
    <2> QED BY <2>1, <2>2
  <1> HIDE DEF Comes, Goes
  <1>4. Same \/ Comes \/ Goes
    <2>1. CASE UNCHANGED vars \/ Ended \/ Cancel
      BY <2>1 DEF vars, taskVars, Ended, Cancel
    <2>2. ASSUME NEW i \in InputNodes, SeedInput(i) PROVE Same \/ Comes
      <3>1. CASE UNCHANGED taskVars  BY <3>1 DEF taskVars
      <3>2. CASE Register(NewTask, i, 0)
        <4>1. i \in Nodes /\ 0 \in Nat  BY GraphAssumption
        <4> QED BY <1>1, <3>2, <4>1
      <3> QED BY <2>2, <3>1, <3>2 DEF SeedInput
    <2>3. CASE MainStep
      BY <2>2, <2>3 DEF MainStep, SeedDone, MainSleep, MainWake, MainCancelled,
         MainJoined, taskVars
    <2>4. ASSUME NEW n \in Nodes, Worker(n) PROVE Same \/ Comes \/ Goes
      <3>1. CASE Deliver(n)
        <4>1. PICK m \in Succ(n), w \in Weights : Enqueue(n, m, w)
          BY <3>1 DEF Deliver
        <4>2. m \in Nodes /\ m \notin InputNodes /\ w \in Nat /\ w # 0
          BY GraphAssumption, BoundAssumption DEF Succ
        <4> QED BY <1>2, <4>1, <4>2
      <3>2. CASE EndBatch(n)
        <4>1. CASE ~MoreItems(n)
          BY <3>2, <4>1 DEF EndBatch, taskVars, Enqueue
        <4>2. CASE MoreItems(n)
          <5>1. n \in InputNodes
            BY <4>2 DEF MoreItems, Lifecycle
          <5>2. Enqueue(n, n, 0)
            BY <3>2, <4>2 DEF EndBatch
          <5>3. 0 \in Nat  OBVIOUS
          <5> QED BY <1>2, <5>1, <5>2, <5>3
        <4> QED BY <4>1, <4>2
      <3>3. CASE Complete(n)
        BY <1>3, <3>3 DEF Complete
      <3>4. CASE CancelAdmission(n)
        BY <1>3, <3>4 DEF CancelAdmission
      <3>5. CASE ~(Deliver(n) \/ EndBatch(n) \/ Complete(n) \/ CancelAdmission(n))
        BY <2>4, <3>5 DEF Worker, CollectSleep, CollectFirst, CollectBatch,
           CollectTimeout, TakeBatch, AcquireLease, Execute, Fail, GrantBudget,
           GrantPut, RouteCancelled, LeaveFinally, CancelIdle, CancelBusy, taskVars
      <3> QED BY <3>1, <3>2, <3>3, <3>4, <3>5
    <2> QED BY <2>1, <2>3, <2>4 DEF Next
  <1>5. owner \in [Tasks -> Nodes \cup {NoNode}] /\ weight \in [Tasks -> Nat]
    BY DEF TypeOK
  <1>6. CASE Same
    BY <1>6 DEF Weighed, Live
  <1>7. CASE Comes
    <2>1. PICK t \in Tasks, m \in Nodes, w \in Nat :
              /\ owner' = [owner EXCEPT ![t] = m]
              /\ weight' = [weight EXCEPT ![t] = w]
              /\ w = 0 <=> m \in InputNodes
      BY <1>7 DEF Comes
    <2>2. /\ owner'[t] = m /\ weight'[t] = w
          /\ \A u \in Tasks \ {t} : owner'[u] = owner[u] /\ weight'[u] = weight[u]
      BY <1>5, <2>1
    <2> QED BY <2>1, <2>2 DEF Weighed, Live
  <1>8. CASE Goes
    <2>1. PICK t \in Tasks : /\ owner' = [owner EXCEPT ![t] = NoNode]
                             /\ weight' = [weight EXCEPT ![t] = 0]
      BY <1>8 DEF Goes
    <2>2. /\ owner'[t] = NoNode
          /\ \A u \in Tasks \ {t} : owner'[u] = owner[u] /\ weight'[u] = weight[u]
      BY <1>5, <2>1
    <2> QED BY <2>2 DEF Weighed, Live
  <1> QED BY <1>4, <1>6, <1>7, <1>8

LEMMA HeldStep ==
    ASSUME TypeOK, HeldBounded, [Next]_vars
    PROVE  HeldBounded'
  <1>1. held \in [Nodes -> Seq(Tasks)] /\ queue \in [Nodes -> Seq(Tasks)]
        /\ Target \in [Nodes -> Nat \ {0}]
    BY BoundAssumption DEF TypeOK
  <1>2. CASE UNCHANGED held
    BY <1>2 DEF HeldBounded
  <1>3. ASSUME NEW n \in Nodes, TakeBatch(n) PROVE HeldBounded'
    <2> DEFINE k == IF Len(queue[n]) < Target[n] THEN Len(queue[n]) ELSE Target[n]
    <2>1. k \in 0..Len(queue[n]) /\ k <= Target[n]
      BY <1>1
    <2>2. held' = [held EXCEPT ![n] = SubSeq(queue[n], 1, k)]
      BY <1>3 DEF TakeBatch
    <2> HIDE DEF k
    <2>3. Len(SubSeq(queue[n], 1, k)) = k
      BY <1>1, <2>1
    <2>4. held'[n] = SubSeq(queue[n], 1, k) /\ \A m \in Nodes \ {n} : held'[m] = held[m]
      BY <1>1, <2>2
    <2> QED BY <2>1, <2>3, <2>4 DEF HeldBounded
  <1>4. ASSUME NEW n \in Nodes, Complete(n) PROVE HeldBounded'
    <2>1. held[n] # <<>> /\ held' = [held EXCEPT ![n] = Tail(@)]
      BY <1>4 DEF Complete
    <2>2. held'[n] = Tail(held[n]) /\ \A m \in Nodes \ {n} : held'[m] = held[m]
      BY <1>1, <2>1
    <2>3. Len(Tail(held[n])) <= Len(held[n]) /\ Len(held[n]) \in Nat
          /\ Len(Tail(held[n])) \in Nat
      BY <1>1, <2>1
    <2>4. Len(held[n]) <= Target[n] /\ Target[n] \in Nat
      BY <1>1 DEF HeldBounded
    <2>5. Len(held'[n]) <= Target[n]
      BY <2>2, <2>3, <2>4
    <2> QED BY <2>2, <2>5 DEF HeldBounded
  <1>5. CASE MainStep \/ Cancel \/ Ended \/ UNCHANGED vars
    BY <1>2, <1>5 DEF MainStep, SeedInput, SeedDone, MainSleep, MainWake,
       MainCancelled, MainJoined, Cancel, Ended, vars
  <1>6. ASSUME NEW n \in Nodes, Worker(n) PROVE HeldBounded'
    <2>1. TakeBatch(n) \/ Complete(n) \/ UNCHANGED held
      BY <1>6 DEF Worker, CollectSleep, CollectFirst, CollectBatch, CollectTimeout,
         AcquireLease, Execute, Fail, Deliver, GrantBudget, GrantPut, RouteCancelled,
         EndBatch, LeaveFinally, CancelIdle, CancelBusy, CancelAdmission
    <2> QED BY <1>2, <1>3, <1>4, <2>1
  <1> QED BY <1>5, <1>6 DEF Next

LEMMA BatchedInit == ASSUME Init PROVE Batched
  <1>1. Weighed  BY DEF Init, Weighed, Live
  <1>2. HeldBounded
    <2>1. \A n \in Nodes : held[n] = <<>> /\ Target[n] \in Nat
      BY BoundAssumption DEF Init
    <2>2. Len(<<>>) = 0  OBVIOUS
    <2> QED BY <2>1, <2>2 DEF HeldBounded
  <1> QED BY <1>1, <1>2 DEF Batched

LEMMA BytesWithin ==
    ASSUME NEW B \in SUBSET Tasks, NEW A \in SUBSET B, NEW w \in [Tasks -> Nat]
    PROVE  /\ Cardinality(Bytes(A, w)) \in Nat /\ Cardinality(Bytes(B, w)) \in Nat
           /\ Cardinality(Bytes(A, w)) <= Cardinality(Bytes(B, w))
  <1>1. IsFiniteSet(Bytes(B, w))  BY BytesFinite
  <1>2. Bytes(A, w) \in SUBSET Bytes(B, w)  BY DEF Bytes
  <1> QED BY <1>1, <1>2, FS_Subset, FS_CardinalityType

(* Admission bounds what a worker holds by the budget, but for one task    *)
(* that is alone.                                                          *)
LEMMA AdmittedTogether ==
    ASSUME Accounting, Weighed, NEW n \in Nodes, NEW A \in SUBSET Admitted(n),
           NEW u \in A, NEW v \in A, u # v
    PROVE  ~(Cardinality(Bytes(A, weight)) > Budget)
  <1>1. weight \in [Tasks -> Nat] /\ Admitted(n) \in SUBSET Tasks /\ Budget \in Nat
        /\ Admitted(n) \subseteq TasksOf(n) /\ TasksOf(n) \subseteq Live
    BY AdmittedTasks, AllFinite, BoundAssumption DEF Accounting, TypeOK
  <1>2. /\ Cardinality(Bytes(A, weight)) \in Nat /\ used[n] \in Nat
        /\ Cardinality(Bytes(A, weight)) <= used[n]
        /\ used[n] = Cardinality(Bytes(Admitted(n), weight))
    BY <1>1, BytesWithin DEF Accounting, BudgetExact
  <1>3. CASE used[n] <= Budget
    BY <1>1, <1>2, <1>3
  <1>4. CASE \E t \in Admitted(n) : used[n] = weight[t]
    <2>1. PICK t \in Admitted(n) : used[n] = weight[t]
      BY <1>4
    <2>2. PICK x \in {u, v} : x # t
      OBVIOUS
    <2>3. x \in Admitted(n) /\ x \in Live /\ t \in Live /\ owner[x] = n /\ owner[t] = n
          /\ weight[x] \in Nat /\ weight[t] \in Nat
      BY <1>1 DEF TasksOf
    <2>4. used[n] >= weight[t] + weight[x]
      BY <1>1, <1>2, <2>2, <2>3, BytesOfTwo
    <2>5. weight[x] = 0
      BY <2>1, <2>3, <2>4
    <2>6. weight[t] = 0
      BY <2>3, <2>5 DEF Weighed
    <2> QED BY <1>1, <1>2, <2>1, <2>6
  <1> QED BY <1>3, <1>4 DEF Accounting, BudgetExact

LEMMA HeldIsOneBatch ==
    ASSUME Accounting, Batched
    PROVE  PlannerKeepsOneBatch
  <1> SUFFICES ASSUME NEW n \in Nodes, held[n] # <<>>
               PROVE  Planner!BuildBatches(Collected(n), PolicyOf(n), Budget)
                        = <<Collected(n)>>
    BY DEF PlannerKeepsOneBatch
  <1> DEFINE s == held[n]
             g == Collected(n)
             A(k) == {s[i] : i \in 1..k}
             sum == [k \in 0..Len(s) |-> Cardinality(Bytes(A(k), weight))]
             Item == [weight : Nat, key : Nat]
  <1>1. /\ s \in Seq(Tasks) /\ weight \in [Tasks -> Nat] /\ Budget \in Nat \ {0}
        /\ Target[n] \in Nat \ {0} /\ Len(s) <= Target[n] /\ Len(s) \in Nat
        /\ DOMAIN s = 1..Len(s) /\ \A i \in 1..Len(s) : s[i] \in Tasks
    BY BoundAssumption DEF Accounting, TypeOK, Batched, HeldBounded
  <1>2. Distinct(s) /\ Elems(s) \subseteq Admitted(n)
    <2>1. Distinct(s) /\ Elems(s) \subseteq TasksOf(n)
      BY DEF Accounting, TasksInPlace, AtOwnNode
    <2>2. ASSUME NEW t \in Elems(s), NEW p \in Nodes, pc[p] = "budget"
          PROVE  sending[p] # t
      BY <2>2 DEF Accounting, TasksInPlace, SentIsApart, Admitting
    <2> QED BY <2>1, <2>2 DEF Admitted
  <1>3. /\ g \in Seq(Item) /\ Len(g) = Len(s)
        /\ \A k \in 1..Len(s) : g[k].weight = weight[s[k]]
    <2>1. \A k \in 1..Len(s) : [weight |-> weight[s[k]], key |-> 0] \in Item
      BY <1>1
    <2>2. g = [i \in 1..Len(s) |-> [weight |-> weight[s[i]], key |-> 0]]
      BY <1>1 DEF Collected
    <2> HIDE DEF g, Item
    <2>3. g \in [1..Len(s) -> Item]
      BY <2>1, <2>2
    <2> DEFINE L == Len(s)
    <2>4. g \in [1..L -> Item] /\ L \in Nat
      BY <1>1, <2>3
    <2> HIDE DEF L
    <2>5. g \in Seq(Item) /\ Len(g) = L
      BY <2>4
    <2> QED BY <2>2, <2>5 DEF L
  <1>4. g # <<>>
    <2>1. Len(s) # 0
      BY <1>1, EmptySeq
    <2> QED BY <1>3, <2>1
  <1>5. sum[0] = 0
    <2>1. Bytes(A(0), weight) = {}
      BY DEF Bytes
    <2>2. Cardinality({}) = 0
      BY FS_EmptySet
    <2>3. 0 \in 0..Len(s)
      BY <1>1
    <2> HIDE DEF A, s
    <2> QED BY <2>1, <2>2, <2>3
  <1>6. ASSUME NEW k \in 1..Len(s)
        PROVE  sum[k] = sum[k - 1] + g[k].weight
    <2>1. k \in 0..Len(s) /\ k - 1 \in 0..Len(s)
      BY <1>1
    <2>2. A(k) = A(k - 1) \cup {s[k]}
      <3>1. 1..k = (1..(k - 1)) \cup {k}
        BY <1>1
      <3> QED BY <3>1
    <2>3. s[k] \notin A(k - 1)
      <3>1. \A i \in 1..(k - 1) : i \in 1..Len(s) /\ i # k
        BY <1>1
      <3> QED BY <1>2, <3>1 DEF Distinct
    <2>4. A(k - 1) \in SUBSET Tasks
      BY <1>1
    <2>5. s[k] \in Tasks
      BY <1>1
    <2> HIDE DEF A
    <2>6. Cardinality(Bytes(A(k - 1) \cup {s[k]}, weight))
            = Cardinality(Bytes(A(k - 1), weight)) + weight[s[k]]
      BY <1>1, <2>3, <2>4, <2>5, BytesAdd
    <2> HIDE DEF g, s
    <2> QED BY <1>3, <2>1, <2>2, <2>6
  <1>7. ASSUME NEW k \in 2..Len(s)
        PROVE  ~(sum[k] > Budget)
    <2>1. k \in 0..Len(s) /\ 1 \in 1..k /\ 2 \in 1..k /\ 1..k \subseteq 1..Len(s)
      BY <1>1
    <2>2. s[1] \in A(k) /\ s[2] \in A(k) /\ s[1] # s[2]
      BY <1>2, <2>1 DEF Distinct
    <2>3. A(k) \in SUBSET Admitted(n)
      BY <1>2, <2>1 DEF Elems
    <2>4. sum[k] = Cardinality(Bytes(A(k), weight))
      BY <2>1
    <2> HIDE DEF A, s, sum
    <2>5. ~(Cardinality(Bytes(A(k), weight)) > Budget)
      BY <2>2, <2>3, AdmittedTogether DEF Batched
    <2> QED BY <2>4, <2>5
  <1>8. Planner!ByteBatches(g, Target[n], Budget) = <<g>>
    <2> HIDE DEF g, s, sum, Item
    <2>1. /\ \A k \in 1..Len(g) : sum[k] = sum[k - 1] + g[k].weight
          /\ \A k \in 2..Len(g) : ~(sum[k] > Budget)
      BY <1>3, <1>6, <1>7
    <2>2. g \in Seq(Item) /\ Target[n] \in Nat /\ Len(g) <= Target[n]
      BY <1>1, <1>3
    <2> QED BY <1>4, <1>5, <2>1, <2>2, OneBatch
  <1>9. Planner!BuildBatches(g, PolicyOf(n), Budget)
          = Planner!ByteBatches(g, Target[n], Budget)
    <2> HIDE DEF g
    <2>1. Planner!CountCap(PolicyOf(n)) = Target[n]
      BY DEF PolicyOf, Planner!CountCap
    <2> QED BY <1>1, <2>1 DEF PolicyOf, Planner!BuildBatches
  <1> QED BY <1>8, <1>9

(* A batch that collect() returned reaches execute() whole: admission and  *)
(* the batch target keep it within both caps of build_batches.             *)
THEOREM CollectedIsOneBatch == Spec => []PlannerKeepsOneBatch
  <1>1. Init => Batched  BY BatchedInit
  <1>2. Sound /\ Batched /\ [Next]_vars => Batched'
    BY WeighedStep, HeldStep DEF Sound, Accounting, Batched
  <1>3. Sound /\ Batched => PlannerKeepsOneBatch
    BY HeldIsOneBatch DEF Sound
  <1> QED BY <1>1, <1>2, <1>3, RunsAreSound, PTL DEF Spec
=============================================================================
