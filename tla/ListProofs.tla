----------------------------- MODULE ListProofs -----------------------------
(***************************************************************************)
(* What the proofs about lists share: least numbers, the elements of a set *)
(* of positions in ascending order, sublists, lists of distinct elements,  *)
(* and flattened lists.                                                    *)
(***************************************************************************)
EXTENDS Sublists, SequencesExt, Integers, FiniteSetTheorems, SequenceTheorems, TLAPS

-----------------------------------------------------------------------------
(* Least numbers.                                                          *)

(* A set of natural numbers that is not empty has a least element.         *)
LEMMA LeastNatural ==
    ASSUME NEW T, T \subseteq Nat, T # {}
    PROVE  \E x \in T : \A y \in T : x <= y
  <1>1. PICK x \in T : \A y \in T : ~ (<<y, x>> \in OpToRel(<, Nat))
    BY NatLessThanWellFounded, WFMin
  <1>2. \A y \in T : ~(y < x)
    BY <1>1 DEF OpToRel
  <1>3. ASSUME NEW y \in T PROVE x <= y
    <2>1. x \in Nat /\ y \in Nat /\ ~(y < x)
      BY <1>2
    <2> QED BY <2>1
  <1> QED BY <1>3

(* What holds of 0, and of k + 1 if of k, holds up to n: T is the set of   *)
(* the numbers of which it does not.                                       *)
LEMMA NoLeast ==
    ASSUME NEW n \in Nat, NEW T \in SUBSET (0..n), 0 \notin T,
           \A k \in 1..n : k \in T => k - 1 \in T
    PROVE  T = {}
  <1> SUFFICES ASSUME T # {} PROVE FALSE
    OBVIOUS
  <1>1. PICK m \in T : \A k \in T : m <= k
    <2>1. T \subseteq Nat  OBVIOUS
    <2> QED BY <2>1, LeastNatural
  <1>2. m \in 1..n /\ ~(m <= m - 1)
    <2>1. m \in 0..n /\ m # 0  BY <1>1
    <2> QED BY <2>1
  <1> QED BY <1>1, <1>2

(* The greatest element of a bounded set of numbers.                       *)
LEMMA Greatest ==
    ASSUME NEW n \in Nat, NEW T \in SUBSET (0..n), T # {}
    PROVE  \E x \in T : \A y \in T : y <= x
  <1> DEFINE D == {n - x : x \in T}
  <1>1. D \subseteq Nat /\ D # {}
    <2>1. \A x \in T : n - x \in Nat  OBVIOUS
    <2> QED BY <2>1
  <1>2. PICK d \in D : \A e \in D : d <= e
    BY <1>1, LeastNatural
  <1>3. PICK x \in T : d = n - x
    OBVIOUS
  <1>4. ASSUME NEW y \in T PROVE y <= x
    <2>1. n - x <= n - y  BY <1>2, <1>3
    <2>2. x \in 0..n /\ y \in 0..n  OBVIOUS
    <2> QED BY <2>1, <2>2
  <1> QED BY <1>4

-----------------------------------------------------------------------------
(* Positions.                                                              *)

(* How many elements of I come up to i.                                    *)
Rank(I, i) == Cardinality({j \in I : j <= i})

LEMMA RankOrder ==
    ASSUME NEW n \in Nat, NEW I \in SUBSET (1..n), NEW i \in I
    PROVE  /\ IsFiniteSet(I) /\ Cardinality(I) \in Nat
           /\ Rank(I, i) \in 1..Cardinality(I)
           /\ \A j \in I : i < j => Rank(I, i) < Rank(I, j)
  <1> DEFINE U(j) == {k \in I : k <= j}
  <1>1. IsFiniteSet(I) /\ Cardinality(I) \in Nat
    <2>1. IsFiniteSet(1..n)  BY FS_Interval
    <2> QED BY <2>1, FS_Subset, FS_CardinalityType
  <1>2. \A j \in I : U(j) \in SUBSET I /\ j \in U(j)
    OBVIOUS
  <1> HIDE DEF U
  <1>3. \A j \in I : /\ IsFiniteSet(U(j)) /\ Cardinality(U(j)) \in Nat
                     /\ Cardinality(U(j)) <= Cardinality(I)
                     /\ Cardinality(U(j)) # 0
    <2> TAKE j \in I
    <2>1. IsFiniteSet(U(j)) /\ Cardinality(U(j)) <= Cardinality(I)
      BY <1>1, <1>2, FS_Subset
    <2> QED BY <1>2, <2>1, FS_CardinalityType, FS_EmptySet
  <1>4. ASSUME NEW j \in I, i < j
        PROVE  Cardinality(U(i)) < Cardinality(U(j))
    <2>1. U(i) \in SUBSET U(j) /\ U(i) # U(j)
      <3>1. i \in Nat /\ j \in Nat /\ ~(j <= i)  BY <1>4
      <3>2. \A k \in I : k <= i => k <= j
        <4> TAKE k \in I
        <4>1. k \in Nat  OBVIOUS
        <4> QED BY <3>1, <4>1
      <3>3. j \notin U(i) /\ j \in U(j)  BY <1>2, <3>1 DEF U
      <3>4. \A k \in U(i) : k \in U(j)  BY <3>2 DEF U
      <3> QED BY <3>3, <3>4
    <2>2. /\ Cardinality(U(i)) <= Cardinality(U(j))
          /\ Cardinality(U(i)) # Cardinality(U(j))
      BY <1>3, <2>1, FS_Subset
    <2> QED BY <1>3, <2>2
  <1>5. \A j \in I : Rank(I, j) = Cardinality(U(j))
    BY DEF Rank, U
  <1> QED BY <1>1, <1>3, <1>4, <1>5

(* Element k of I is the one of rank k: the ranks are 1 to Cardinality(I). *)
LEMMA NthIs ==
    ASSUME NEW n \in Nat, NEW I \in SUBSET (1..n)
    PROVE  /\ IsFiniteSet(I) /\ Cardinality(I) \in Nat
           /\ \A k \in 1..Cardinality(I) : Nth(I, k) \in I /\ Rank(I, Nth(I, k)) = k
           /\ \A i \in I : /\ Rank(I, i) \in 1..Cardinality(I)
                           /\ Nth(I, Rank(I, i)) = i
  <1> DEFINE c == Cardinality(I)
             r == [i \in I |-> Rank(I, i)]
  <1>1. IsFiniteSet(I) /\ c \in Nat
    <2>1. IsFiniteSet(1..n)  BY FS_Interval
    <2> QED BY <2>1, FS_Subset, FS_CardinalityType
  <1>2. r \in [I -> 1..c]
    BY RankOrder
  <1>3. ASSUME NEW i \in I, NEW j \in I, Rank(I, i) = Rank(I, j) PROVE i = j
    <2>1. /\ Rank(I, i) \in 1..c /\ Rank(I, j) \in 1..c
          /\ i < j => Rank(I, i) < Rank(I, j)
          /\ j < i => Rank(I, j) < Rank(I, i)
      BY RankOrder
    <2> HIDE DEF c
    <2>2. i \in Nat /\ j \in Nat  OBVIOUS
    <2>3. Rank(I, i) \in Nat  BY <1>1, <2>1
    <2> QED BY <1>3, <2>1, <2>2, <2>3
  <1>4. r \in Injection(I, 1..c)
    BY <1>2, <1>3 DEF Injection, IsInjective
  <1>5. IsFiniteSet(1..c) /\ Cardinality(1..c) = c
    <2>1. 1 \in Int /\ c \in Int /\ c - 1 + 1 = c /\ (1 > c => c = 0)
      BY <1>1
    <2> HIDE DEF c
    <2> QED BY <2>1, FS_Interval
  <1>6. r \in Surjection(I, 1..c)
    BY <1>4, <1>5, FS_Injection
  <1>7. \A k \in 1..c : \E i \in I : Rank(I, i) = k
    BY <1>6 DEF Surjection
  <1>8. \A k : Nth(I, k) = CHOOSE i \in I : Rank(I, i) = k
    BY DEF Nth, Rank
  <1>9. ASSUME NEW k \in 1..c PROVE Nth(I, k) \in I /\ Rank(I, Nth(I, k)) = k
    BY <1>7, <1>8
  <1>10. ASSUME NEW i \in I PROVE Rank(I, i) \in 1..c /\ Nth(I, Rank(I, i)) = i
    <2>1. Rank(I, i) \in 1..c  BY RankOrder
    <2> QED BY <1>3, <1>9, <2>1
  <1> QED BY <1>1, <1>9, <1>10

(* What a sublist is: it keeps the elements at the positions, and a list   *)
(* of distinct elements distinct.                                          *)
LEMMA SublistIs ==
    ASSUME NEW S, NEW s \in Seq(S), NEW I \in SUBSET DOMAIN s
    PROVE  /\ Sublist(s, I) \in Seq(S)
           /\ Cardinality(I) \in Nat /\ Len(Sublist(s, I)) = Cardinality(I)
           /\ DOMAIN Sublist(s, I) = 1..Cardinality(I)
           /\ \A k \in 1..Cardinality(I) :
                 /\ Nth(I, k) \in I /\ Rank(I, Nth(I, k)) = k
                 /\ Sublist(s, I)[k] = s[Nth(I, k)]
           /\ \A i \in I : /\ Rank(I, i) \in 1..Cardinality(I)
                           /\ Sublist(s, I)[Rank(I, i)] = s[i]
           /\ ToSet(Sublist(s, I)) = {s[i] : i \in I}
           /\ IsInjective(s) => IsInjective(Sublist(s, I))
  <1> DEFINE c == Cardinality(I)
             t == Sublist(s, I)
  <1>0. Len(s) \in Nat /\ I \in SUBSET (1..Len(s)) /\ DOMAIN s = 1..Len(s)
    OBVIOUS
  <1>1. /\ c \in Nat
        /\ \A k \in 1..c : Nth(I, k) \in I /\ Rank(I, Nth(I, k)) = k
        /\ \A i \in I : Rank(I, i) \in 1..c /\ Nth(I, Rank(I, i)) = i
    BY <1>0, NthIs
  <1>2. t = [k \in 1..c |-> s[Nth(I, k)]]
    BY DEF Sublist
  <1>3. \A i \in I : s[i] \in S
    BY <1>0
  <1> HIDE DEF t, c
  <1>4. t \in [1..c -> S]
    BY <1>1, <1>2, <1>3
  <1>5. t \in Seq(S) /\ Len(t) = c /\ DOMAIN t = 1..c
    BY <1>1, <1>4
  <1>6. \A k \in 1..c : t[k] = s[Nth(I, k)]
    BY <1>2
  <1>7. \A i \in I : Rank(I, i) \in 1..c /\ t[Rank(I, i)] = s[i]
    BY <1>1, <1>6
  <1>8. ToSet(t) = {s[i] : i \in I}
    BY <1>1, <1>5, <1>6, <1>7 DEF ToSet
  <1>9. ASSUME IsInjective(s) PROVE IsInjective(t)
    <2> SUFFICES ASSUME NEW j \in 1..c, NEW k \in 1..c, t[j] = t[k] PROVE j = k
      BY <1>5 DEF IsInjective
    <2>1. Nth(I, j) = Nth(I, k)
      BY <1>0, <1>1, <1>6, <1>9 DEF IsInjective
    <2> QED BY <1>1, <2>1
  <1> QED BY <1>1, <1>5, <1>6, <1>7, <1>8, <1>9 DEF c, t

(* The elements at positions that differ in what they hold are distinct.   *)
LEMMA SublistDistinct ==
    ASSUME NEW S, NEW s \in Seq(S), NEW I \in SUBSET DOMAIN s,
           \A i, j \in I : s[i] = s[j] => i = j
    PROVE  IsInjective(Sublist(s, I))
  <1> DEFINE c == Cardinality(I)
             t == Sublist(s, I)
  <1>1. /\ DOMAIN t = 1..c
        /\ \A k \in 1..c : Nth(I, k) \in I /\ Rank(I, Nth(I, k)) = k /\ t[k] = s[Nth(I, k)]
    BY SublistIs
  <1> HIDE DEF t, c
  <1> SUFFICES ASSUME NEW j \in 1..c, NEW k \in 1..c, t[j] = t[k] PROVE j = k
    BY <1>1 DEF IsInjective, t
  <1>2. Nth(I, j) = Nth(I, k)
    BY <1>1
  <1> QED BY <1>1, <1>2

(* A list of distinct elements is as long as it has elements.              *)
LEMMA DistinctLength ==
    ASSUME NEW S, NEW s \in Seq(S), IsInjective(s)
    PROVE  /\ IsFiniteSet(ToSet(s)) /\ Cardinality(ToSet(s)) = Len(s) /\ Len(s) \in Nat
           /\ ToSet(s) \subseteq S
  <1> DEFINE n == Len(s)
  <1>1. n \in Nat /\ DOMAIN s = 1..n /\ \A i \in 1..n : s[i] \in S
    OBVIOUS
  <1>2. s \in [1..n -> ToSet(s)]
    <2>1. s = [i \in 1..n |-> s[i]]
      BY <1>1
    <2>2. \A i \in 1..n : s[i] \in ToSet(s)
      BY <1>1 DEF ToSet
    <2> HIDE DEF n
    <2> QED BY <2>1, <2>2
  <1>3. s \in Bijection(1..n, ToSet(s))
    <2>1. \A t \in ToSet(s) : \E i \in 1..n : s[i] = t
      BY <1>1 DEF ToSet
    <2>2. s \in Injection(1..n, ToSet(s))
      BY <1>1, <1>2 DEF Injection, IsInjective
    <2> QED BY <1>2, <2>1, <2>2 DEF Bijection, Surjection
  <1>4. IsFiniteSet(1..n) /\ Cardinality(1..n) = n
    <2>1. 1 \in Int /\ n \in Int /\ n - 1 + 1 = n /\ (1 > n => n = 0)
      BY <1>1
    <2> HIDE DEF n
    <2> QED BY <2>1, FS_Interval
  <1>5. IsFiniteSet(ToSet(s)) /\ Cardinality(ToSet(s)) = n
    <2>1. ExistsBijection(1..n, ToSet(s))
      BY <1>3 DEF ExistsBijection
    <2> QED BY <1>4, <2>1, FS_Bijection
  <1> QED BY <1>1, <1>5 DEF ToSet

(* Two lists of distinct elements with none in common, one after the other.*)
LEMMA ConcatDistinct ==
    ASSUME NEW S, NEW s \in Seq(S), NEW t \in Seq(S)
    PROVE  /\ s \o t \in Seq(S) /\ DOMAIN (s \o t) = 1..(Len(s) + Len(t))
           /\ Len(s) \in Nat /\ Len(t) \in Nat
           /\ \A i \in DOMAIN s : i \in DOMAIN (s \o t) /\ (s \o t)[i] = s[i]
           /\ \A i \in DOMAIN (s \o t) :
                 \/ i \in DOMAIN s /\ (s \o t)[i] = s[i]
                 \/ /\ i > Len(s) /\ i - Len(s) \in DOMAIN t
                    /\ (s \o t)[i] = t[i - Len(s)]
           /\ ToSet(s \o t) = ToSet(s) \cup ToSet(t)
           /\ IsInjective(s) /\ IsInjective(t) /\ ToSet(s) \cap ToSet(t) = {}
                 => IsInjective(s \o t)
  <1> DEFINE u == s \o t
             a == Len(s)
             b == Len(t)
  <1>1. a \in Nat /\ b \in Nat /\ DOMAIN s = 1..a /\ DOMAIN t = 1..b
    OBVIOUS
  <1>2. /\ u \in Seq(S) /\ DOMAIN u = 1..(a + b)
        /\ \A i \in 1..(a + b) : u[i] = IF i <= a THEN s[i] ELSE t[i - a]
    BY ConcatProperties, LenProperties
  <1> HIDE DEF u, a, b
  <1>3. /\ \A i \in 1..a : i \in 1..(a + b) /\ u[i] = s[i]
        /\ \A j \in 1..b : a + j \in 1..(a + b) /\ u[a + j] = t[j]
        /\ \A i \in 1..(a + b) : \/ i \in 1..a /\ u[i] = s[i]
                                 \/ i > a /\ i - a \in 1..b /\ u[i] = t[i - a]
    <2>1. \A j \in 1..b : a + j \in 1..(a + b) /\ ~ (a + j <= a) /\ (a + j) - a = j
      BY <1>1
    <2> QED BY <1>1, <1>2, <2>1
  <1>4. ToSet(u) = ToSet(s) \cup ToSet(t)
    BY <1>1, <1>2, <1>3 DEF ToSet
  <1>5. ASSUME IsInjective(s), IsInjective(t), ToSet(s) \cap ToSet(t) = {}
        PROVE  IsInjective(u)
    <2> SUFFICES ASSUME NEW i \in 1..(a + b), NEW j \in 1..(a + b), u[i] = u[j] PROVE i = j
      BY <1>2 DEF IsInjective
    <2>1. \A k \in 1..a : \A l \in 1..b : s[k] # t[l]
      BY <1>1, <1>5 DEF ToSet
    <2>2. \/ i \in 1..a /\ j \in 1..a /\ s[i] = s[j]
          \/ i - a \in 1..b /\ j - a \in 1..b /\ t[i - a] = t[j - a]
      BY <1>3, <2>1
    <2>3. i = j \/ i - a = j - a
      BY <1>1, <1>5, <2>2 DEF IsInjective
    <2> QED BY <1>1, <2>3
  <1> QED BY <1>1, <1>2, <1>3, <1>4, <1>5 DEF u, a, b

LEMMA TailDistinct ==
    ASSUME NEW S, NEW s \in Seq(S), s # <<>>, IsInjective(s)
    PROVE  /\ Head(s) \in S /\ Head(s) \in ToSet(s) /\ Tail(s) \in Seq(S)
           /\ IsInjective(Tail(s)) /\ ToSet(Tail(s)) = ToSet(s) \ {Head(s)}
  <1> DEFINE n == Len(s)
             t == Tail(s)
  <1>1. n \in Nat /\ n > 0 /\ DOMAIN s = 1..n /\ Head(s) = s[1] /\ Head(s) \in S
    OBVIOUS
  <1>2. t \in Seq(S) /\ DOMAIN t = 1..(n - 1) /\ \A i \in 1..(n - 1) : t[i] = s[i + 1]
    BY <1>1, HeadTailProperties, LenProperties
  <1> HIDE DEF n, t
  <1>3. /\ 1 \in 1..n /\ \A i \in 1..(n - 1) : i + 1 \in 1..n /\ i + 1 # 1
        /\ \A i \in 1..n : i = 1 \/ (i - 1 \in 1..(n - 1) /\ i = (i - 1) + 1)
    BY <1>1
  <1>d. ASSUME NEW i \in 1..(n - 1), NEW j \in 1..(n - 1)
        PROVE  t[i] # s[1] /\ (t[i] = t[j] => i + 1 = j + 1)
    <2>1. \A k \in 1..n : \A l \in 1..n : s[k] = s[l] => k = l
      BY <1>1 DEF IsInjective
    <2>2. /\ i + 1 \in 1..n /\ i + 1 # 1 /\ j + 1 \in 1..n /\ 1 \in 1..n
          /\ t[i] = s[i + 1] /\ t[j] = s[j + 1]
      BY <1>2, <1>3
    <2> QED BY <2>1, <2>2
  <1>4. ToSet(t) = ToSet(s) \ {Head(s)}
    <2>1. ASSUME NEW x \in ToSet(t) PROVE x \in ToSet(s) \ {Head(s)}
      <3>1. PICK i \in 1..(n - 1) : x = t[i]
        BY <1>2 DEF ToSet
      <3>2. x = s[i + 1] /\ i + 1 \in 1..n
        BY <1>2, <1>3, <3>1
      <3>3. x # s[1]
        BY <1>d, <3>1
      <3> QED BY <1>1, <3>2, <3>3 DEF ToSet
    <2>2. ASSUME NEW x \in ToSet(s) \ {Head(s)} PROVE x \in ToSet(t)
      <3>1. PICK i \in 1..n : x = s[i]
        BY <1>1 DEF ToSet
      <3>2. i - 1 \in 1..(n - 1) /\ i = (i - 1) + 1
        BY <1>1, <1>3, <3>1
      <3>3. x = t[i - 1]
        BY <1>2, <3>1, <3>2
      <3> QED BY <1>2, <3>2, <3>3 DEF ToSet
    <2> QED BY <2>1, <2>2
  <1>5. IsInjective(t)
    <2> SUFFICES ASSUME NEW i \in 1..(n - 1), NEW j \in 1..(n - 1), t[i] = t[j] PROVE i = j
      BY <1>2 DEF IsInjective
    <2>1. i + 1 = j + 1
      BY <1>d
    <2> QED BY <2>1
  <1> QED BY <1>1, <1>2, <1>3, <1>4, <1>5 DEF t, ToSet

(* A list of distinct elements of a finite set, as long as that is large,  *)
(* has all of them.                                                        *)
LEMMA DistinctCovers ==
    ASSUME NEW S, IsFiniteSet(S), NEW s \in Seq(S), IsInjective(s)
    PROVE  Len(s) = Cardinality(S) <=> ToSet(s) = S
  BY DistinctLength, FS_Subset

-----------------------------------------------------------------------------
(* Flattened lists.                                                        *)

(* h flattens the first n of ss.                                           *)
Flattens(h, ss, n) ==
    h = [i \in 1..n |-> IF i = 1 THEN ss[i] ELSE h[i - 1] \o ss[i]]

LEMMA FlattensExists ==
    ASSUME NEW S, NEW ss \in Seq(Seq(S)), NEW n \in 0..Len(ss)
    PROVE  \E h : Flattens(h, ss, n)
  <1> DEFINE T == {k \in 0..n : ~ \E h : Flattens(h, ss, k)}
  <1>1. 0 \notin T
    <2> DEFINE h == [i \in 1..0 |-> ss[i]]
    <2>1. Flattens(h, ss, 0)  BY DEF Flattens
    <2> QED BY <2>1
  <1>2. ASSUME NEW m \in 1..n, m \in T, m - 1 \notin T PROVE FALSE
    <2>1. m - 1 \in 0..n /\ m \in Nat  OBVIOUS
    <2>2. PICK g : Flattens(g, ss, m - 1)
      BY <1>2, <2>1
    <2>3. \A i \in 1..(m - 1) : g[i] = IF i = 1 THEN ss[i] ELSE g[i - 1] \o ss[i]
      BY <2>2 DEF Flattens
    <2> DEFINE h == [i \in 1..m |-> IF i # m THEN g[i]
                                   ELSE IF i = 1 THEN ss[i] ELSE g[i - 1] \o ss[i]]
    <2>4. ASSUME NEW i \in 1..m
          PROVE  h[i] = IF i = 1 THEN ss[i] ELSE h[i - 1] \o ss[i]
      <3>1. i # 1 => i - 1 \in 1..m /\ i - 1 # m  BY <2>1
      <3>2. i # 1 => h[i - 1] = g[i - 1]  BY <3>1
      <3>3. CASE i = m  BY <3>2, <3>3
      <3>4. CASE i # m
        <4>1. i \in 1..(m - 1) /\ h[i] = g[i]  BY <2>1, <3>4
        <4> HIDE DEF h
        <4> QED BY <2>3, <3>2, <4>1
      <3> QED BY <3>3, <3>4
    <2>5. DOMAIN h = 1..m /\ h = [i \in DOMAIN h |-> h[i]]
      OBVIOUS
    <2> HIDE DEF h
    <2>6. Flattens(h, ss, m)
      BY <2>4, <2>5 DEF Flattens
    <2> QED BY <1>2, <2>6
  <1>3. T = {}
    <2>1. T \in SUBSET (0..n) /\ n \in Nat  OBVIOUS
    <2>2. \A k \in 1..n : k \in T => k - 1 \in T  BY <1>2
    <2> QED BY <1>1, <2>1, <2>2, NoLeast
  <1>4. n \in 0..n  OBVIOUS
  <1> QED BY <1>3, <1>4

LEMMA FlattenTyped ==
    ASSUME NEW S, NEW ss \in Seq(Seq(S))
    PROVE  FlattenSeq(ss) \in Seq(S)
  <1> DEFINE n == Len(ss)
             h == CHOOSE u : Flattens(u, ss, n)
             T == {k \in 0..n : k # 0 /\ h[k] \notin Seq(S)}
  <1>1. n \in Nat /\ n \in 0..n /\ \A i \in 1..n : ss[i] \in Seq(S)
    OBVIOUS
  <1>2. FlattenSeq(ss) = IF n = 0 THEN ss ELSE h[n]
    BY DEF FlattenSeq, Flattens
  <1>3. Flattens(h, ss, n)
    BY <1>1, FlattensExists
  <1> HIDE DEF h
  <1>4. \A i \in 1..n : h[i] = IF i = 1 THEN ss[i] ELSE h[i - 1] \o ss[i]
    BY <1>3 DEF Flattens
  <1>5. ASSUME NEW k \in 1..n, k - 1 \notin T PROVE k \notin T
    <2>1. k = 1 \/ (k - 1 \in 0..n /\ k - 1 # 0)  BY <1>1
    <2>2. ss[k] \in Seq(S)  BY <1>1
    <2>3. k = 1 \/ h[k - 1] \in Seq(S)  BY <1>5, <2>1
    <2>4. h[k] = IF k = 1 THEN ss[k] ELSE h[k - 1] \o ss[k]  BY <1>4
    <2>5. h[k] \in Seq(S)  BY <2>2, <2>3, <2>4
    <2> QED BY <2>5
  <1>6. T = {}
    <2>1. T \in SUBSET (0..n) /\ 0 \notin T  OBVIOUS
    <2> HIDE DEF T
    <2> QED BY <1>1, <1>5, <2>1, NoLeast
  <1>7. n = 0 => ss = <<>> /\ <<>> \in Seq(S)
    OBVIOUS
  <1> QED BY <1>1, <1>2, <1>6, <1>7

(* Every element of a flattened list is an element of one of the lists.    *)
LEMMA FlattenIs ==
    ASSUME NEW S, NEW ss \in Seq(Seq(S))
    PROVE  /\ FlattenSeq(ss) \in Seq(S)
           /\ \A k \in DOMAIN FlattenSeq(ss) : \E i \in DOMAIN ss :
                 \E j \in DOMAIN ss[i] : FlattenSeq(ss)[k] = ss[i][j]
  <1> DEFINE T == UNION {{ss[i][j] : j \in DOMAIN ss[i]} : i \in DOMAIN ss}
             f == FlattenSeq(ss)
  <1>1. ASSUME NEW i \in DOMAIN ss PROVE ss[i] \in Seq(T)
    <2>1. ss[i] \in Seq(S)  OBVIOUS
    <2>2. \A j \in DOMAIN ss[i] : ss[i][j] \in T  OBVIOUS
    <2> HIDE DEF T
    <2> QED BY <2>1, <2>2
  <1>2. ss \in Seq(Seq(T))
    <2>1. Len(ss) \in Nat /\ DOMAIN ss = 1..Len(ss) /\ ss = [i \in DOMAIN ss |-> ss[i]]
      OBVIOUS
    <2> HIDE DEF T
    <2>2. ss \in [1..Len(ss) -> Seq(T)]  BY <1>1, <2>1
    <2> QED BY <2>1, <2>2, IsASeq
  <1> HIDE DEF T
  <1>3. f \in Seq(T)
    BY <1>2, FlattenTyped
  <1>4. f \in Seq(S)
    BY FlattenTyped
  <1> HIDE DEF f
  <1>5. \A k \in DOMAIN f : f[k] \in T
    BY <1>3
  <1> QED BY <1>4, <1>5 DEF f, T

(* What Append gives, place by place.                                      *)
LEMMA AppendIs ==
    ASSUME NEW S, NEW s \in Seq(S), NEW x \in S
    PROVE  /\ Append(s, x) \in Seq(S) /\ Len(s) \in Nat
           /\ Len(Append(s, x)) = Len(s) + 1
           /\ DOMAIN Append(s, x) = 1..(Len(s) + 1) /\ DOMAIN s = 1..Len(s)
           /\ \A i \in 1..Len(s) : Append(s, x)[i] = s[i]
           /\ Append(s, x)[Len(s) + 1] = x
  <1> DEFINE t == Append(s, x)
  <1>1. /\ t \in Seq(S) /\ Len(t) = Len(s) + 1
        /\ \A i \in 1..Len(s) : t[i] = s[i]
        /\ t[Len(s) + 1] = x
    BY AppendProperties
  <1>2. Len(s) \in Nat /\ DOMAIN s = 1..Len(s)
    BY LenProperties
  <1> HIDE DEF t
  <1>3. DOMAIN t = 1..Len(t)
    BY <1>1, LenProperties
  <1> QED BY <1>1, <1>2, <1>3 DEF t
=============================================================================
