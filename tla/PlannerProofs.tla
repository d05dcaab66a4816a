---------------------------- MODULE PlannerProofs ----------------------------
(***************************************************************************)
(* build_batches, for every list of tasks and every policy: the plan is a  *)
(* partition within the caps, and no partition within them is shorter.     *)
(***************************************************************************)
EXTENDS BatchPlans, ListProofs

-----------------------------------------------------------------------------
(* Sums.                                                                   *)

(* h adds up f as far as n.                                                *)
Adds(h, f, n) ==
    /\ h \in [0..n -> Nat] /\ h[0] = 0
    /\ \A k \in 1..n : h[k] = h[k - 1] + f[k]

Sums(h, f, n) == h = [i \in 0..n |-> IF i = 0 THEN 0 ELSE h[i - 1] + f[i]]

LEMMA AddsSums ==
    ASSUME NEW n \in Nat, NEW f, NEW h, Adds(h, f, n)
    PROVE  Sums(h, f, n)
  <1>1. ASSUME NEW k \in 0..n
        PROVE  h[k] = IF k = 0 THEN 0 ELSE h[k - 1] + f[k]
    <2>1. k = 0 \/ k \in 1..n  OBVIOUS
    <2> QED BY <2>1 DEF Adds
  <1> QED BY <1>1 DEF Adds, Sums

(* The sums of f are the only function that adds it up.                    *)
LEMMA SumsAgree ==
    ASSUME NEW n \in Nat, NEW f, NEW g, NEW h, Adds(g, f, n), Sums(h, f, n)
    PROVE  \A k \in 0..n : h[k] = g[k]
  <1> DEFINE T == {k \in 0..n : h[k] # g[k]}
  <1>1. \A k \in 0..n : h[k] = IF k = 0 THEN 0 ELSE h[k - 1] + f[k]
    BY DEF Sums
  <1>2. 0 \notin T
    BY <1>1 DEF Adds
  <1>3. ASSUME NEW k \in 1..n, k \in T PROVE k - 1 \in T
    <2>1. k \in 0..n /\ k - 1 \in 0..n /\ k # 0  OBVIOUS
    <2>2. h[k] = h[k - 1] + f[k] /\ g[k] = g[k - 1] + f[k]
      BY <1>1, <2>1 DEF Adds
    <2> QED BY <1>3, <2>1, <2>2
  <1>4. T = {}
    BY <1>2, <1>3, NoLeast
  <1> QED BY <1>4

LEMMA SumToIs ==
    ASSUME NEW n \in Nat, NEW f, NEW g, Adds(g, f, n)
    PROVE  SumTo(f, n) = g[n]
  <1> DEFINE h == CHOOSE u : Sums(u, f, n)
  <1>1. SumTo(f, n) = h[n]
    BY DEF SumTo, Sums
  <1>2. Sums(g, f, n)
    BY AddsSums
  <1>3. Sums(h, f, n)
    BY <1>2
  <1> HIDE DEF h
  <1> QED BY <1>1, <1>3, SumsAgree

LEMMA AddsExists ==
    ASSUME NEW n \in Nat, NEW f, \A k \in 1..n : f[k] \in Nat
    PROVE  \E h : Adds(h, f, n)
  <1> DEFINE T == {k \in 0..n : ~ \E h : Adds(h, f, k)}
  <1>1. 0 \notin T
    <2> DEFINE h == [k \in 0..0 |-> 0]
    <2>1. Adds(h, f, 0)  BY DEF Adds
    <2> QED BY <2>1
  <1>2. ASSUME NEW m \in 1..n, m \in T, m - 1 \notin T PROVE FALSE
    <2>1. m - 1 \in 0..n /\ m - 1 \in Nat /\ m \in Nat
      OBVIOUS
    <2>2. PICK g : Adds(g, f, m - 1)
      BY <1>2, <2>1
    <2> DEFINE h == [k \in 0..m |-> IF k = m THEN g[m - 1] + f[m] ELSE g[k]]
    <2>3. f[m] \in Nat /\ g[m - 1] \in Nat
      <3>1. m - 1 \in 0..(m - 1)  BY <2>1
      <3> QED BY <2>2, <3>1 DEF Adds
    <2>4. h \in [0..m -> Nat]
      <3>1. ASSUME NEW k \in 0..m PROVE h[k] \in Nat
        <4>1. k = m \/ k \in 0..(m - 1)  BY <2>1
        <4> QED BY <2>2, <2>3, <4>1 DEF Adds
      <3> QED BY <3>1
    <2>5. h[0] = 0
      <3>1. 0 \in 0..m /\ 0 # m  BY <2>1
      <3> QED BY <2>2, <3>1 DEF Adds
    <2>6. ASSUME NEW k \in 1..m PROVE h[k] = h[k - 1] + f[k]
      <3>1. k \in 0..m /\ k - 1 \in 0..m /\ k - 1 # m  OBVIOUS
      <3>2. h[k - 1] = g[k - 1]  BY <3>1
      <3>3. CASE k = m  BY <3>1, <3>2, <3>3
      <3>4. CASE k # m
        <4>1. k \in 1..(m - 1)  BY <3>4
        <4> QED BY <2>2, <3>1, <3>2, <3>4, <4>1 DEF Adds
      <3> QED BY <3>3, <3>4
    <2>7. Adds(h, f, m)
      BY <2>4, <2>5, <2>6 DEF Adds
    <2> QED BY <1>2, <2>7
  <1>3. T = {}
    <2>1. T \in SUBSET (0..n)  OBVIOUS
    <2>2. \A k \in 1..n : k \in T => k - 1 \in T  BY <1>2
    <2> QED BY <1>1, <2>1, <2>2, NoLeast
  <1>4. n \in 0..n  OBVIOUS
  <1> QED BY <1>3, <1>4

(* How sums grow.                                                          *)
LEMMA SumSteps ==
    ASSUME NEW n \in Nat, NEW f, \A k \in 1..n : f[k] \in Nat
    PROVE  /\ SumTo(f, 0) = 0
           /\ \A k \in 0..n : SumTo(f, k) \in Nat
           /\ \A k \in 1..n : SumTo(f, k) = SumTo(f, k - 1) + f[k]
  <1>1. PICK h : Adds(h, f, n)
    BY AddsExists
  <1>2. ASSUME NEW k \in 0..n PROVE SumTo(f, k) = h[k] /\ h[k] \in Nat
    <2> DEFINE g == [i \in 0..k |-> h[i]]
    <2>1. k \in Nat /\ 0..k \subseteq 0..n /\ 1..k \subseteq 1..n
      OBVIOUS
    <2>2. g \in [0..k -> Nat]  BY <1>1, <2>1 DEF Adds
    <2>3. g[0] = 0  BY <1>1, <2>1 DEF Adds
    <2>4. ASSUME NEW i \in 1..k PROVE g[i] = g[i - 1] + f[i]
      <3>1. i \in 0..k /\ i - 1 \in 0..k /\ i \in 1..n  BY <2>1
      <3>2. h[i] = h[i - 1] + f[i]  BY <1>1, <3>1 DEF Adds
      <3> QED BY <3>1, <3>2
    <2>5. Adds(g, f, k)  BY <2>2, <2>3, <2>4 DEF Adds
    <2>6. k \in 0..k  BY <2>1
    <2>7. SumTo(f, k) = g[k]
      <3> HIDE DEF g
      <3> QED BY <2>1, <2>5, SumToIs
    <2> QED BY <1>1, <2>6, <2>7 DEF Adds
  <1>3. 0 \in 0..n /\ h[0] = 0
    BY <1>1 DEF Adds
  <1>4. ASSUME NEW k \in 1..n PROVE SumTo(f, k) = SumTo(f, k - 1) + f[k]
    <2>1. k \in 0..n /\ k - 1 \in 0..n  OBVIOUS
    <2>2. h[k] = h[k - 1] + f[k]  BY <1>1 DEF Adds
    <2> QED BY <1>2, <2>1, <2>2
  <1> QED BY <1>2, <1>3, <1>4

-----------------------------------------------------------------------------
(* The weight of the first k tasks of g, and of slices of g.               *)

Weights(g) == [i \in DOMAIN g |-> g[i].weight]
Weight(g, k) == SumTo(Weights(g), k)

LEMMA WeightSteps ==
    ASSUME NEW g \in Seq(Task)
    PROVE  /\ Weight(g, 0) = 0
           /\ \A k \in 0..Len(g) : Weight(g, k) \in Nat
           /\ \A k \in 1..Len(g) :
                 /\ g[k].weight \in Nat
                 /\ Weight(g, k) = Weight(g, k - 1) + g[k].weight
  <1> DEFINE n == Len(g)
             w == Weights(g)
  <1>1. n \in Nat /\ DOMAIN g = 1..n
    OBVIOUS
  <1>2. \A k \in 1..n : w[k] = g[k].weight /\ g[k].weight \in Nat
    <2> TAKE k \in 1..n
    <2>1. g[k] \in Task  OBVIOUS
    <2> QED BY <1>1, <2>1 DEF Task, Weights
  <1> HIDE DEF n, w
  <1>3. /\ SumTo(w, 0) = 0
        /\ \A k \in 0..n : SumTo(w, k) \in Nat
        /\ \A k \in 1..n : SumTo(w, k) = SumTo(w, k - 1) + w[k]
    BY <1>1, <1>2, SumSteps
  <1> QED BY <1>2, <1>3 DEF n, w, Weight

LEMMA WeightGrows ==
    ASSUME NEW g \in Seq(Task), NEW b \in 0..Len(g), NEW a \in 0..b
    PROVE  Weight(g, a) <= Weight(g, b)
  <1> DEFINE n == Len(g)
             T == {k \in 0..b : a <= k /\ ~(Weight(g, a) <= Weight(g, k))}
  <1>1. n \in Nat /\ b \in Nat /\ 0..b \subseteq 0..n /\ a \in Nat /\ a <= b
    OBVIOUS
  <1>2. /\ \A k \in 0..n : Weight(g, k) \in Nat
        /\ \A k \in 1..n : /\ g[k].weight \in Nat
                          /\ Weight(g, k) = Weight(g, k - 1) + g[k].weight
    BY WeightSteps
  <1> HIDE DEF n
  <1>3. 0 \notin T
    <2>1. a <= 0 => a = 0  BY <1>1
    <2>2. Weight(g, 0) <= Weight(g, 0)  BY <1>1, <1>2
    <2> QED BY <2>1, <2>2
  <1>4. ASSUME NEW k \in 1..b, k \in T PROVE k - 1 \in T
    <2>1. k \in 0..b /\ k - 1 \in 0..b /\ k \in 1..n /\ k \in 0..n /\ k - 1 \in 0..n
      BY <1>1
    <2>2. a \in 0..n  BY <1>1
    <2>3. /\ Weight(g, a) \in Nat /\ Weight(g, k) \in Nat
          /\ Weight(g, k - 1) \in Nat /\ g[k].weight \in Nat
          /\ Weight(g, k) = Weight(g, k - 1) + g[k].weight
      BY <1>2, <2>1, <2>2
    <2>4. a <= k /\ ~(Weight(g, a) <= Weight(g, k))
      BY <1>4
    <2>5. a # k
      BY <2>3, <2>4
    <2>6. a <= k - 1
      BY <1>1, <2>1, <2>4, <2>5
    <2>7. ~(Weight(g, a) <= Weight(g, k - 1))
      BY <2>3, <2>4
    <2> QED BY <2>1, <2>6, <2>7
  <1>5. T = {}
    <2>1. T \in SUBSET (0..b)  OBVIOUS
    <2> HIDE DEF T
    <2>2. \A k \in 1..b : k \in T => k - 1 \in T  BY <1>4
    <2> QED BY <1>1, <1>3, <2>1, <2>2, NoLeast
  <1>6. b \in 0..b
    BY <1>1
  <1> QED BY <1>1, <1>5, <1>6

LEMMA Slice ==
    ASSUME NEW S, NEW g \in Seq(S), NEW b \in 0..Len(g), NEW a \in 0..b
    PROVE  /\ SubSeq(g, a + 1, b) \in Seq(S)
           /\ Len(SubSeq(g, a + 1, b)) = b - a
           /\ \A i \in 1..(b - a) : SubSeq(g, a + 1, b)[i] = g[a + i]
  <1>1. a \in Nat /\ b \in Nat /\ a <= b /\ b <= Len(g) /\ Len(g) \in Nat
    OBVIOUS
  <1>2. a + 1 \in Int /\ b \in Int /\ \A i \in (a + 1)..b : g[i] \in S
    BY <1>1
  <1>3. /\ SubSeq(g, a + 1, b) \in Seq(S)
        /\ Len(SubSeq(g, a + 1, b)) = IF a + 1 <= b THEN b - (a + 1) + 1 ELSE 0
        /\ \A i \in 1..(b - (a + 1) + 1) : SubSeq(g, a + 1, b)[i] = g[a + 1 + i - 1]
    BY <1>2, SubSeqProperties
  <1>4. b - (a + 1) + 1 = b - a /\ \A i \in 1..(b - a) : a + 1 + i - 1 = a + i
    BY <1>1
  <1> QED BY <1>1, <1>3, <1>4

LEMMA SliceBytes ==
    ASSUME NEW g \in Seq(Task), NEW b \in 0..Len(g), NEW a \in 0..b
    PROVE  Bytes(SubSeq(g, a + 1, b)) = Weight(g, b) - Weight(g, a)
  <1> DEFINE s == SubSeq(g, a + 1, b)
             h == [k \in 0..(b - a) |-> Weight(g, a + k) - Weight(g, a)]
             f == [i \in DOMAIN s |-> s[i].weight]
  <1>0. a \in Nat /\ b \in Nat /\ a <= b /\ b <= Len(g) /\ Len(g) \in Nat
        /\ b - a \in Nat
    OBVIOUS
  <1>1. /\ s \in Seq(Task) /\ Len(s) = b - a
        /\ \A i \in 1..(b - a) : s[i] = g[a + i]
    BY Slice
  <1> HIDE DEF s
  <1>2. DOMAIN s = 1..(b - a)
    BY <1>0, <1>1
  <1>3. \A k \in 0..(b - a) : a + k \in 0..Len(g) /\ a \in 0..(a + k)
    BY <1>0
  <1>4. ASSUME NEW k \in 0..(b - a) PROVE h[k] \in Nat
    <2>1. Weight(g, a + k) \in Nat /\ Weight(g, a) \in Nat
      BY <1>0, <1>3, WeightSteps
    <2>2. Weight(g, a) <= Weight(g, a + k)
      BY <1>3, WeightGrows
    <2> QED BY <2>1, <2>2
  <1>5. h[0] = 0
    <2>1. 0 \in 0..(b - a) /\ a + 0 = a  BY <1>0
    <2>2. Weight(g, a) \in Nat  BY <1>0, WeightSteps
    <2> QED BY <2>1, <2>2
  <1>6. ASSUME NEW k \in 1..(b - a) PROVE h[k] = h[k - 1] + f[k]
    <2>1. k \in 0..(b - a) /\ k - 1 \in 0..(b - a) /\ a + k \in 1..Len(g)
          /\ (a + k) - 1 = a + (k - 1)
      BY <1>0
    <2>2. Weight(g, a + k) = Weight(g, a + (k - 1)) + g[a + k].weight
          /\ g[a + k].weight \in Nat
      BY <2>1, WeightSteps
    <2>3. f[k] = g[a + k].weight
      BY <1>1, <1>2
    <2>4. /\ Weight(g, a + (k - 1)) \in Nat /\ Weight(g, a) \in Nat
          /\ Weight(g, a + k) \in Nat
      BY <1>0, <1>3, <2>1, WeightSteps
    <2>5. h[k] = Weight(g, a + k) - Weight(g, a)
          /\ h[k - 1] = Weight(g, a + (k - 1)) - Weight(g, a)
      BY <2>1
    <2> HIDE DEF h, f
    <2> QED BY <2>2, <2>3, <2>4, <2>5
  <1>7. Adds(h, f, b - a)
    BY <1>4, <1>5, <1>6 DEF Adds
  <1>8. h[b - a] = Weight(g, b) - Weight(g, a)
    <2>1. b - a \in 0..(b - a) /\ a + (b - a) = b  BY <1>0
    <2> QED BY <2>1
  <1>9. Bytes(s) = SumTo(f, b - a)
    BY <1>1 DEF Bytes
  <1> HIDE DEF h, f
  <1>10. SumTo(f, b - a) = h[b - a]
    BY <1>0, <1>7, SumToIs
  <1> QED BY <1>8, <1>9, <1>10 DEF s

-----------------------------------------------------------------------------
(* Greedy plans.  e[i] is the position at which batch i of p ends.  c is   *)
(* the cap and t the byte target, or 0.                                    *)

Ok(g, c, t, a, b) ==
    \/ b - a = 1
    \/ b - a <= c /\ (t = 0 \/ Weight(g, b) - Weight(g, a) <= t)

(* No task can be added after b.                                           *)
Full(g, c, t, a, b) ==
    \/ b - a >= c
    \/ t # 0 /\ Weight(g, b + 1) - Weight(g, a) > t

Greedy(e, p, g, c, t) ==
    /\ e \in [0..Len(p) -> 0..Len(g)] /\ e[0] = 0
    /\ \A i \in 1..Len(p) :
        /\ e[i - 1] < e[i]
        /\ p[i] = SubSeq(g, e[i - 1] + 1, e[i])
        /\ Ok(g, c, t, e[i - 1], e[i])
        /\ e[i] < Len(g) => Full(g, c, t, e[i - 1], e[i])

LEMMA GreedyEmpty ==
    ASSUME NEW g \in Seq(Task), NEW c, NEW t
    PROVE  Greedy([i \in 0..0 |-> 0], <<>>, g, c, t)
  BY DEF Greedy

(* q is p with one more batch, from a to b: it may be given, and is full   *)
(* or the last.                                                            *)
Goes(q, b, p, a, e, g, c, t) ==
    /\ p \in Seq(Seq(Task)) /\ Greedy(e, p, g, c, t) /\ a = e[Len(p)]
    /\ a \in Nat /\ b \in 0..Len(g) /\ a < b
    /\ Ok(g, c, t, a, b)
    /\ b < Len(g) => Full(g, c, t, a, b)
    /\ q = Append(p, SubSeq(g, a + 1, b))

Ends(q, b, g, c, t) ==
    /\ q \in Seq(Seq(Task))
    /\ \E f : Greedy(f, q, g, c, t) /\ f[Len(q)] = b

LEMMA GreedyAppend ==
    ASSUME NEW g \in Seq(Task), NEW c, NEW t, NEW p, NEW e, NEW a, NEW b,
           NEW q, Goes(q, b, p, a, e, g, c, t)
    PROVE  Ends(q, b, g, c, t)
  <1> /\ p \in Seq(Seq(Task)) /\ Greedy(e, p, g, c, t) /\ a = e[Len(p)]
      /\ a \in Nat /\ b \in 0..Len(g) /\ a < b
      /\ Ok(g, c, t, a, b) /\ (b < Len(g) => Full(g, c, t, a, b))
      /\ q = Append(p, SubSeq(g, a + 1, b))
    BY DEF Goes
  <1> DEFINE m == Len(p)
             s == SubSeq(g, e[m] + 1, b)
             f == [i \in 0..(m + 1) |-> IF i = m + 1 THEN b ELSE e[i]]
  <1>1. m \in Nat /\ Len(g) \in Nat /\ e[m] \in 0..Len(g) /\ e[m] \in 0..b
    <2>1. m \in 0..m  OBVIOUS
    <2>2. e[m] \in 0..Len(g)  BY <2>1 DEF Greedy
    <2> QED BY <2>2
  <1>2. s \in Seq(Task)
    BY <1>1, Slice
  <1> HIDE DEF s
  <1>3. /\ q \in Seq(Seq(Task)) /\ Len(q) = m + 1
        /\ q[m + 1] = s /\ \A i \in 1..m : q[i] = p[i]
    <2> DEFINE u == Append(p, s)
    <2>1. q = u  BY DEF s
    <2>2. /\ u \in Seq(Seq(Task)) /\ Len(u) = Len(p) + 1
          /\ u[Len(p) + 1] = s /\ \A i \in 1..Len(p) : u[i] = p[i]
      BY <1>2, AppendProperties
    <2> HIDE DEF u
    <2> QED BY <2>1, <2>2
  <1> HIDE DEF m
  <1>4. f \in [0..(m + 1) -> 0..Len(g)] /\ f[0] = 0 /\ f[m + 1] = b
    <2>1. ASSUME NEW i \in 0..(m + 1) PROVE f[i] \in 0..Len(g)
      <3>1. i = m + 1 \/ i \in 0..m  BY <1>1
      <3> QED BY <3>1 DEF Greedy, m
    <2>2. 0 \in 0..(m + 1) /\ 0 # m + 1 /\ m + 1 \in 0..(m + 1)  BY <1>1
    <2>3. e[0] = 0  BY DEF Greedy
    <2> QED BY <2>1, <2>2, <2>3
  <1>5. ASSUME NEW i \in 1..(m + 1)
        PROVE  /\ f[i - 1] < f[i]
               /\ q[i] = SubSeq(g, f[i - 1] + 1, f[i])
               /\ Ok(g, c, t, f[i - 1], f[i])
               /\ f[i] < Len(g) => Full(g, c, t, f[i - 1], f[i])
    <2>1. i \in 0..(m + 1) /\ i - 1 \in 0..(m + 1) /\ i - 1 # m + 1
      BY <1>1
    <2>2. f[i - 1] = e[i - 1]
      BY <2>1
    <2>3. CASE i = m + 1
      <3>1. i - 1 = m /\ f[i] = b  BY <1>1, <1>4, <2>3
      <3> HIDE DEF f
      <3> QED BY <1>3, <2>2, <2>3, <3>1 DEF m, s
    <2>4. CASE i # m + 1
      <3>1. i \in 1..m /\ f[i] = e[i]  BY <1>1, <2>1, <2>4
      <3> HIDE DEF f
      <3> QED BY <1>3, <2>2, <3>1 DEF Greedy, m
    <2> QED BY <2>3, <2>4
  <1>6. Greedy(f, q, g, c, t)
    <2> HIDE DEF f
    <2> QED BY <1>3, <1>4, <1>5 DEF Greedy
  <1> QED BY <1>3, <1>4, <1>6 DEF m, Ends

-----------------------------------------------------------------------------
(* The loop of build_batches fills greedily.                               *)

Fresh == [closed |-> <<>>, current |-> <<>>, bytes |-> 0]

Fills(h, g, c, t, n) ==
    h = [k \in 0..n |-> IF k = 0 THEN Fresh ELSE Placed(h[k - 1], g[k], c, t)]

LEMMA FillsExists ==
    ASSUME NEW n \in Nat, NEW g, NEW c, NEW t
    PROVE  \E h : Fills(h, g, c, t, n)
  <1> DEFINE T == {k \in 0..n : ~ \E h : Fills(h, g, c, t, k)}
  <1>1. 0 \notin T
    <2> DEFINE h == [k \in 0..0 |-> Fresh]
    <2>1. h = [k \in 0..0 |-> IF k = 0 THEN Fresh ELSE Placed(h[k - 1], g[k], c, t)]
      OBVIOUS
    <2>2. Fills(h, g, c, t, 0)
      BY <2>1 DEF Fills
    <2> QED BY <2>2
  <1>2. ASSUME NEW m \in 1..n, m \in T, m - 1 \notin T PROVE FALSE
    <2>1. m - 1 \in 0..n /\ m - 1 \in Nat /\ m \in Nat /\ m # 0
      OBVIOUS
    <2>2. PICK u : Fills(u, g, c, t, m - 1)
      BY <1>2, <2>1
    <2>3. \A k \in 0..(m - 1) :
              u[k] = IF k = 0 THEN Fresh ELSE Placed(u[k - 1], g[k], c, t)
      BY <2>2 DEF Fills
    <2> DEFINE h == [k \in 0..m |->
                        IF k = m THEN Placed(u[m - 1], g[m], c, t) ELSE u[k]]
    <2>4. ASSUME NEW k \in 0..m
          PROVE  h[k] = IF k = 0 THEN Fresh ELSE Placed(h[k - 1], g[k], c, t)
      <3>1. k # 0 => k - 1 \in 0..m /\ k - 1 # m
        BY <2>1
      <3>2. k # 0 => h[k - 1] = u[k - 1]
        BY <3>1
      <3>3. CASE k = m
        <4>1. h[k] = Placed(u[m - 1], g[m], c, t)  BY <3>3
        <4> HIDE DEF h
        <4> QED BY <2>1, <3>2, <3>3, <4>1
      <3>4. CASE k # m
        <4>1. k \in 0..(m - 1) /\ h[k] = u[k]  BY <2>1, <3>4
        <4> HIDE DEF h
        <4> QED BY <2>3, <3>2, <4>1
      <3> QED BY <3>3, <3>4
    <2>5. h = [k \in 0..m |-> h[k]]
      OBVIOUS
    <2> HIDE DEF h
    <2>6. Fills(h, g, c, t, m)
      BY <2>4, <2>5 DEF Fills
    <2> QED BY <1>2, <2>6
  <1>3. T = {}
    <2>1. T \in SUBSET (0..n)  OBVIOUS
    <2>2. \A k \in 1..n : k \in T => k - 1 \in T  BY <1>2
    <2> QED BY <1>1, <2>1, <2>2, NoLeast
  <1>4. n \in 0..n  OBVIOUS
  <1> QED BY <1>3, <1>4

LEMMA FilledSteps ==
    ASSUME NEW g \in Seq(Task), NEW c, NEW t
    PROVE  /\ Filled(g, c, t)[0] = Fresh
           /\ \A k \in 1..Len(g) :
                 Filled(g, c, t)[k] = Placed(Filled(g, c, t)[k - 1], g[k], c, t)
  <1> DEFINE n == Len(g)
             h == CHOOSE u : Fills(u, g, c, t, n)
  <1>1. Filled(g, c, t) = h
    BY DEF Filled, Fills, Fresh
  <1>2. n \in Nat
    OBVIOUS
  <1>3. Fills(h, g, c, t, n)
    BY <1>2, FillsExists
  <1> HIDE DEF h, n
  <1>4. ASSUME NEW k \in 0..n
        PROVE  h[k] = IF k = 0 THEN Fresh ELSE Placed(h[k - 1], g[k], c, t)
    BY <1>3 DEF Fills
  <1>5. 0 \in 0..n /\ \A k \in 1..n : k \in 0..n /\ k # 0
    BY <1>2
  <1> QED BY <1>1, <1>4, <1>5 DEF n

(* The plan after k tasks: the closed batches are greedy, and the one      *)
(* being filled, which starts after the last of them, may be given.        *)
Filling(st, e, g, c, t, k) ==
    /\ st.closed \in Seq(Seq(Task))
    /\ Greedy(e, st.closed, g, c, t)
    /\ e[Len(st.closed)] \in 0..k
    /\ st.current = SubSeq(g, e[Len(st.closed)] + 1, k)
    /\ st.bytes = Weight(g, k) - Weight(g, e[Len(st.closed)])
    /\ k > 0 => /\ e[Len(st.closed)] < k
                /\ Ok(g, c, t, e[Len(st.closed)], k)

LEMMA FillingStart ==
    ASSUME NEW g \in Seq(Task), NEW c, NEW t
    PROVE  \E e : Filling(Fresh, e, g, c, t, 0)
  <1> DEFINE e == [i \in 0..0 |-> 0]
  <1>1. Greedy(e, <<>>, g, c, t)
    BY GreedyEmpty
  <1>2. Len(<<>>) = 0 /\ e[0] = 0 /\ <<>> \in Seq(Seq(Task))
    BY EmptySeq
  <1>3. SubSeq(g, 0 + 1, 0) = <<>>
    <2>1. 0 \in 0..Len(g) /\ 0 \in 0..0  OBVIOUS
    <2>2. SubSeq(g, 0 + 1, 0) \in Seq(Task) /\ Len(SubSeq(g, 0 + 1, 0)) = 0 - 0
      BY <2>1, Slice
    <2> QED BY <2>2, EmptySeq
  <1>4. Weight(g, 0) - Weight(g, 0) = 0
    BY WeightSteps
  <1>5. Filling(Fresh, e, g, c, t, 0)
    <2> HIDE DEF e
    <2> QED BY <1>1, <1>2, <1>3, <1>4 DEF Filling, Fresh
  <1> QED BY <1>5

LEMMA SliceGrows ==
    ASSUME NEW S, NEW g \in Seq(S), NEW k \in 1..Len(g), NEW a \in 0..(k - 1)
    PROVE  /\ Append(SubSeq(g, a + 1, k - 1), g[k]) = SubSeq(g, a + 1, k)
           /\ <<g[k]>> = SubSeq(g, (k - 1) + 1, k)
  <1>1. /\ k - 1 \in 0..Len(g) /\ k \in 0..Len(g) /\ a \in 0..k /\ k - 1 \in 0..k
        /\ k \in Nat /\ a \in Nat /\ g[k] \in S /\ k - a = (k - 1 - a) + 1
        /\ k - 1 - a \in Nat /\ k - (k - 1) = 1
    OBVIOUS
  <1> DEFINE s == SubSeq(g, a + 1, k - 1)
             u == SubSeq(g, a + 1, k)
             v == SubSeq(g, (k - 1) + 1, k)
  <1>2. /\ s \in Seq(S) /\ Len(s) = k - 1 - a
        /\ \A i \in 1..(k - 1 - a) : s[i] = g[a + i]
    BY <1>1, Slice
  <1>3. /\ u \in Seq(S) /\ Len(u) = k - a /\ \A i \in 1..(k - a) : u[i] = g[a + i]
    BY <1>1, Slice
  <1>4. v \in Seq(S) /\ Len(v) = 1 /\ v[1] = g[(k - 1) + 1]
    <2>1. /\ v \in Seq(S) /\ Len(v) = k - (k - 1)
          /\ \A i \in 1..(k - (k - 1)) : v[i] = g[(k - 1) + i]
      <3>1. k - 1 \in 0..k /\ k \in 0..Len(g)  BY <1>1
      <3> QED BY <3>1, Slice
    <2> QED BY <1>1, <2>1
  <1> HIDE DEF s, u, v
  <1>5. Append(s, g[k]) = u
    <2>1. /\ Append(s, g[k]) \in Seq(S) /\ Len(Append(s, g[k])) = k - a
          /\ Append(s, g[k])[k - a] = g[k]
          /\ \A i \in 1..(k - 1 - a) : Append(s, g[k])[i] = s[i]
      BY <1>1, <1>2, AppendProperties
    <2>2. ASSUME NEW i \in 1..(k - a) PROVE Append(s, g[k])[i] = u[i]
      <3>1. CASE i = k - a
        <4>1. a + i = k  BY <1>1, <3>1
        <4> QED BY <1>3, <2>1, <3>1, <4>1
      <3>2. CASE i # k - a
        <4>1. i \in 1..(k - 1 - a)  BY <1>1, <3>2
        <4> QED BY <1>2, <1>3, <2>1, <4>1
      <3> QED BY <3>1, <3>2
    <2> QED BY <1>3, <2>1, <2>2, SeqEqual
  <1>6. <<g[k]>> = v
    <2>1. (k - 1) + 1 = k  BY <1>1
    <2>2. <<g[k]>> \in Seq(S) /\ Len(<<g[k]>>) = 1 /\ <<g[k]>>[1] = g[k]
      BY <1>1
    <2> QED BY <1>4, <2>1, <2>2, SeqEqual
  <1> QED BY <1>5, <1>6 DEF s, u, v

LEMMA FillingStep ==
    ASSUME NEW g \in Seq(Task), NEW c \in Nat \ {0}, NEW t \in Nat \ {0},
           NEW k \in 1..Len(g), NEW st, NEW e, Filling(st, e, g, c, t, k - 1)
    PROVE  \E f : Filling(Placed(st, g[k], c, t), f, g, c, t, k)
  <1> DEFINE a == e[Len(st.closed)]
             w == g[k].weight
             next == Placed(st, g[k], c, t)
  <1>1. /\ k \in Nat /\ k - 1 \in Nat /\ k - 1 \in 0..Len(g) /\ k \in 0..Len(g)
        /\ Len(g) \in Nat /\ k > 0 /\ k - 1 < Len(g) /\ (k - 1) + 1 = k
    OBVIOUS
  <1>2. a \in 0..(k - 1) /\ a \in 0..Len(g) /\ a \in Nat
    BY <1>1 DEF Filling
  <1>3. /\ Weight(g, k) = Weight(g, k - 1) + w /\ w \in Nat
        /\ Weight(g, k - 1) \in Nat /\ Weight(g, a) \in Nat /\ Weight(g, k) \in Nat
    BY <1>1, <1>2, WeightSteps
  <1>4. /\ Len(st.current) = k - 1 - a
        /\ st.current = <<>> <=> k - 1 = a
        /\ st.current = SubSeq(g, a + 1, k - 1)
        /\ st.bytes = Weight(g, k - 1) - Weight(g, a)
    <2>1. st.current = SubSeq(g, a + 1, k - 1)
          /\ st.bytes = Weight(g, k - 1) - Weight(g, a)
      BY DEF Filling
    <2>2. SubSeq(g, a + 1, k - 1) \in Seq(Task)
          /\ Len(SubSeq(g, a + 1, k - 1)) = k - 1 - a
      <3> HIDE DEF a
      <3> QED BY <1>1, <1>2, Slice
    <2> HIDE DEF a
    <2>3. Len(st.current) = k - 1 - a /\ st.current \in Seq(Task)
      BY <2>1, <2>2
    <2>4. st.current = <<>> <=> Len(st.current) = 0
      BY <2>3, EmptySeq
    <2>5. k - 1 - a = 0 <=> k - 1 = a
      BY <1>1, <1>2
    <2> QED BY <2>1, <2>3, <2>4, <2>5
  <1>5. /\ Append(st.current, g[k]) = SubSeq(g, a + 1, k)
        /\ <<g[k]>> = SubSeq(g, (k - 1) + 1, k)
    BY <1>2, <1>4, SliceGrows
  <1>6. /\ st.closed \in Seq(Seq(Task)) /\ Greedy(e, st.closed, g, c, t)
        /\ k - 1 > 0 => a < k - 1 /\ Ok(g, c, t, a, k - 1)
    BY DEF Filling
  <1>7. CASE MustClose(st, g[k], c, t)
    <2>1. /\ next.closed = Append(st.closed, st.current)
          /\ next.current = <<g[k]>> /\ next.bytes = w
      BY <1>7 DEF Placed
    <2>2. /\ a # k - 1
          /\ k - 1 - a >= c \/ (Weight(g, k - 1) - Weight(g, a)) + w > t
      BY <1>4, <1>7 DEF MustClose
    <2>3. a < k - 1 /\ Ok(g, c, t, a, k - 1)
      <3>1. k - 1 > 0
        <4> HIDE DEF a
        <4> QED BY <1>1, <1>2, <2>2
      <3> QED BY <1>6, <3>1
    <2>4. Full(g, c, t, a, k - 1)
      <3> HIDE DEF a, w
      <3>1. (Weight(g, k - 1) - Weight(g, a)) + w = Weight(g, k) - Weight(g, a)
        BY <1>3
      <3> QED BY <1>1, <2>2, <3>1 DEF Full
    <2>5. Ends(next.closed, k - 1, g, c, t)
      <3>1. Goes(next.closed, k - 1, st.closed, a, e, g, c, t)
        BY <1>1, <1>2, <1>4, <1>6, <2>1, <2>3, <2>4 DEF Goes
      <3> HIDE DEF a, next, w
      <3> QED BY <3>1, GreedyAppend
    <2>6. PICK f : Greedy(f, next.closed, g, c, t) /\ f[Len(next.closed)] = k - 1
      BY <2>5 DEF Ends
    <2>7. w = Weight(g, k) - Weight(g, k - 1)
      <3> HIDE DEF w
      <3> QED BY <1>3
    <2>8. Ok(g, c, t, k - 1, k) /\ k - 1 < k /\ k - 1 \in 0..k
      BY <1>1 DEF Ok
    <2>9. Filling(next, f, g, c, t, k)
      <3> HIDE DEF next, w
      <3> QED BY <1>5, <2>1, <2>5, <2>6, <2>7, <2>8 DEF Filling, Ends
    <2> QED BY <2>9
  <1>8. CASE ~MustClose(st, g[k], c, t)
    <2>1. /\ next.closed = st.closed
          /\ next.current = Append(st.current, g[k])
          /\ next.bytes = st.bytes + w
      BY <1>8 DEF Placed
    <2>2. next.bytes = Weight(g, k) - Weight(g, a)
      <3> HIDE DEF a, w, next
      <3> QED BY <1>3, <1>4, <2>1
    <2>3. a < k /\ a \in 0..k
      <3> HIDE DEF a
      <3> QED BY <1>1, <1>2
    <2>4. Ok(g, c, t, a, k)
      <3>1. CASE a = k - 1
        <4> HIDE DEF a
        <4> QED BY <1>1, <3>1 DEF Ok
      <3>2. CASE a # k - 1
        <4>1. ~(k - 1 - a >= c) /\ ~((Weight(g, k - 1) - Weight(g, a)) + w > t)
          BY <1>4, <1>8, <3>2 DEF MustClose
        <4> HIDE DEF a, w
        <4>2. k - a <= c
          BY <1>1, <1>2, <4>1
        <4>3. Weight(g, k) - Weight(g, a) <= t
          BY <1>3, <4>1
        <4> QED BY <4>2, <4>3 DEF Ok
      <3> QED BY <3>1, <3>2
    <2>5. Filling(next, e, g, c, t, k)
      <3> HIDE DEF next, w
      <3> QED BY <1>5, <1>6, <2>1, <2>2, <2>3, <2>4 DEF Filling
    <2> QED BY <2>5
  <1> QED BY <1>7, <1>8

LEMMA ByteBatchesEnd ==
    ASSUME NEW g \in Seq(Task), NEW c \in Nat \ {0}, NEW t \in Nat \ {0}
    PROVE  Ends(ByteBatches(g, c, t), Len(g), g, c, t)
  <1> DEFINE n == Len(g)
             after == Filled(g, c, t)
             T == {k \in 0..n : ~ \E e : Filling(after[k], e, g, c, t, k)}
             st == after[n]
  <1>0. n \in Nat /\ n \in 0..n
    OBVIOUS
  <1>1. 0 \notin T
    BY FilledSteps, FillingStart
  <1>2. ASSUME NEW k \in 1..n, k \in T, k - 1 \notin T PROVE FALSE
    <2>1. k - 1 \in 0..n
      BY <1>0
    <2>2. PICK e : Filling(after[k - 1], e, g, c, t, k - 1)
      BY <1>2, <2>1
    <2>3. after[k] = Placed(after[k - 1], g[k], c, t)
      BY FilledSteps
    <2> DEFINE u == after[k - 1]
    <2>4. \E f : Filling(Placed(u, g[k], c, t), f, g, c, t, k)
      <3>1. Filling(u, e, g, c, t, k - 1)  BY <2>2
      <3> HIDE DEF u, after
      <3> QED BY <3>1, FillingStep
    <2> QED BY <1>2, <2>3, <2>4
  <1>3. T = {}
    <2>1. T \in SUBSET (0..n)  OBVIOUS
    <2>2. \A k \in 1..n : k \in T => k - 1 \in T  BY <1>2
    <2> HIDE DEF T
    <2> QED BY <1>0, <1>1, <2>1, <2>2, NoLeast
  <1>4. PICK e : Filling(st, e, g, c, t, n)
    BY <1>0, <1>3
  <1> DEFINE a == e[Len(st.closed)]
  <1>5. ByteBatches(g, c, t) = IF st.current = <<>> THEN st.closed
                               ELSE Append(st.closed, st.current)
    BY DEF ByteBatches
  <1> HIDE DEF st
  <1>6. /\ st.closed \in Seq(Seq(Task)) /\ Greedy(e, st.closed, g, c, t)
        /\ a \in 0..n /\ a \in Nat /\ st.current = SubSeq(g, a + 1, n)
        /\ n > 0 => a < n /\ Ok(g, c, t, a, n)
    BY <1>0, <1>4 DEF Filling
  <1>7. Len(st.current) = n - a
    <2> HIDE DEF a
    <2> QED BY <1>0, <1>6, Slice
  <1>8. CASE st.current = <<>>
    <2>1. n - a = 0  BY <1>7, <1>8
    <2>2. a = n
      <3> HIDE DEF a
      <3> QED BY <1>0, <1>6, <2>1
    <2> QED BY <1>5, <1>6, <1>8, <2>2 DEF Ends
  <1>9. CASE st.current # <<>>
    <2>1. n > 0
      <3>1. n = 0 => Len(st.current) = 0
        <4> HIDE DEF a
        <4> QED BY <1>0, <1>6, <1>7
      <3>2. st.current \in Seq(Task)
        <4> HIDE DEF a
        <4> QED BY <1>0, <1>6, Slice
      <3>3. Len(st.current) # 0
        BY <1>9, <3>2, EmptySeq
      <3> QED BY <1>0, <3>1, <3>3
    <2>2. Goes(Append(st.closed, st.current), n, st.closed, a, e, g, c, t)
      BY <1>0, <1>6, <2>1 DEF Goes
    <2>3. Ends(Append(st.closed, st.current), n, g, c, t)
      <3> HIDE DEF a
      <3> QED BY <2>2, GreedyAppend
    <2> QED BY <1>5, <1>9, <2>3
  <1> QED BY <1>8, <1>9

LEMMA SinglesEnd ==
    ASSUME NEW g \in Seq(Task), NEW t
    PROVE  Ends([i \in DOMAIN g |-> <<g[i]>>], Len(g), g, 1, t)
  <1> DEFINE n == Len(g)
             p == [i \in DOMAIN g |-> <<g[i]>>]
             e == [i \in 0..n |-> i]
  <1>1. n \in Nat /\ DOMAIN g = 1..n /\ n \in 0..n /\ 0 \in 0..n
    OBVIOUS
  <1>2. p \in Seq(Seq(Task)) /\ Len(p) = n
    <2>1. p \in [1..n -> Seq(Task)]
      BY <1>1
    <2> QED BY <1>1, <2>1
  <1>3. ASSUME NEW i \in 1..n
        PROVE  /\ e[i - 1] < e[i]
               /\ p[i] = SubSeq(g, e[i - 1] + 1, e[i])
               /\ Ok(g, 1, t, e[i - 1], e[i]) /\ Full(g, 1, t, e[i - 1], e[i])
    <2>1. /\ i \in 0..n /\ i - 1 \in 0..n /\ i - 1 < i /\ i - (i - 1) = 1 /\ 1 >= 1
          /\ i - 1 \in 0..(i - 1)
      BY <1>1
    <2>2. e[i] = i /\ e[i - 1] = i - 1 /\ p[i] = <<g[i]>>
      BY <1>1, <2>1
    <2>3. <<g[i]>> = SubSeq(g, (i - 1) + 1, i)
      BY <2>1, SliceGrows
    <2> HIDE DEF e, p
    <2> QED BY <2>1, <2>2, <2>3 DEF Ok, Full
  <1>4. e \in [0..n -> 0..n] /\ e[0] = 0 /\ e[n] = n
    BY <1>1
  <1>5. Greedy(e, p, g, 1, t)
    <2> HIDE DEF e, p
    <2> QED BY <1>2, <1>3, <1>4 DEF Greedy
  <1> HIDE DEF e, p
  <1>6. Ends(p, n, g, 1, t)
    BY <1>2, <1>4, <1>5 DEF Ends
  <1> QED BY <1>6 DEF p

(* How many chunks of c there are, and where chunk k starts and ends.      *)
LEMMA Quotient ==
    ASSUME NEW n \in Nat, NEW c \in Nat \ {0}
    PROVE  LET q == (n + c - 1) \div c
           IN  q \in Nat /\ n <= q * c /\ q * c < n + c
  <1> DEFINE q == (n + c - 1) \div c
  <1>1. q \in Nat
    OBVIOUS
  <1>2. /\ q * c <= n + c - 1
        /\ n + c - 1 < (q + 1) * c
    OBVIOUS
  <1>3. (q + 1) * c = q * c + c /\ q * c \in Nat
    <2> HIDE DEF q
    <2> QED BY <1>1
  <1> HIDE DEF q
  <1>4. n <= q * c /\ q * c < n + c
    BY <1>2, <1>3
  <1> QED BY <1>1, <1>4 DEF q

LEMMA ChunksEnd ==
    ASSUME NEW g \in Seq(Task), NEW c \in Nat \ {0}
    PROVE  Ends(Chunks(g, c), Len(g), g, c, 0)
  <1> DEFINE n == Len(g)
             m == (n + c - 1) \div c
             p == Chunks(g, c)
             e == [i \in 0..m |-> IF i * c < n THEN i * c ELSE n]
  <1>1. n \in Nat /\ m \in Nat /\ n <= m * c /\ m * c < n + c
    <2>1. n \in Nat
      OBVIOUS
    <2> HIDE DEF n
    <2>2. /\ (n + c - 1) \div c \in Nat /\ n <= ((n + c - 1) \div c) * c
          /\ ((n + c - 1) \div c) * c < n + c
      BY <2>1, Quotient
    <2> QED BY <2>1, <2>2
  <1> HIDE DEF m
  <1>2. p = [k \in 1..m |-> SubSeq(g, (k - 1) * c + 1,
                                  IF k * c < n THEN k * c ELSE n)]
    BY DEF Chunks, m
  <1> HIDE DEF n, p
  <1>3. ASSUME NEW i \in 1..m
        PROVE  /\ (i - 1) * c \in Nat /\ i * c \in Nat
               /\ i * c = (i - 1) * c + c /\ (i - 1) * c < n
    <2>1. (i - 1) * c \in Nat /\ i * c \in Nat /\ i * c = (i - 1) * c + c
      OBVIOUS
    <2>2. i * c <= m * c /\ m * c \in Nat
      BY <1>1
    <2> QED BY <1>1, <2>1, <2>2
  <1>4. ASSUME NEW i \in 1..m
        PROVE  /\ i \in 0..m /\ i - 1 \in 0..m
               /\ e[i - 1] = (i - 1) * c
               /\ e[i] = IF i * c < n THEN i * c ELSE n
    <2>1. i \in 0..m /\ i - 1 \in 0..m
      BY <1>1
    <2> QED BY <1>3, <2>1
  <1>5. e \in [0..m -> 0..n] /\ e[0] = 0 /\ e[m] = n
    <2>1. ASSUME NEW i \in 0..m PROVE e[i] \in 0..n
      <3>1. i * c \in Nat  BY <1>1
      <3>2. (IF i * c < n THEN i * c ELSE n) \in 0..n  BY <1>1, <3>1
      <3> QED BY <3>2
    <2>2. 0 \in 0..m /\ m \in 0..m /\ 0 * c = 0
      BY <1>1
    <2>3. (IF 0 * c < n THEN 0 * c ELSE n) = 0
      BY <1>1, <2>2
    <2>4. (IF m * c < n THEN m * c ELSE n) = n
      BY <1>1
    <2> QED BY <2>1, <2>2, <2>3, <2>4
  <1> HIDE DEF e
  <1>6. ASSUME NEW i \in 1..m
        PROVE  /\ e[i - 1] < e[i]
               /\ p[i] = SubSeq(g, e[i - 1] + 1, e[i])
               /\ Ok(g, c, 0, e[i - 1], e[i])
               /\ e[i] < n => Full(g, c, 0, e[i - 1], e[i])
    <2>1. p[i] = SubSeq(g, (i - 1) * c + 1, IF i * c < n THEN i * c ELSE n)
      BY <1>2
    <2> DEFINE a == (i - 1) * c
               b == i * c
    <2>2. a \in Nat /\ b = a + c /\ a < n
      BY <1>3
    <2>3. e[i - 1] = a /\ e[i] = IF b < n THEN b ELSE n
      BY <1>4
    <2> HIDE DEF a, b
    <2>4. /\ e[i - 1] < e[i] /\ e[i] - e[i - 1] <= c
          /\ e[i] < n => e[i] - e[i - 1] >= c
      BY <1>1, <2>2, <2>3
    <2> QED BY <2>1, <2>3, <2>4 DEF Ok, Full, a, b
  <1>7. p \in Seq(Seq(Task)) /\ Len(p) = m
    <2>1. ASSUME NEW i \in 1..m PROVE p[i] \in Seq(Task)
      <3>1. i \in 0..m /\ i - 1 \in 0..m
        BY <1>1
      <3>2. e[i] \in 0..n /\ e[i - 1] \in 0..n /\ e[i - 1] < e[i]
        BY <1>5, <1>6, <3>1
      <3>3. e[i] \in 0..Len(g) /\ e[i - 1] \in 0..e[i]
        BY <3>2 DEF n
      <3>4. p[i] = SubSeq(g, e[i - 1] + 1, e[i])
        BY <1>6
      <3> QED BY <3>3, <3>4, Slice
    <2>2. p \in [1..m -> Seq(Task)]
      BY <1>2, <2>1
    <2> QED BY <1>1, <2>2
  <1>8. Greedy(e, p, g, c, 0)
    BY <1>5, <1>6, <1>7 DEF Greedy, n
  <1> QED BY <1>5, <1>7, <1>8 DEF Ends, n, p

-----------------------------------------------------------------------------
(* Sorting keeps the tasks a list of as many tasks: no two of them have    *)
(* one place.                                                              *)

Earlier(s, i, j) == \/ s[i].key < s[j].key
                    \/ s[i].key = s[j].key /\ i < j
Before(s, j) == {i \in DOMAIN s : Earlier(s, i, j)}
PlaceOf(s, j) == 1 + Cardinality(Before(s, j))

LEMMA PlacesDiffer ==
    ASSUME NEW s \in Seq(Task), NEW i \in 1..Len(s), NEW j \in 1..Len(s),
           Earlier(s, i, j)
    PROVE  PlaceOf(s, i) # PlaceOf(s, j)
  <1>0. /\ Len(s) \in Nat /\ DOMAIN s = 1..Len(s)
        /\ \A k \in 1..Len(s) : s[k].key \in Nat
    <2>1. \A k \in 1..Len(s) : s[k] \in Task
      OBVIOUS
    <2> QED BY <2>1 DEF Task
  <1>1. /\ IsFiniteSet(Before(s, j)) /\ IsFiniteSet(Before(s, i))
    <2>1. IsFiniteSet(1..Len(s))
      BY <1>0, FS_Interval
    <2> QED BY <1>0, <2>1, FS_Subset DEF Before
  <1>2. Before(s, i) \subseteq Before(s, j)
    <2>1. ASSUME NEW k \in 1..Len(s), Earlier(s, k, i) PROVE Earlier(s, k, j)
      <3> DEFINE x == s[k].key
                 y == s[i].key
                 z == s[j].key
      <3>1. /\ x < y \/ (x = y /\ k < i)
            /\ y < z \/ (y = z /\ i < j)
        BY <2>1 DEF Earlier
      <3>2. x \in Nat /\ y \in Nat /\ z \in Nat
        BY <1>0
      <3> HIDE DEF x, y, z
      <3>3. x < z \/ (x = z /\ k < j)
        BY <1>0, <3>1, <3>2
      <3> QED BY <3>3 DEF Earlier, x, y, z
    <2> QED BY <1>0, <2>1 DEF Before
  <1>3. i \in Before(s, j) /\ i \notin Before(s, i)
    <2>1. ~Earlier(s, i, i)
      BY <1>0 DEF Earlier
    <2> QED BY <1>0, <2>1 DEF Before
  <1>4. Before(s, i) \in SUBSET Before(s, j) /\ Before(s, i) # Before(s, j)
    BY <1>2, <1>3
  <1>5. Cardinality(Before(s, j)) # Cardinality(Before(s, i))
    BY <1>1, <1>4, FS_Subset
  <1>6. Cardinality(Before(s, j)) \in Nat /\ Cardinality(Before(s, i)) \in Nat
    BY <1>1, FS_CardinalityType
  <1> QED BY <1>5, <1>6 DEF PlaceOf

LEMMA PlaceBound ==
    ASSUME NEW s \in Seq(Task), NEW j \in 1..Len(s)
    PROVE  PlaceOf(s, j) \in 1..Len(s)
  <1>0. Len(s) \in Nat /\ DOMAIN s = 1..Len(s) /\ s[j].key \in Nat
    <2>1. s[j] \in Task
      OBVIOUS
    <2> QED BY <2>1 DEF Task
  <1>1. IsFiniteSet(1..Len(s)) /\ Cardinality(1..Len(s)) = Len(s)
    <2>1. 1 \in Int /\ Len(s) \in Int /\ Len(s) - 1 + 1 = Len(s)
          /\ (1 > Len(s) => Len(s) = 0)
      BY <1>0
    <2> QED BY <2>1, FS_Interval
  <1>2. j \notin Before(s, j)
    BY <1>0 DEF Before, Earlier
  <1>3. Before(s, j) \in SUBSET (1..Len(s)) /\ Before(s, j) # 1..Len(s)
    BY <1>0, <1>2 DEF Before
  <1>4. /\ IsFiniteSet(Before(s, j))
        /\ Cardinality(Before(s, j)) <= Len(s)
        /\ Cardinality(Before(s, j)) # Len(s)
    BY <1>1, <1>3, FS_Subset
  <1>5. Cardinality(Before(s, j)) \in Nat
    BY <1>4, FS_CardinalityType
  <1> QED BY <1>0, <1>4, <1>5 DEF PlaceOf

LEMMA SortedIsAList ==
    ASSUME NEW s \in Seq(Task)
    PROVE  Sorted(s) \in Seq(Task) /\ Len(Sorted(s)) = Len(s)
  <1> DEFINE n == Len(s)
             f == [j \in 1..n |-> PlaceOf(s, j)]
             at(k) == CHOOSE j \in 1..n : PlaceOf(s, j) = k
  <1>0. n \in Nat /\ DOMAIN s = 1..n
    OBVIOUS
  <1>1. f \in [1..n -> 1..n]
    BY PlaceBound
  <1>2. ASSUME NEW i \in 1..n, NEW j \in 1..n, i # j PROVE f[i] # f[j]
    <2>1. Earlier(s, i, j) \/ Earlier(s, j, i)
      <3>1. s[i].key \in Nat /\ s[j].key \in Nat
        <4>1. s[i] \in Task /\ s[j] \in Task
          OBVIOUS
        <4> QED BY <4>1 DEF Task
      <3> QED BY <1>0, <1>2, <3>1 DEF Earlier
    <2> QED BY <2>1, PlacesDiffer
  <1>3. f \in Injection(1..n, 1..n)
    BY <1>1, <1>2 DEF Injection, IsInjective
  <1>4. IsFiniteSet(1..n)
    BY <1>0, FS_Interval
  <1>5. f \in Surjection(1..n, 1..n)
    BY <1>3, <1>4, FS_Injection
  <1>6. ASSUME NEW k \in 1..n PROVE \E j \in 1..n : PlaceOf(s, j) = k
    BY <1>5 DEF Surjection
  <1>7. \A k \in 1..n : at(k) \in 1..n
    BY <1>6
  <1>8. Sorted(s) = [k \in 1..n |-> s[at(k)]]
    BY <1>0 DEF Sorted, PlaceOf, Before, Earlier
  <1> HIDE DEF at
  <1>9. Sorted(s) \in [1..n -> Task]
    BY <1>7, <1>8
  <1> QED BY <1>0, <1>8, <1>9

-----------------------------------------------------------------------------
(* The plan is a partition.                                                *)

LEMMA PlanEnds ==
    ASSUME Input
    PROVE  /\ group \in Seq(Task) /\ cap \in Nat \ {0} /\ byteTarget \in Nat
           /\ Ends(plan, Len(group), group, cap, byteTarget)
  <1>1. tasks \in Seq(Task) /\ byteTarget \in Nat
        /\ policy.preferred \in Nat \ {0} /\ policy.max \in Nat \ {0}
    BY DEF Input, Policy
  <1>2. group \in Seq(Task)
    BY <1>1, SortedIsAList DEF group
  <1>3. CountCap(policy) \in Nat \ {0}
    BY <1>1 DEF CountCap
  <1>4. cap \in Nat \ {0}
    BY <1>3 DEF cap
  <1>5. CASE policy.mode = "disabled"
    <2>1. plan = [i \in DOMAIN tasks |-> <<tasks[i]>>] /\ group = tasks /\ cap = 1
      BY <1>5 DEF plan, BuildBatches, group, cap
    <2> QED BY <1>1, <1>4, <2>1, SinglesEnd
  <1>6. CASE policy.mode # "disabled"
    <2>1. cap = CountCap(policy)
          /\ group = IF policy.sortBy THEN Sorted(tasks) ELSE tasks
      BY <1>6 DEF group, cap
    <2>2. CASE byteTarget = 0
      <3>1. plan = Chunks(group, cap)
        BY <1>6, <2>1, <2>2 DEF plan, BuildBatches
      <3> QED BY <1>1, <1>2, <1>4, <2>2, <3>1, ChunksEnd
    <2>3. CASE byteTarget # 0
      <3>1. plan = ByteBatches(group, cap, byteTarget)
        BY <1>6, <2>1, <2>3 DEF plan, BuildBatches
      <3> QED BY <1>1, <1>2, <1>4, <2>3, <3>1, ByteBatchesEnd
    <2> QED BY <2>2, <2>3
  <1> QED BY <1>5, <1>6

LEMMA TakenIs ==
    ASSUME NEW g \in Seq(Task), NEW c, NEW t, NEW p \in Seq(Seq(Task)), NEW e,
           Greedy(e, p, g, c, t), NEW i \in 0..Len(p)
    PROVE  Taken(p, i) = e[i]
  <1> DEFINE m == Len(p)
             f == [k \in DOMAIN p |-> Len(p[k])]
             h == [k \in 0..i |-> e[k]]
  <1>0. /\ m \in Nat /\ i \in Nat /\ 0..i \subseteq 0..m /\ 1..i \subseteq 1..m
        /\ DOMAIN p = 1..m /\ Len(g) \in Nat /\ 0 \in 0..i /\ i \in 0..i
    OBVIOUS
  <1>1. /\ e \in [0..m -> 0..Len(g)] /\ e[0] = 0
        /\ \A k \in 1..m : e[k - 1] < e[k] /\ p[k] = SubSeq(g, e[k - 1] + 1, e[k])
    BY DEF Greedy
  <1>2. h \in [0..i -> Nat] /\ h[0] = 0
    <2>1. ASSUME NEW k \in 0..i PROVE e[k] \in Nat
      <3>1. k \in 0..m
        BY <1>0
      <3>2. e[k] \in 0..Len(g)
        BY <1>1, <3>1
      <3> QED BY <3>2
    <2> QED BY <1>0, <1>1, <2>1
  <1>3. ASSUME NEW k \in 1..i PROVE h[k] = h[k - 1] + f[k]
    <2>1. k \in 1..m /\ k \in 0..m /\ k - 1 \in 0..m /\ k \in 0..i /\ k - 1 \in 0..i
      BY <1>0
    <2>2. e[k] \in 0..Len(g) /\ e[k - 1] \in 0..e[k]
      <3>1. e[k] \in 0..Len(g) /\ e[k - 1] \in 0..Len(g) /\ e[k - 1] < e[k]
        BY <1>1, <2>1
      <3> QED BY <3>1
    <2>3. Len(p[k]) = e[k] - e[k - 1]
      <3> DEFINE a == e[k - 1]
                 b == e[k]
                 s == p[k]
      <3>1. b \in 0..Len(g) /\ a \in 0..b /\ s = SubSeq(g, a + 1, b)
        BY <1>1, <2>1, <2>2
      <3> HIDE DEF a, b, s
      <3>2. Len(s) = b - a
        BY <3>1, Slice
      <3> QED BY <3>2 DEF a, b, s
    <2>4. h[k] = e[k] /\ h[k - 1] = e[k - 1] /\ f[k] = Len(p[k])
      BY <1>0, <2>1
    <2> HIDE DEF h, f
    <2> QED BY <2>2, <2>3, <2>4
  <1>4. Adds(h, f, i)
    BY <1>2, <1>3 DEF Adds
  <1>5. h[i] = e[i]
    BY <1>0
  <1>6. SumTo(f, i) = h[i]
    <2> HIDE DEF h, f
    <2> QED BY <1>0, <1>4, SumToIs
  <1> QED BY <1>5, <1>6 DEF Taken

LEMMA FitsIs ==
    ASSUME Input, NEW b \in 1..Len(group), NEW a \in 0..(b - 1)
    PROVE  Fits(SubSeq(group, a + 1, b)) <=> Ok(group, cap, byteTarget, a, b)
  <1>0. /\ group \in Seq(Task) /\ b \in 0..Len(group) /\ a \in 0..b
    BY PlanEnds
  <1>1. Len(SubSeq(group, a + 1, b)) = b - a
    BY <1>0, Slice
  <1>2. Bytes(SubSeq(group, a + 1, b)) = Weight(group, b) - Weight(group, a)
    BY <1>0, SliceBytes
  <1> QED BY <1>1, <1>2 DEF Fits, Ok

(* For every list of tasks, policy and byte target, build_batches loses,   *)
(* duplicates and reorders no task, returns no empty batch, and exceeds a  *)
(* cap only with a single task that is over it.                            *)
THEOREM PlanPartitions == Input => PlanIsAPartition
  <1> SUFFICES ASSUME Input PROVE PlanIsAPartition
    OBVIOUS
  <1> DEFINE g == group
             p == plan
             m == Len(p)
  <1>1. /\ g \in Seq(Task) /\ p \in Seq(Seq(Task))
        /\ \E e : Greedy(e, p, g, cap, byteTarget) /\ e[m] = Len(g)
    BY PlanEnds DEF Ends
  <1>2. PICK e : Greedy(e, p, g, cap, byteTarget) /\ e[m] = Len(g)
    BY <1>1
  <1>3. ASSUME NEW i \in 1..m
        PROVE  /\ p[i] # <<>> /\ Fits(p[i])
               /\ p[i] = SubSeq(g, Taken(p, i - 1) + 1, Taken(p, i))
    <2>0. i \in 0..m /\ i - 1 \in 0..m
      BY <1>1
    <2>1. /\ e[i] \in 0..Len(g) /\ e[i - 1] \in 0..Len(g) /\ e[i - 1] < e[i]
          /\ p[i] = SubSeq(g, e[i - 1] + 1, e[i])
          /\ Ok(g, cap, byteTarget, e[i - 1], e[i])
      BY <1>2, <2>0 DEF Greedy
    <2>2. /\ e[i] \in 1..Len(g) /\ e[i - 1] \in 0..(e[i] - 1)
          /\ e[i - 1] \in 0..e[i] /\ e[i] - e[i - 1] # 0
      <3> HIDE DEF g
      <3> QED BY <2>1
    <2>3. Fits(p[i])
      BY <2>1, <2>2, FitsIs
    <2>4. p[i] # <<>>
      <3>1. Len(p[i]) = e[i] - e[i - 1]
        <4>1. /\ g \in Seq(Task) /\ e[i] \in 0..Len(g) /\ e[i - 1] \in 0..e[i]
              /\ p[i] = SubSeq(g, e[i - 1] + 1, e[i])
          BY <1>1, <2>1, <2>2
        <4> HIDE DEF g, p
        <4> QED BY <4>1, Slice
      <3>2. Len(<<>>) = 0
        OBVIOUS
      <3> HIDE DEF p
      <3> QED BY <2>2, <3>1, <3>2
    <2>5. Taken(p, i) = e[i] /\ Taken(p, i - 1) = e[i - 1]
      BY <1>1, <1>2, <2>0, TakenIs
    <2> QED BY <2>1, <2>3, <2>4, <2>5
  <1>4. Taken(p, m) = Len(g)
    <2>1. m \in 0..m
      BY <1>1
    <2> QED BY <1>1, <1>2, <2>1, TakenIs
  <1>5. DOMAIN p = 1..m
    BY <1>1
  <1> HIDE DEF p, g
  <1>6. Partitions(p, g)
    BY <1>3, <1>4, <1>5 DEF Partitions
  <1> QED BY <1>6 DEF p, g, PlanIsAPartition

-----------------------------------------------------------------------------
(* No cut within the caps needs fewer batches than a greedy plan.          *)

LEMMA EndsRise ==
    ASSUME NEW n \in Nat, NEW m \in Nat, NEW e \in [0..m -> 0..n],
           \A i \in 1..m : e[i - 1] < e[i],
           NEW k \in 0..m, NEW i \in 0..k
    PROVE  e[i] <= e[k] /\ (i # k => e[i] < e[k])
  <1> DEFINE T == {x \in 0..m : i < x /\ ~(e[i] < e[x])}
  <1>0. i \in Nat /\ k \in Nat /\ i <= k /\ i \in 0..m
    OBVIOUS
  <1>1. 0 \notin T
    BY <1>0
  <1>2. ASSUME NEW x \in 1..m, x \in T PROVE x - 1 \in T
    <2>1. x \in 0..m /\ x - 1 \in 0..m /\ x \in Nat
      OBVIOUS
    <2>2. e[x] \in Nat /\ e[x - 1] \in Nat /\ e[i] \in Nat /\ e[x - 1] < e[x]
      BY <1>0, <2>1
    <2>3. i < x /\ ~(e[i] < e[x])
      BY <1>2
    <2>4. ~(e[i] < e[x - 1])
      BY <2>2, <2>3
    <2>5. i # x - 1
      BY <2>2, <2>3
    <2>6. i < x - 1
      BY <1>0, <2>1, <2>3, <2>5
    <2> QED BY <2>1, <2>4, <2>6
  <1>3. T = {}
    <2>1. T \in SUBSET (0..m)  OBVIOUS
    <2> HIDE DEF T
    <2>2. \A x \in 1..m : x \in T => x - 1 \in T  BY <1>2
    <2> QED BY <1>1, <2>1, <2>2, NoLeast
  <1>4. i # k => e[i] < e[k]
    <2>1. i # k => i < k
      BY <1>0
    <2> QED BY <1>3, <2>1
  <1>5. e[i] \in Nat /\ e[k] \in Nat
    BY <1>0
  <1> QED BY <1>4, <1>5

(* A batch that holds all of a full one, and the next task, may not be     *)
(* given.                                                                  *)
LEMMA Overfull ==
    ASSUME NEW g \in Seq(Task), NEW c \in Nat \ {0}, NEW t \in Nat,
           NEW a \in 0..Len(g), NEW b \in 0..Len(g), a < b, Full(g, c, t, a, b),
           NEW x \in 0..a, NEW y \in 0..Len(g), b < y
    PROVE  ~Ok(g, c, t, x, y)
  <1>0. /\ Len(g) \in Nat /\ a \in Nat /\ b \in Nat /\ x \in Nat /\ y \in Nat
        /\ x <= a /\ y <= Len(g) /\ b + 1 \in 0..y /\ x \in 0..Len(g)
        /\ b + 1 \in 0..Len(g)
    OBVIOUS
  <1>1. /\ Weight(g, b + 1) <= Weight(g, y) /\ Weight(g, x) <= Weight(g, a)
    BY <1>0, WeightGrows
  <1> DEFINE wa == Weight(g, a)
             wb == Weight(g, b + 1)
             wx == Weight(g, x)
             wy == Weight(g, y)
  <1>2. wa \in Nat /\ wb \in Nat /\ wx \in Nat /\ wy \in Nat
    BY <1>0, WeightSteps
  <1>3. b - a >= c \/ (t # 0 /\ wb - wa > t)
    BY DEF Full
  <1> HIDE DEF wa, wb, wx, wy
  <1>4. wb <= wy /\ wx <= wa
    BY <1>1 DEF wa, wb, wx, wy
  <1>5. y - x # 1 /\ (b - a >= c => ~(y - x <= c))
    BY <1>0
  <1>6. wb - wa > t => ~(wy - wx <= t)
    BY <1>2, <1>4
  <1> QED BY <1>3, <1>5, <1>6 DEF Ok, wx, wy

(* The positions in cut are the ends of batches that may be given.         *)
Allowed(cut, g, c, t) ==
    /\ cut \in SUBSET (1..Len(g))
    /\ Len(g) > 0 => Len(g) \in cut
    /\ \A i \in cut, j \in {0} \cup cut :
          j < i /\ (\A k \in cut : k <= j \/ i <= k) => Ok(g, c, t, j, i)

(* Every batch of a greedy plan holds the end of one of the cut.           *)
LEMMA CutMeetsBatch ==
    ASSUME NEW g \in Seq(Task), NEW c \in Nat \ {0}, NEW t \in Nat,
           NEW p \in Seq(Seq(Task)), NEW e, Greedy(e, p, g, c, t),
           NEW cut, Allowed(cut, g, c, t), NEW i \in 1..Len(p)
    PROVE  \E x \in cut : e[i - 1] < x /\ x <= e[i]
  <1> SUFFICES ASSUME \A x \in cut : ~(e[i - 1] < x /\ x <= e[i]) PROVE FALSE
    OBVIOUS
  <1> DEFINE n == Len(g)
             a == e[i - 1]
             b == e[i]
             above == {x \in cut : a < x}
             below == {x \in {0} \cup cut : x <= a}
  <1>1. /\ a \in 0..n /\ b \in 0..n /\ a < b /\ n \in Nat
        /\ b < n => Full(g, c, t, a, b)
    <2>1. i \in 0..Len(p) /\ i - 1 \in 0..Len(p) /\ n \in Nat
      OBVIOUS
    <2>2. e \in [0..Len(p) -> 0..n]
      BY DEF Greedy
    <2>3. a < b /\ (b < n => Full(g, c, t, a, b))
      BY DEF Greedy
    <2> HIDE DEF n
    <2> QED BY <2>1, <2>2, <2>3
  <1>2. cut \in SUBSET (1..n) /\ (n > 0 => n \in cut)
    BY DEF Allowed
  <1>3. \A x \in cut : a < x => b < x
    <2> HIDE DEF n
    <2>1. \A x \in cut : ~(a < x /\ x <= b)
      OBVIOUS
    <2> HIDE DEF a, b
    <2> QED BY <1>1, <1>2, <2>1
  <1> HIDE DEF n, a, b
  <1>4. PICK y \in above : \A z \in above : y <= z
    <2>1. n \in above
      BY <1>1, <1>2
    <2>2. above \subseteq Nat /\ above # {}
      <3>1. \A z \in cut : z \in Nat
        BY <1>1, <1>2
      <3> QED BY <2>1, <3>1
    <2> HIDE DEF above
    <2> QED BY <2>2, LeastNatural
  <1>5. PICK x \in below : \A z \in below : z <= x
    <2>1. 0 \in below
      BY <1>1
    <2>2. below \in SUBSET (0..n) /\ below # {}
      <3>1. \A z \in {0} \cup cut : z \in 0..n
        BY <1>1, <1>2
      <3> QED BY <2>1, <3>1
    <2> HIDE DEF below
    <2> QED BY <1>1, <2>2, Greatest
  <1>6. /\ y \in cut /\ b < y /\ y \in 0..n
        /\ x \in {0} \cup cut /\ x \in 0..a /\ x < y
    BY <1>1, <1>2, <1>3
  <1>7. ASSUME NEW z \in cut PROVE z <= x \/ y <= z
    <2>1. z \in Nat /\ a \in Nat
      BY <1>1, <1>2
    <2>2. a < z \/ z <= a
      BY <2>1
    <2> QED BY <1>4, <1>5, <2>2
  <1>8. Ok(g, c, t, x, y)
    BY <1>6, <1>7 DEF Allowed
  <1>9. Full(g, c, t, a, b)
    BY <1>1, <1>6
  <1> QED BY <1>1, <1>6, <1>8, <1>9, Overfull DEF n

LEMMA GreedyIsShortest ==
    ASSUME NEW g \in Seq(Task), NEW c \in Nat \ {0}, NEW t \in Nat,
           NEW p, Ends(p, Len(g), g, c, t), NEW cut, Allowed(cut, g, c, t)
    PROVE  Len(p) <= Cardinality(cut)
  <1> DEFINE n == Len(g)
             m == Len(p)
  <1>1. p \in Seq(Seq(Task)) /\ m \in Nat /\ n \in Nat
    BY DEF Ends
  <1>2. PICK e : Greedy(e, p, g, c, t)
    BY DEF Ends
  <1>3. e \in [0..m -> 0..n] /\ \A i \in 1..m : e[i - 1] < e[i]
    BY <1>2 DEF Greedy
  <1>4. \A i \in 1..m : \E x \in cut : e[i - 1] < x /\ x <= e[i]
    BY <1>1, <1>2, CutMeetsBatch
  <1> DEFINE f == [i \in 1..m |-> CHOOSE x \in cut : e[i - 1] < x /\ x <= e[i]]
  <1>5. ASSUME NEW i \in 1..m
        PROVE  f[i] \in cut /\ e[i - 1] < f[i] /\ f[i] <= e[i]
    BY <1>4
  <1> HIDE DEF n, m, f
  <1>6. /\ cut \in SUBSET (1..n) /\ IsFiniteSet(cut)
        /\ \A x \in cut : x \in Nat
    <2>1. /\ cut \in SUBSET (1..n)
          /\ \A x \in cut : x \in 1..n
          /\ \A x \in 1..n : x \in Nat
      BY <1>1 DEF Allowed, n
    <2>2. IsFiniteSet(1..n)
      BY <1>1, FS_Interval
    <2> QED BY <2>1, <2>2, FS_Subset
  <1>7. ASSUME NEW i \in 1..m, NEW j \in 1..m, i < j PROVE f[i] < f[j]
    <2>1. j - 1 \in 0..m /\ i \in 0..(j - 1) /\ i \in 0..m
      BY <1>1, <1>7
    <2>2. e[i] <= e[j - 1]
      BY <1>1, <1>3, <2>1, EndsRise
    <2>3. e[i] \in Nat /\ e[j - 1] \in Nat
      BY <1>3, <2>1
    <2>4. f[i] \in Nat /\ f[j] \in Nat
      BY <1>5, <1>6
    <2>5. f[i] <= e[i] /\ e[j - 1] < f[j]
      BY <1>5
    <2> QED BY <2>2, <2>3, <2>4, <2>5
  <1>8. f \in Injection(1..m, cut)
    <2>1. f \in [1..m -> cut]
      BY <1>5 DEF f
    <2>2. ASSUME NEW i \in 1..m, NEW j \in 1..m, i # j PROVE f[i] # f[j]
      <3>1. f[i] \in Nat /\ f[j] \in Nat
        BY <1>5, <1>6
      <3>2. i < j \/ j < i
        BY <1>1, <2>2
      <3> QED BY <1>7, <3>1, <3>2
    <2> QED BY <2>1, <2>2 DEF Injection, IsInjective
  <1>9. Cardinality(1..m) = m
    BY <1>1, FS_Interval
  <1> QED BY <1>6, <1>8, <1>9, FS_Injection DEF m

(* No other way to cut the tasks, in order, into batches within the caps   *)
(* takes fewer execute() calls than the plan of build_batches.             *)
THEOREM PlanIsOptimal == Input => PlanIsShortest
  <1> SUFFICES ASSUME Input, NEW cut \in Cuts(group)
               PROVE  Len(plan) <= Cardinality(cut)
    BY DEF PlanIsShortest
  <1>1. /\ group \in Seq(Task) /\ cap \in Nat \ {0} /\ byteTarget \in Nat
        /\ Ends(plan, Len(group), group, cap, byteTarget)
    BY PlanEnds
  <1>2. /\ cut \in SUBSET (1..Len(group))
        /\ Len(group) > 0 => Len(group) \in cut
        /\ \A i \in cut, j \in {0} \cup cut :
              j < i /\ (\A k \in cut : k <= j \/ i <= k)
                  => Fits(SubSeq(group, j + 1, i))
    BY DEF Cuts
  <1>3. ASSUME NEW i \in cut, NEW j \in {0} \cup cut, j < i
        PROVE  Fits(SubSeq(group, j + 1, i)) <=> Ok(group, cap, byteTarget, j, i)
    <2>1. i \in 1..Len(group) /\ j \in 0..(i - 1)
      BY <1>1, <1>2, <1>3
    <2> QED BY <2>1, FitsIs
  <1>4. Allowed(cut, group, cap, byteTarget)
    BY <1>2, <1>3 DEF Allowed
  <1> QED BY <1>1, <1>4, GreedyIsShortest

-----------------------------------------------------------------------------
(* A byte target only splits batches.                                      *)

LEMMA EndsAreACut ==
    ASSUME NEW g \in Seq(Task), NEW c \in Nat \ {0}, NEW t \in Nat,
           NEW p, Ends(p, Len(g), g, c, t)
    PROVE  \E cut : Allowed(cut, g, c, 0) /\ Cardinality(cut) <= Len(p)
  <1> DEFINE n == Len(g)
             m == Len(p)
  <1>1. p \in Seq(Seq(Task)) /\ m \in Nat /\ n \in Nat
    BY DEF Ends
  <1>2. PICK e : Greedy(e, p, g, c, t) /\ e[m] = n
    BY DEF Ends
  <1>3. /\ e \in [0..m -> 0..n] /\ e[0] = 0
        /\ \A i \in 1..m : e[i - 1] < e[i] /\ Ok(g, c, t, e[i - 1], e[i])
    BY <1>2 DEF Greedy
  <1> DEFINE cut == {e[i] : i \in 1..m}
             f == [i \in 1..m |-> e[i]]
  <1> HIDE DEF n, m
  <1>4. ASSUME NEW i \in 0..m, NEW k \in 0..m
        PROVE  /\ e[i] \in Nat /\ e[k] \in Nat
               /\ i <= k => e[i] <= e[k]
               /\ e[i] < e[k] => i < k
    <2>1. i \in Nat /\ k \in Nat /\ (i <= k => i \in 0..k) /\ (k <= i => k \in 0..i)
          /\ (~(i < k) => k <= i)
      BY <1>1
    <2>2. e[i] \in 0..n /\ e[k] \in 0..n
      BY <1>3
    <2>3. e[i] \in Nat /\ e[k] \in Nat
      BY <1>1, <2>2
    <2>4. (i \in 0..k => e[i] <= e[k]) /\ (k \in 0..i => e[k] <= e[i])
      BY <1>1, <1>3, EndsRise
    <2> QED BY <2>1, <2>3, <2>4
  <1>5. ASSUME NEW i \in 1..m PROVE e[i] \in 1..n
    <2>1. i \in 0..m /\ i - 1 \in 0..m
      BY <1>1
    <2>2. e[i] \in 0..n /\ e[i - 1] \in 0..n /\ e[i - 1] < e[i]
      BY <1>3, <2>1
    <2> QED BY <1>1, <2>2
  <1>6. n > 0 => n \in cut
    <2>1. n > 0 => m \in 1..m
      <3>1. m = 0 => n = 0
        BY <1>2, <1>3 DEF m, n
      <3> QED BY <1>1, <3>1
    <2>2. e[m] = n
      BY <1>2 DEF m, n
    <2> QED BY <2>1, <2>2
  <1>7. ASSUME NEW x \in cut, NEW y \in {0} \cup cut, y < x,
               \A z \in cut : z <= y \/ x <= z
        PROVE  Ok(g, c, 0, y, x)
    <2>1. PICK k \in 1..m : x = e[k]
      OBVIOUS
    <2>2. k \in 0..m /\ k - 1 \in 0..m /\ k \in Nat
      BY <1>1
    <2>3. PICK l \in 0..m : y = e[l]
      <3>1. 0 \in 0..m /\ 1..m \subseteq 0..m
        BY <1>1
      <3> QED BY <1>3, <3>1
    <2>4. y <= e[k - 1]
      <3>1. l < k
        BY <1>4, <1>7, <2>1, <2>2, <2>3
      <3>2. l <= k - 1
        BY <2>2, <3>1
      <3> QED BY <1>4, <2>2, <2>3, <3>2
    <2>5. e[k - 1] <= y
      <3>1. CASE k - 1 = 0
        <4>1. e[k - 1] = 0 /\ y \in Nat
          BY <1>3, <1>4, <2>3, <3>1
        <4> QED BY <4>1
      <3>2. CASE k - 1 # 0
        <4>1. k - 1 \in 1..m
          BY <2>2, <3>2
        <4>2. e[k - 1] \in cut
          BY <4>1
        <4>3. e[k - 1] < x /\ e[k - 1] \in Nat /\ x \in Nat
          BY <1>3, <1>4, <2>1, <2>2
        <4>4. e[k - 1] <= y \/ x <= e[k - 1]
          BY <1>7, <4>2
        <4> QED BY <4>3, <4>4
      <3> QED BY <3>1, <3>2
    <2>6. y = e[k - 1]
      <3>1. y \in Nat /\ e[k - 1] \in Nat
        BY <1>4, <2>2, <2>3
      <3> QED BY <2>4, <2>5, <3>1
    <2>7. Ok(g, c, t, y, x)
      BY <1>3, <2>1, <2>6
    <2> QED BY <2>7 DEF Ok
  <1>8. Allowed(cut, g, c, 0)
    <2>1. cut \in SUBSET (1..n)
      BY <1>5
    <2> HIDE DEF cut
    <2> QED BY <1>6, <1>7, <2>1 DEF Allowed, n
  <1>9. Cardinality(cut) <= m
    <2>1. f \in Surjection(1..m, cut)
      BY DEF Surjection
    <2>2. IsFiniteSet(1..m) /\ Cardinality(1..m) = m
      BY <1>1, FS_Interval
    <2> HIDE DEF f, cut
    <2> QED BY <2>1, <2>2, FS_Surjection
  <1> HIDE DEF cut
  <1> QED BY <1>8, <1>9 DEF m

(* Two greedy plans of the same tasks end their batches alike.             *)
Agree(e, f, m, l) == \A k \in 0..m : k <= l => e[k] = f[k]

LEMMA GreedyAgree ==
    ASSUME NEW g \in Seq(Task), NEW c \in Nat \ {0}, NEW t \in Nat,
           NEW p \in Seq(Seq(Task)), NEW q \in Seq(Seq(Task)), NEW e, NEW f,
           Greedy(e, p, g, c, t), Greedy(f, q, g, c, t)
    PROVE  Agree(e, f, Len(p), Len(q))
  <1> DEFINE m == Len(p)
             T == {k \in 0..m : k <= Len(q) /\ e[k] # f[k]}
  <1>1. m \in Nat /\ Len(q) \in Nat /\ Len(g) \in Nat
    OBVIOUS
  <1>2. 0 \notin T
    BY DEF Greedy
  <1>3. ASSUME NEW k \in 1..m, k \in T, k - 1 \notin T PROVE FALSE
    <2>1. /\ k \in 1..Len(q) /\ k \in 0..m /\ k - 1 \in 0..m
          /\ k \in 0..Len(q) /\ k - 1 \in 0..Len(q) /\ k - 1 <= Len(q)
      BY <1>1, <1>3
    <2>2. e[k] # f[k] /\ e[k - 1] = f[k - 1]
      BY <1>3, <2>1
    <2> DEFINE n == Len(g)
               a == e[k - 1]
               b == e[k]
               d == f[k]
    <2>3. /\ a \in 0..n /\ b \in 0..n /\ a < b /\ Ok(g, c, t, a, b)
          /\ b < n => Full(g, c, t, a, b)
      <3>1. e \in [0..m -> 0..n]
        BY DEF Greedy
      <3>2. a < b /\ Ok(g, c, t, a, b) /\ (b < n => Full(g, c, t, a, b))
        BY DEF Greedy
      <3> HIDE DEF n
      <3> QED BY <2>1, <3>1, <3>2
    <2>4. /\ d \in 0..n /\ a < d /\ Ok(g, c, t, a, d)
          /\ d < n => Full(g, c, t, a, d)
      <3>1. f \in [0..Len(q) -> 0..n]
        BY DEF Greedy
      <3>2. f[k - 1] < d /\ Ok(g, c, t, f[k - 1], d)
            /\ (d < n => Full(g, c, t, f[k - 1], d))
        BY <2>1 DEF Greedy
      <3> HIDE DEF n
      <3> QED BY <2>1, <2>2, <3>1, <3>2
    <2> HIDE DEF a, b, d
    <2>5. n \in Nat /\ a \in 0..a
      BY <1>1, <2>3
    <2>6. ~(b < d)
      <3> SUFFICES ASSUME b < d PROVE FALSE
        OBVIOUS
      <3>1. b < n
        BY <2>3, <2>4, <2>5
      <3> QED BY <2>3, <2>4, <2>5, <3>1, Overfull
    <2>7. ~(d < b)
      <3> SUFFICES ASSUME d < b PROVE FALSE
        OBVIOUS
      <3>1. d < n
        BY <2>3, <2>4, <2>5
      <3> QED BY <2>3, <2>4, <2>5, <3>1, Overfull
    <2>8. b # d
      BY <2>2 DEF b, d
    <2> QED BY <2>3, <2>4, <2>5, <2>6, <2>7, <2>8
  <1>4. T = {}
    <2>1. T \in SUBSET (0..m)  OBVIOUS
    <2>2. \A k \in 1..m : k \in T => k - 1 \in T  BY <1>3
    <2> HIDE DEF T
    <2> QED BY <1>1, <1>2, <2>1, <2>2, NoLeast
  <1> QED BY <1>4 DEF Agree

LEMMA NoLonger ==
    ASSUME NEW g \in Seq(Task), NEW c \in Nat \ {0}, NEW t \in Nat,
           NEW p \in Seq(Seq(Task)), NEW q \in Seq(Seq(Task)), NEW e, NEW f,
           Greedy(e, p, g, c, t), Greedy(f, q, g, c, t), e[Len(p)] = Len(g)
    PROVE  Len(q) <= Len(p)
  <1> SUFFICES ASSUME ~(Len(q) <= Len(p)) PROVE FALSE
    OBVIOUS
  <1>1. /\ Len(p) \in Nat /\ Len(q) \in Nat /\ Len(p) \in 0..Len(p)
        /\ Len(p) <= Len(q) /\ Len(p) + 1 \in 1..Len(q)
        /\ Len(p) + 1 \in 0..Len(q) /\ (Len(p) + 1) - 1 = Len(p)
    OBVIOUS
  <1>2. f[Len(p)] = Len(g)
    <2>1. Agree(e, f, Len(p), Len(q))
      BY GreedyAgree
    <2>2. e[Len(p)] = f[Len(p)]
      BY <1>1, <2>1 DEF Agree
    <2> QED BY <2>2
  <1> DEFINE k == Len(p) + 1
  <1>3. f[k - 1] < f[k] /\ f[k] \in 0..Len(g) /\ k - 1 = Len(p)
    <2>1. k \in 1..Len(q) /\ k \in 0..Len(q) /\ k - 1 = Len(p)
      BY <1>1
    <2> HIDE DEF k
    <2> QED BY <2>1 DEF Greedy
  <1> HIDE DEF k
  <1>4. Len(g) < f[k] /\ f[k] \in 0..Len(g) /\ Len(g) \in Nat
    BY <1>2, <1>3
  <1> QED BY <1>4

LEMMA GreedyIsUnique ==
    ASSUME NEW g \in Seq(Task), NEW c \in Nat \ {0}, NEW t \in Nat,
           NEW p, NEW q, Ends(p, Len(g), g, c, t), Ends(q, Len(g), g, c, t)
    PROVE  p = q
  <1>1. p \in Seq(Seq(Task)) /\ q \in Seq(Seq(Task))
    BY DEF Ends
  <1>2. PICK e : Greedy(e, p, g, c, t) /\ e[Len(p)] = Len(g)
    BY DEF Ends
  <1>3. PICK f : Greedy(f, q, g, c, t) /\ f[Len(q)] = Len(g)
    BY DEF Ends
  <1>4. Len(p) = Len(q)
    <2>1. Len(q) <= Len(p) /\ Len(p) <= Len(q)
      BY <1>1, <1>2, <1>3, NoLonger
    <2> QED BY <1>1, <2>1
  <1>5. ASSUME NEW i \in 1..Len(p) PROVE p[i] = q[i]
    <2>1. /\ i \in 0..Len(p) /\ i - 1 \in 0..Len(p) /\ i \in 1..Len(q)
          /\ i <= Len(q) /\ i - 1 <= Len(q)
      BY <1>1, <1>4
    <2>2. e[i] = f[i] /\ e[i - 1] = f[i - 1]
      <3>1. Agree(e, f, Len(p), Len(q))
        BY <1>1, <1>2, <1>3, GreedyAgree
      <3> QED BY <2>1, <3>1 DEF Agree
    <2>3. p[i] = SubSeq(g, e[i - 1] + 1, e[i])
      BY <1>2 DEF Greedy
    <2>4. q[i] = SubSeq(g, f[i - 1] + 1, f[i])
      BY <1>3, <2>1 DEF Greedy
    <2> QED BY <2>2, <2>3, <2>4
  <1> QED BY <1>1, <1>4, <1>5, SeqEqual

(* A byte target never makes the plan shorter than counting alone, and     *)
(* changes nothing where no batch by count reaches it.                     *)
THEOREM TargetOnlySplits == Input => BytesOnlyShrinkBatches
  <1> SUFFICES ASSUME Input, policy.mode # "disabled"
               PROVE  LET byCount == Chunks(group, cap)
                      IN  /\ Len(plan) >= Len(byCount)
                          /\ (\A i \in DOMAIN byCount :
                                 Bytes(byCount[i]) <= byteTarget)
                                => plan = byCount
    BY DEF BytesOnlyShrinkBatches
  <1> DEFINE g == group
             c == cap
             t == byteTarget
             p == plan
             q == Chunks(g, c)
  <1>1. /\ g \in Seq(Task) /\ c \in Nat \ {0} /\ t \in Nat
        /\ Ends(p, Len(g), g, c, t) /\ 0 \in Nat
    BY PlanEnds
  <1> HIDE DEF g, c, t, p
  <1>2. Ends(q, Len(g), g, c, 0)
    BY <1>1, ChunksEnd
  <1> HIDE DEF q
  <1>3. p \in Seq(Seq(Task)) /\ q \in Seq(Seq(Task))
    BY <1>1, <1>2 DEF Ends
  <1>4. Len(p) >= Len(q)
    <2>1. PICK cut : Allowed(cut, g, c, 0) /\ Cardinality(cut) <= Len(p)
      BY <1>1, EndsAreACut
    <2>2. Len(q) <= Cardinality(cut)
      BY <1>1, <1>2, <2>1, GreedyIsShortest
    <2>3. Cardinality(cut) \in Nat
      <3>1. cut \in SUBSET (1..Len(g))
        BY <2>1 DEF Allowed
      <3>2. Len(g) \in Int /\ 1 \in Int
        BY <1>1
      <3>3. IsFiniteSet(1..Len(g))
        BY <3>2, FS_Interval
      <3>4. IsFiniteSet(cut)
        BY <3>1, <3>3, FS_Subset
      <3> QED BY <3>4, FS_CardinalityType
    <2>4. Len(p) \in Nat /\ Len(q) \in Nat
      BY <1>3
    <2> QED BY <2>1, <2>2, <2>3, <2>4
  <1>5. ASSUME \A i \in DOMAIN q : Bytes(q[i]) <= t PROVE p = q
    <2>1. PICK e : Greedy(e, q, g, c, 0) /\ e[Len(q)] = Len(g)
      BY <1>2 DEF Ends
    <2>2. ASSUME NEW i \in 1..Len(q)
          PROVE  /\ Ok(g, c, t, e[i - 1], e[i])
                 /\ e[i] < Len(g) => Full(g, c, t, e[i - 1], e[i])
      <3>1. i \in 0..Len(q) /\ i - 1 \in 0..Len(q) /\ i \in DOMAIN q
            /\ Len(g) \in Nat
        BY <1>1, <1>3
      <3>2. /\ e[i] \in 0..Len(g) /\ e[i - 1] \in 0..Len(g) /\ e[i - 1] < e[i]
            /\ q[i] = SubSeq(g, e[i - 1] + 1, e[i])
            /\ Ok(g, c, 0, e[i - 1], e[i])
            /\ e[i] < Len(g) => Full(g, c, 0, e[i - 1], e[i])
        BY <2>1, <3>1 DEF Greedy
      <3>3. e[i - 1] \in 0..e[i]
        BY <3>1, <3>2
      <3>4. Bytes(q[i]) = Weight(g, e[i]) - Weight(g, e[i - 1])
        BY <1>1, <3>2, <3>3, SliceBytes
      <3>5. Weight(g, e[i]) - Weight(g, e[i - 1]) <= t
        BY <1>5, <3>1, <3>4
      <3> QED BY <3>2, <3>5 DEF Ok, Full
    <2>3. Greedy(e, q, g, c, t)
      BY <2>1, <2>2 DEF Greedy
    <2>4. Ends(q, Len(g), g, c, t)
      BY <1>3, <2>1, <2>3 DEF Ends
    <2> QED BY <1>1, <2>4, GreedyIsUnique
  <1> QED BY <1>4, <1>5 DEF g, c, t, p, q
=============================================================================
