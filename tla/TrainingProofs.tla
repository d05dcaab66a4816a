--------------------------- MODULE TrainingProofs ----------------------------
(***************************************************************************)
(* Training implements BatchStream, for every window size, limit and       *)
(* period: the pipeline keeps its batches in order through failures and    *)
(* restarts, updates are whole, and no batch is learnt from twice.         *)
(***************************************************************************)
EXTENDS Training, FiniteSetTheorems, SequenceTheorems, TLAPS

-----------------------------------------------------------------------------
(* The planner and its windows.                                            *)

(* A planner that has handed out all batches up to given, in order.        *)
InStep(p) ==
    /\ p \in Planners
    /\ p.planned = p.given + Len(p.pending)
    /\ \A i \in 1..Len(p.pending) : p.pending[i] = p.given + i

(* The batches that follow batch a, each with the state after it.          *)
RunFrom(s, a) ==
    /\ s \in Seq(Items)
    /\ \A i \in 1..Len(s) :
        /\ s[i].id = a + i
        /\ InStep(s[i].after) /\ s[i].after.given = a + i

LEMMA FreshInStep == InStep(FreshPlanner) /\ FreshPlanner.given = 0
  <1>1. <<>> \in Seq(Nat \ {0}) /\ Len(<<>>) = 0
    BY EmptySeq
  <1> QED BY <1>1 DEF InStep, FreshPlanner, Planners

(* Planning ahead hands nothing out.                                       *)
LEMMA PlannedInStep ==
    ASSUME NEW p, InStep(p)
    PROVE  /\ InStep(Planned(p)) /\ Planned(p).given = p.given
           /\ Len(Planned(p).pending) \in Nat \ {0}
  <1>0. p \in Planners /\ p.given \in Nat /\ p.planned \in Nat
        /\ p.pending \in Seq(Nat \ {0})
    BY DEF InStep, Planners
  <1>w. WindowSize \in Nat \ {0}
    BY ConfigAssumption
  <1>1. CASE p.pending # <<>>
    <2>1. Len(p.pending) \in Nat \ {0}
      BY <1>0, <1>1, EmptySeq
    <2> QED BY <1>1, <2>1 DEF Planned
  <1>2. CASE p.pending = <<>>
    <2> DEFINE q == [i \in 1..WindowSize |-> p.planned + i]
    <2>1. q \in Seq(Nat \ {0}) /\ Len(q) = WindowSize
      <3>1. \A i \in 1..WindowSize : p.planned + i \in Nat \ {0}
        BY <1>0, <1>w
      <3>2. q \in [1..WindowSize -> Nat \ {0}]
        BY <3>1
      <3> QED BY <3>2, <1>w
    <2>2. Planned(p) = [p EXCEPT !.planned = p.planned + WindowSize,
                                 !.pending = q]
      BY <1>2 DEF Planned
    <2>3. p.planned = p.given
      BY <1>0, <1>2 DEF InStep
    <2> HIDE DEF q
    <2>4. Planned(p) = [given |-> p.given, planned |-> p.planned + WindowSize,
                        pending |-> q]
      BY <1>0, <2>2 DEF Planners
    <2>5. \A i \in 1..Len(q) : q[i] = p.given + i
      BY <2>1, <2>3 DEF q
    <2> QED BY SMTT(30), <1>0, <1>w, <2>1, <2>3, <2>4, <2>5 DEF InStep, Planners
  <1> QED BY <1>1, <1>2

LEMMA HandedInStep ==
    ASSUME NEW p, InStep(p), NEW k \in 0..Len(p.pending)
    PROVE  InStep(Handed(p, k)) /\ Handed(p, k).given = p.given + k
  <1>0. p.given \in Nat /\ p.planned \in Nat /\ p.pending \in Seq(Nat \ {0})
        /\ Len(p.pending) \in Nat
    BY DEF InStep, Planners
  <1> DEFINE q == SubSeq(p.pending, k + 1, Len(p.pending))
  <1>k. k \in Nat /\ k <= Len(p.pending)
    BY <1>0
  <1>1. /\ q \in Seq(Nat \ {0})
        /\ Len(q) = Len(p.pending) - k
        /\ \A i \in 1..Len(q) : q[i] = p.pending[k + i]
    <2>0. k + 1 \in Int /\ Len(p.pending) \in Int
      BY <1>0, <1>k
    <2>1. \A i \in (k + 1)..Len(p.pending) : p.pending[i] \in Nat \ {0}
      BY <1>0, <1>k
    <2>2. /\ q \in Seq(Nat \ {0})
          /\ Len(q) = IF k + 1 <= Len(p.pending)
                      THEN Len(p.pending) - (k + 1) + 1 ELSE 0
          /\ \A i \in 1..Len(p.pending) - (k + 1) + 1 :
                 q[i] = p.pending[k + 1 + i - 1]
      BY <2>0, <2>1, SubSeqProperties
    <2>3. Len(q) = Len(p.pending) - k
      BY <1>0, <1>k, <2>2
    <2>4. ASSUME NEW i \in 1..Len(q) PROVE q[i] = p.pending[k + i]
      <3>1. i \in 1..Len(p.pending) - (k + 1) + 1 /\ k + 1 + i - 1 = k + i
        BY <1>0, <1>k, <2>3
      <3> QED BY <2>2, <3>1
    <2> QED BY <2>2, <2>3, <2>4
  <1>2. Handed(p, k) = [p EXCEPT !.given = p.given + k, !.pending = q]
    BY DEF Handed
  <1> HIDE DEF q
  <1>3. Handed(p, k) = [given |-> p.given + k, planned |-> p.planned, pending |-> q]
    BY <1>2 DEF InStep, Planners
  <1>4. ASSUME NEW i \in 1..Len(q) PROVE q[i] = p.given + k + i
    <2>0. i \in Nat \ {0} /\ i <= Len(p.pending) - k
      BY SMTT(30), <1>0, <1>k, <1>1
    <2>1. k + i \in 1..Len(p.pending) /\ p.given + (k + i) = p.given + k + i
      BY <1>0, <1>k, <2>0
    <2> QED BY <1>1, <2>1 DEF InStep
  <1>5. p.planned = (p.given + k) + Len(q)
    BY <1>0, <1>k, <1>1 DEF InStep
  <1>6. Handed(p, k) \in Planners /\ Handed(p, k).given = p.given + k
    BY <1>0, <1>k, <1>1, <1>3 DEF Planners
  <1> QED BY <1>3, <1>4, <1>5, <1>6 DEF InStep

(* The next window goes on where the planner stands.                       *)
LEMMA WindowFollows ==
    ASSUME NEW p, InStep(p)
    PROVE  /\ RunFrom(NextWindow(p), p.given)
           /\ Len(NextWindow(p)) \in Nat \ {0}
           /\ InStep(AfterWindow(p))
           /\ AfterWindow(p).given = p.given + Len(NextWindow(p))
  <1> DEFINE q == Planned(p)
  <1>1. InStep(q) /\ q.given = p.given /\ Len(q.pending) \in Nat \ {0}
    BY PlannedInStep
  <1>2. WindowLen(q) \in Nat \ {0} /\ WindowLen(q) <= Len(q.pending)
    BY <1>1, ConfigAssumption DEF WindowLen
  <1>3. NextWindow(p) = [k \in 1..WindowLen(q) |-> Item(q, k)]
    BY DEF NextWindow
  <1>4. AfterWindow(p) = Handed(q, WindowLen(q))
    BY DEF AfterWindow
  <1> HIDE DEF q
  <1>5. q.given \in Nat
    BY <1>1 DEF InStep, Planners
  <1>6. \A k \in 1..WindowLen(q) :
            /\ Item(q, k) \in Items /\ Item(q, k).id = p.given + k
            /\ InStep(Item(q, k).after) /\ Item(q, k).after.given = p.given + k
    <2> TAKE k \in 1..WindowLen(q)
    <2>1. k \in 1..Len(q.pending) /\ k \in 0..Len(q.pending)
      BY <1>1, <1>2
    <2>2. InStep(Handed(q, k)) /\ Handed(q, k).given = q.given + k
      BY <1>1, <2>1, HandedInStep
    <2>3. q.pending[k] = q.given + k
      BY <1>1, <2>1 DEF InStep
    <2> QED BY <1>1, <1>5, <2>1, <2>2, <2>3 DEF Item, Items, InStep
  <1>7. NextWindow(p) \in Seq(Items) /\ Len(NextWindow(p)) = WindowLen(q)
    <2>1. NextWindow(p) \in [1..WindowLen(q) -> Items]
      BY <1>3, <1>6
    <2> QED BY <1>2, <2>1
  <1>8. RunFrom(NextWindow(p), p.given)
    BY <1>3, <1>6, <1>7 DEF RunFrom
  <1>9. InStep(AfterWindow(p)) /\ AfterWindow(p).given = q.given + WindowLen(q)
    <2>1. WindowLen(q) \in 0..Len(q.pending)
      BY <1>1, <1>2
    <2> QED BY <1>1, <1>4, <2>1, HandedInStep
  <1> QED BY <1>1, <1>2, <1>7, <1>8, <1>9

LEMMA NothingFollows ==
    ASSUME NEW a PROVE RunFrom(<<>>, a) /\ Len(<<>>) = 0
  BY EmptySeq DEF RunFrom

LEMMA FirstAndRest ==
    ASSUME NEW s, NEW a \in Nat, RunFrom(s, a), s # <<>>
    PROVE  /\ Len(s) \in Nat \ {0}
           /\ Head(s) \in Items /\ Head(s).id = a + 1
           /\ InStep(Head(s).after) /\ Head(s).after.given = a + 1
           /\ RunFrom(<<Head(s)>>, a) /\ Len(<<Head(s)>>) = 1
           /\ RunFrom(Tail(s), a + 1) /\ Len(Tail(s)) = Len(s) - 1
  <1>0. s \in Seq(Items) /\ Len(s) \in Nat \ {0}
    BY EmptySeq DEF RunFrom
  <1>1. Head(s) = s[1] /\ Head(s) \in Items
    BY <1>0, HeadTailProperties
  <1>2. Head(s).id = a + 1 /\ InStep(Head(s).after) /\ Head(s).after.given = a + 1
    BY <1>0, <1>1 DEF RunFrom
  <1>3. /\ Tail(s) \in Seq(Items) /\ Len(Tail(s)) = Len(s) - 1
        /\ \A i \in 1..Len(Tail(s)) : Tail(s)[i] = s[i + 1]
    BY <1>0, HeadTailProperties
  <1>4. RunFrom(Tail(s), a + 1)
    <2> SUFFICES ASSUME NEW i \in 1..Len(Tail(s))
                 PROVE  /\ s[i + 1].id = a + 1 + i
                        /\ InStep(s[i + 1].after)
                        /\ s[i + 1].after.given = a + 1 + i
      BY <1>3 DEF RunFrom
    <2>1. i + 1 \in 1..Len(s) /\ a + (i + 1) = a + 1 + i
      BY <1>0, <1>3
    <2> QED BY <2>1 DEF RunFrom
  <1>5. RunFrom(<<Head(s)>>, a) /\ Len(<<Head(s)>>) = 1
    <2>1. <<Head(s)>> \in Seq(Items) /\ Len(<<Head(s)>>) = 1 /\ <<Head(s)>>[1] = Head(s)
      BY <1>1
    <2> QED BY <1>2, <2>1 DEF RunFrom
  <1> QED BY <1>0, <1>1, <1>2, <1>3, <1>4, <1>5

(* Loading marks the batches and moves none.                               *)
LEMMA LoadedInPlace ==
    ASSUME NEW s, NEW a, RunFrom(s, a), NEW bad
    PROVE  LET t == [i \in DOMAIN s |-> [s[i] EXCEPT !.ok = i \notin bad]]
           IN  RunFrom(t, a) /\ Len(t) = Len(s) /\ (s # <<>> => t # <<>>)
  <1> DEFINE t == [i \in DOMAIN s |-> [s[i] EXCEPT !.ok = i \notin bad]]
  <1>0. s \in Seq(Items) /\ Len(s) \in Nat /\ DOMAIN s = 1..Len(s)
    BY DEF RunFrom
  <1>1. \A i \in 1..Len(s) :
            t[i] \in Items /\ t[i].id = s[i].id /\ t[i].after = s[i].after
    <2> TAKE i \in 1..Len(s)
    <2>1. s[i] \in Items
      BY <1>0
    <2>2. t[i] = [s[i] EXCEPT !.ok = i \notin bad]
      BY <1>0
    <2>3. (i \notin bad) \in BOOLEAN
      OBVIOUS
    <2> QED BY <2>1, <2>2, <2>3 DEF Items
  <1>2. t \in Seq(Items) /\ Len(t) = Len(s)
    <2>1. t \in [1..Len(s) -> Items]
      BY <1>0, <1>1
    <2> QED BY <1>0, <2>1
  <1>3. s # <<>> => t # <<>>
    BY <1>0, <1>2, EmptySeq
  <1> HIDE DEF t
  <1>4. RunFrom(t, a)
    BY <1>1, <1>2 DEF RunFrom
  <1> QED BY <1>2, <1>3, <1>4 DEF t

-----------------------------------------------------------------------------
(* What holds whenever a step ends.                                        *)

Making == {"plan", "reserve", "load", "put"}
Broken == {"fail", "fail join", "failed", "killed"}
Quiet  == {"validate", "save", "prune", "final validate", "final save",
           "final prune", "finish", "join end", "done"}
Taking == {"fetch", "empty", "step"}

AfterFlight == committed.given + Len(inFlight)
AfterActive == AfterFlight + Len(active)
AfterQueued == AfterActive + Len(Queued)
AfterAll    == AfterQueued + Len(window)

(* The places of the pipeline hold consecutive runs of batches.            *)
Chain ==
    /\ InStep(planner) /\ InStep(committed)
    /\ RunFrom(inFlight, committed.given)
    /\ RunFrom(active, AfterFlight)
    /\ RunFrom(Queued, AfterActive)
    /\ RunFrom(window, AfterQueued)
    /\ producer \in Making => planner.given = AfterAll
    /\ batchIndex = committed.given

(* Which places are occupied when.                                         *)
Shape ==
    /\ producer \in Making \cup {"fail", "ending", "dead"}
    /\ trainer \in Taking \cup Quiet \cup Broken \cup {"top", "join", "update"}
    /\ queue \in Seq([failed : BOOLEAN, items : Seq(Items)]) /\ Len(queue) <= 1
    /\ queue # <<>> => (queue[1].failed <=> queue[1].items = <<>>)
    /\ producer \in {"reserve", "load", "put"} <=> window # <<>>
    /\ Len(inFlight) <= 1
    /\ inFlight # <<>> => trainer \in Broken \cup {"step"}
    /\ trainer = "step" => inFlight # <<>>

(* The checkpoints are states of the same kind.                            *)
Shelf ==
    /\ IsFiniteSet(disk)
    /\ \A c \in disk : /\ c.step \in Nat
                       /\ InStep(c.planner) /\ c.batchIndex = c.planner.given
                       /\ c.model \in Seq(SUBSET (Nat \ {0}))
                       /\ \A i \in DOMAIN c.model :
                              Cardinality(c.model[i]) = Accumulation

Rest ==
    /\ stop \in BOOLEAN /\ validated \in BOOLEAN /\ elapsed \in BOOLEAN
    /\ faults \in 0..MaxFaults /\ restarts \in 0..MaxRestarts

(* The gradients grow by one batch at a time up to a whole update.         *)
Learning ==
    /\ micro \in 0..Accumulation
    /\ grads \subseteq 1..committed.given
    /\ trainer \in Taking => micro < Accumulation /\ Cardinality(grads) = micro
    /\ trainer = "update" => Cardinality(grads) = Accumulation
    /\ trainer \in Quiet => grads = {}
    /\ model \in Seq(SUBSET (Nat \ {0}))
    /\ UpdatesAreWhole

LEMMA ChainTypes ==
    ASSUME Chain
    PROVE  /\ committed.given \in Nat /\ planner.given \in Nat
           /\ planner \in Planners /\ committed \in Planners
           /\ batchIndex \in Nat
           /\ inFlight \in Seq(Items) /\ Len(inFlight) \in Nat
           /\ active \in Seq(Items) /\ Len(active) \in Nat
           /\ Queued \in Seq(Items) /\ Len(Queued) \in Nat
           /\ window \in Seq(Items) /\ Len(window) \in Nat
           /\ AfterFlight \in Nat /\ AfterActive \in Nat /\ AfterQueued \in Nat
           /\ AfterAll \in Nat
  <1>1. committed.given \in Nat /\ planner.given \in Nat
        /\ planner \in Planners /\ committed \in Planners /\ batchIndex \in Nat
    BY DEF Chain, InStep, Planners
  <1>2. /\ inFlight \in Seq(Items) /\ active \in Seq(Items)
        /\ Queued \in Seq(Items) /\ window \in Seq(Items)
    BY DEF Chain, RunFrom
  <1>3. /\ Len(inFlight) \in Nat /\ Len(active) \in Nat
        /\ Len(Queued) \in Nat /\ Len(window) \in Nat
    BY <1>2
  <1>4. AfterFlight \in Nat  BY <1>1, <1>3 DEF AfterFlight
  <1>5. AfterActive \in Nat  BY <1>3, <1>4 DEF AfterActive
  <1>6. AfterQueued \in Nat  BY <1>3, <1>5 DEF AfterQueued
  <1>7. AfterAll \in Nat     BY <1>3, <1>6 DEF AfterAll
  <1> QED BY <1>1, <1>2, <1>3, <1>4, <1>5, <1>6, <1>7

LEMMA TypesFollow ==
    ASSUME Chain, Shape, Shelf, Rest, Learning PROVE TypeOK
  <1>1. grads \in SUBSET (Nat \ {0})
    <2>1. committed.given \in Nat  BY ChainTypes
    <2>2. 1..committed.given \subseteq Nat \ {0}  BY <2>1
    <2> QED BY <2>2 DEF Learning
  <1>2. \A c \in disk : c.planner \in Planners /\ c.batchIndex \in Nat
    BY DEF Shelf, InStep, Planners
  <1> QED BY <1>1, <1>2, ChainTypes
          DEF TypeOK, Shape, Shelf, Rest, Learning, Making, Taking, Quiet, Broken

LEMMA OrderFollows ==
    ASSUME Chain PROVE PipelineIsInOrder
  <1>0. /\ inFlight \in Seq(Items) /\ Len(inFlight) \in Nat
        /\ active \in Seq(Items) /\ Len(active) \in Nat
        /\ Queued \in Seq(Items) /\ Len(Queued) \in Nat
        /\ window \in Seq(Items) /\ Len(window) \in Nat
        /\ committed.given \in Nat
    BY ChainTypes
  <1> DEFINE At(x, i) == x.id = committed.given + i /\ x.after.given = x.id
             two   == inFlight \o active
             three == two \o Queued
             four  == three \o window
  <1>1. two \in Seq(Items) /\ \A i \in 1..Len(two) : At(two[i], i)
    <2>1. two \in Seq(Items) /\ Len(two) = Len(inFlight) + Len(active)
      BY <1>0, ConcatProperties
    <2>2. ASSUME NEW i \in 1..Len(two) PROVE At(two[i], i)
      <3>1. two[i] = IF i <= Len(inFlight) THEN inFlight[i] ELSE active[i - Len(inFlight)]
        BY <1>0, <2>1, ConcatProperties
      <3>2. CASE i <= Len(inFlight)
        <4>1. i \in 1..Len(inFlight)  BY <1>0, <3>2
        <4> QED BY <3>1, <3>2, <4>1 DEF Chain, RunFrom
      <3>3. CASE ~(i <= Len(inFlight))
        <4> DEFINE k == i - Len(inFlight)
        <4>1. k \in 1..Len(active) /\ AfterFlight + k = committed.given + i
          BY <1>0, <2>1, <3>3 DEF AfterFlight
        <4> QED BY <3>1, <3>3, <4>1 DEF Chain, RunFrom
      <3> QED BY <3>2, <3>3
    <2> QED BY <2>1, <2>2
  <1>2. three \in Seq(Items) /\ \A i \in 1..Len(three) : At(three[i], i)
    <2>0. Len(two) = Len(inFlight) + Len(active) /\ Len(two) \in Nat
      BY <1>0, ConcatProperties
    <2>1. three \in Seq(Items) /\ Len(three) = Len(two) + Len(Queued)
      BY <1>0, <1>1, ConcatProperties
    <2>2. ASSUME NEW i \in 1..Len(three) PROVE At(three[i], i)
      <3>1. three[i] = IF i <= Len(two) THEN two[i] ELSE Queued[i - Len(two)]
        BY <1>0, <1>1, <2>1, ConcatProperties
      <3>2. CASE i <= Len(two)
        <4>1. i \in 1..Len(two)  BY <2>0, <3>2
        <4> QED BY <1>1, <3>1, <3>2, <4>1
      <3>3. CASE ~(i <= Len(two))
        <4> DEFINE k == i - Len(two)
        <4>1. k \in 1..Len(Queued) /\ AfterActive + k = committed.given + i
          BY <1>0, <2>0, <2>1, <3>3 DEF AfterFlight, AfterActive
        <4> QED BY <3>1, <3>3, <4>1 DEF Chain, RunFrom
      <3> QED BY <3>2, <3>3
    <2> QED BY <2>1, <2>2
  <1>3. four \in Seq(Items) /\ \A i \in 1..Len(four) : At(four[i], i)
    <2>0. /\ Len(three) = Len(inFlight) + Len(active) + Len(Queued)
          /\ Len(three) \in Nat
      <3>1. Len(two) = Len(inFlight) + Len(active)  BY <1>0, ConcatProperties
      <3>2. Len(three) = Len(two) + Len(Queued)  BY <1>0, <1>1, ConcatProperties
      <3> QED BY <1>0, <3>1, <3>2
    <2>1. four \in Seq(Items) /\ Len(four) = Len(three) + Len(window)
      BY <1>0, <1>2, ConcatProperties
    <2>2. ASSUME NEW i \in 1..Len(four) PROVE At(four[i], i)
      <3>1. four[i] = IF i <= Len(three) THEN three[i] ELSE window[i - Len(three)]
        BY <1>0, <1>2, <2>1, ConcatProperties
      <3>2. CASE i <= Len(three)
        <4>1. i \in 1..Len(three)  BY <2>0, <3>2
        <4> QED BY <1>2, <3>1, <3>2, <4>1
      <3>3. CASE ~(i <= Len(three))
        <4> DEFINE k == i - Len(three)
        <4>1. k \in 1..Len(window) /\ AfterQueued + k = committed.given + i
          BY <1>0, <2>0, <2>1, <3>3 DEF AfterFlight, AfterActive, AfterQueued
        <4> QED BY <3>1, <3>3, <4>1 DEF Chain, RunFrom
      <3> QED BY <3>2, <3>3
    <2> QED BY <2>1, <2>2
  <1>4. Ahead = four
    BY DEF Ahead, Ready
  <1> HIDE DEF two, three, four
  <1>5. DOMAIN four = 1..Len(four)
    BY <1>3
  <1> QED BY <1>3, <1>4, <1>5 DEF PipelineIsInOrder, Chain

-----------------------------------------------------------------------------
(* The places after a step: enough that each run follows the one before.   *)

LEMMA ChainOf ==
    ASSUME NEW a \in Nat, NEW k \in Nat, NEW l \in Nat, NEW m \in Nat,
           committed'.given = a,
           Len(inFlight') = k, Len(active') = l, Len(Queued') = m,
           InStep(planner'), InStep(committed'), batchIndex' = a,
           RunFrom(inFlight', a), RunFrom(active', a + k),
           RunFrom(Queued', a + k + l), RunFrom(window', a + k + l + m),
           producer' \in Making => planner'.given = a + k + l + m + Len(window')
    PROVE  Chain'
  BY DEF Chain, AfterFlight, AfterActive, AfterQueued, AfterAll

(* A step that moves no batch.                                             *)
LEMMA ChainKept ==
    ASSUME Chain, UNCHANGED <<committed, Queued, window, active, inFlight, batchIndex>>,
           \/ UNCHANGED planner /\ (producer' \in Making => producer \in Making)
           \/ InStep(planner') /\ producer' \notin Making
    PROVE  Chain'
  BY DEF Chain, AfterFlight, AfterActive, AfterQueued, AfterAll

LEMMA ProduceChain ==
    ASSUME Chain, Shape, Produce
    PROVE  Chain' /\ UNCHANGED <<committed, inFlight, active, batchIndex>>
  <1>0. /\ InStep(planner) /\ InStep(committed)
        /\ RunFrom(inFlight, committed.given) /\ RunFrom(active, AfterFlight)
        /\ RunFrom(Queued, AfterActive) /\ RunFrom(window, AfterQueued)
        /\ producer \in Making => planner.given = AfterAll
        /\ batchIndex = committed.given
    BY DEF Chain
  <1>t. /\ committed.given \in Nat /\ Len(inFlight) \in Nat /\ Len(active) \in Nat
        /\ Len(Queued) \in Nat /\ Len(window) \in Nat /\ AfterQueued \in Nat
    BY ChainTypes
  <1>u. UNCHANGED <<committed, inFlight, active, batchIndex>>
    BY DEF Produce, Plan, PlanFails, Reserve, Load, Put, PutStopped, PutFailure,
       ProducerEnds, learning
  <1>1. CASE Plan
    <2>q. Queued' = Queued  BY <1>1 DEF Plan, Queued
    <2>1. CASE stop
      BY <1>1, <1>u, <2>q, <2>1, ChainKept DEF Plan, Making
    <2>2. CASE ~stop
      <3>1. window = <<>> /\ planner.given = AfterQueued
        <4>1. window = <<>> /\ Len(window) = 0 /\ producer \in Making
          BY <1>1, NothingFollows DEF Plan, Shape, Making
        <4> QED BY <1>0, <1>t, <4>1 DEF AfterAll
      <3>2. planner' = AfterWindow(planner) /\ window' = NextWindow(planner)
        BY <1>1, <2>2 DEF Plan
      <3>3. /\ RunFrom(window', AfterQueued) /\ InStep(planner')
            /\ planner'.given = AfterQueued + Len(window')
        BY <1>0, <3>1, <3>2, WindowFollows
      <3>4. /\ RunFrom(active', committed.given + Len(inFlight))
            /\ RunFrom(Queued', committed.given + Len(inFlight) + Len(active))
        BY <1>0, <1>u, <2>q DEF AfterFlight, AfterActive
      <3>5. AfterQueued = committed.given + Len(inFlight) + Len(active) + Len(Queued)
        BY DEF AfterFlight, AfterActive, AfterQueued
      <3> QED BY <1>0, <1>t, <1>u, <2>q, <3>3, <3>4, <3>5, ChainOf
    <2> QED BY <1>u, <2>1, <2>2
  <1>2. CASE PlanFails
    <2>1. InStep(planner') /\ producer' \notin Making
      BY <1>0, <1>2, WindowFollows DEF PlanFails, Making
    <2>2. UNCHANGED <<Queued, window>>
      BY <1>2 DEF PlanFails, Queued
    <2> QED BY <1>u, <2>1, <2>2, ChainKept
  <1>3. CASE Reserve
    <2>q. Queued' = Queued /\ planner' = planner  BY <1>3 DEF Reserve, Queued
    <2>1. CASE UNCHANGED window
      BY <1>3, <1>u, <2>q, <2>1, ChainKept DEF Reserve, Making
    <2>2. CASE window' = <<>> /\ producer' = "ending"
      <3>1. RunFrom(window', AfterQueued) /\ producer' \notin Making
        BY <2>2, NothingFollows DEF Making
      <3> QED BY <1>0, <1>u, <2>q, <3>1
              DEF Chain, AfterFlight, AfterActive, AfterQueued
    <2> QED BY <1>3, <1>u, <2>1, <2>2 DEF Reserve
  <1>4. CASE Load
    <2>q. Queued' = Queued /\ planner' = planner
          /\ producer \in Making
      BY <1>4 DEF Load, Queued, Making
    <2>1. PICK bad : window' = [i \in DOMAIN window |->
                                   [window[i] EXCEPT !.ok = i \notin bad]]
      BY <1>4 DEF Load
    <2>2. RunFrom(window', AfterQueued) /\ Len(window') = Len(window)
      BY <1>0, <2>1, LoadedInPlace
    <2> QED BY <1>0, <1>u, <2>q, <2>2
            DEF Chain, AfterFlight, AfterActive, AfterQueued, AfterAll
  <1>5. CASE Put
    <2>1. Queued = <<>> /\ Queued' = window /\ window' = <<>> /\ planner' = planner
          /\ producer \in Making
      BY <1>5 DEF Put, Queued, Loaded, Making
    <2>2. Len(Queued) = 0 /\ Len(window') = 0
      BY <2>1, NothingFollows
    <2>3. AfterQueued = AfterActive /\ AfterAll = AfterActive + Len(window)
      <3>1. AfterActive \in Nat  BY ChainTypes
      <3> QED BY <2>2, <3>1 DEF AfterQueued, AfterAll
    <2>4. RunFrom(Queued', AfterActive) /\ RunFrom(window', AfterAll)
      BY <1>0, <2>1, <2>3, NothingFollows
    <2>5. planner'.given = AfterAll + Len(window')
      BY <1>0, <1>t, <2>1, <2>2, ChainTypes
    <2>6. AfterAll = committed.given + Len(inFlight) + Len(active) + Len(Queued')
      BY <2>1, <2>3 DEF AfterActive, AfterFlight
    <2> QED BY <1>0, <1>t, <1>u, <2>1, <2>4, <2>5, <2>6, ChainOf
            DEF AfterFlight, AfterActive
  <1>6. CASE PutStopped
    <2>1. Queued' = Queued /\ planner' = planner /\ window' = <<>>
          /\ producer' \notin Making
      BY <1>6 DEF PutStopped, Queued, Making
    <2>2. RunFrom(window', AfterQueued)
      BY <2>1, NothingFollows
    <2> QED BY <1>0, <1>u, <2>1, <2>2
            DEF Chain, AfterFlight, AfterActive, AfterQueued
  <1>7. CASE PutFailure
    <2>1. Queued' = Queued
      BY <1>7 DEF PutFailure, Queued, Failure
    <2> QED BY <1>7, <1>u, <2>1, ChainKept DEF PutFailure, Making
  <1>8. CASE ProducerEnds
    <2>1. Queued' = Queued
      BY <1>8 DEF ProducerEnds, Queued
    <2> QED BY <1>8, <1>u, <2>1, ChainKept DEF ProducerEnds, Making
  <1> QED BY <1>1, <1>2, <1>3, <1>4, <1>5, <1>6, <1>7, <1>8 DEF Produce

(* The batch that is taken, and what is left of its window.                *)
LEMMA TakeChain ==
    ASSUME Chain, Shape, NEW items, RunFrom(items, committed.given), items # <<>>,
           Take(items), inFlight = <<>>
    PROVE  LET b == committed'.given
           IN  /\ b \in Nat /\ InStep(committed') /\ batchIndex' = b
               /\ b = committed.given \/ b = committed.given + 1
               /\ RunFrom(inFlight', b) /\ RunFrom(active', b + Len(inFlight'))
               /\ Len(inFlight') \in Nat /\ Len(active') \in Nat
               /\ b + Len(inFlight') + Len(active')
                      = committed.given + Len(items)
  <1> DEFINE a == committed.given
  <1>1. /\ Len(items) \in Nat \ {0}
        /\ Head(items) \in Items /\ Head(items).id = a + 1
        /\ InStep(Head(items).after) /\ Head(items).after.given = a + 1
        /\ RunFrom(<<Head(items)>>, a) /\ Len(<<Head(items)>>) = 1
        /\ RunFrom(Tail(items), a + 1) /\ Len(Tail(items)) = Len(items) - 1
    BY ChainTypes, FirstAndRest
  <1>2. a \in Nat /\ InStep(committed) /\ batchIndex = a
    BY ChainTypes DEF Chain
  <1>3. active' = Tail(items)
    BY DEF Take
  <1>4. CASE UNCHANGED <<committed, batchIndex>> /\ inFlight' = <<Head(items)>>
    <2>1. Len(inFlight') = 1 /\ committed'.given = a
      BY <1>1, <1>4
    <2> QED BY <1>1, <1>2, <1>3, <1>4, <2>1
  <1>5. CASE /\ committed' = Head(items).after /\ batchIndex' = batchIndex + 1
             /\ inFlight' = <<>>
    <2>1. Len(inFlight') = 0 /\ RunFrom(inFlight', a + 1) /\ committed'.given = a + 1
      BY <1>1, <1>5, NothingFollows
    <2>2. a + 1 + Len(inFlight') = a + 1
      BY <1>2, <2>1
    <2> QED BY SMTT(30), <1>1, <1>2, <1>3, <1>5, <2>1, <2>2
  <1> QED BY <1>4, <1>5 DEF Take, SkipBatch, Consumed, Raise

(* The batch in flight, once it is consumed or its error raised.           *)
LEMMA FlightChain ==
    ASSUME Chain, Shape, trainer = "step",
           UNCHANGED <<planner, queue, producer, window, active>>,
           Consumed(inFlight[1]) \/ SkipBatch(inFlight[1])
    PROVE  /\ Chain'
           /\ \/ committed'.given = committed.given
              \/ committed'.given = committed.given + 1
  <1> DEFINE a == committed.given
  <1>1. inFlight # <<>>
    BY DEF Shape
  <1>b. Len(inFlight) <= 1
    BY DEF Shape
  <1>2. RunFrom(inFlight, a) /\ a \in Nat
    BY ChainTypes DEF Chain
  <1>3. /\ Len(inFlight) = 1 /\ Head(inFlight) = inFlight[1]
        /\ InStep(inFlight[1].after) /\ inFlight[1].after.given = a + 1
        /\ RunFrom(<<inFlight[1]>>, a) /\ inFlight = <<inFlight[1]>>
    <2>0. Len(inFlight) \in Nat \ {0}
      BY <1>1, <1>2, FirstAndRest
    <2>1. inFlight \in Seq(Items)
      BY ChainTypes
    <2>2. Len(inFlight) = 1
      BY <1>b, <2>0
    <2>3. Head(inFlight) = inFlight[1]
      BY <2>1
    <2>4. inFlight = <<inFlight[1]>>
      <3>1. inFlight[1] \in Items  BY <2>1, <2>2
      <3>2. <<inFlight[1]>> \in Seq(Items) /\ Len(<<inFlight[1]>>) = 1
        BY <3>1
      <3>3. \A i \in 1..Len(inFlight) : inFlight[i] = <<inFlight[1]>>[i]
        BY <2>2
      <3> QED BY <2>1, <2>2, <3>2, <3>3, SeqEqual
    <2> QED BY <1>1, <1>2, <2>2, <2>3, <2>4, FirstAndRest
  <1>4. UNCHANGED Queued
    BY DEF Queued
  <1>5. CASE Consumed(inFlight[1])
    <2>1. /\ committed' = inFlight[1].after /\ inFlight' = <<>>
          /\ batchIndex' = a + 1
      BY <1>5 DEF Consumed, Chain
    <2>2. committed'.given = a + 1 /\ InStep(committed')
      BY <1>3, <2>1
    <2>3. Len(inFlight') = 0 /\ RunFrom(inFlight', a + 1)
      BY <2>1, NothingFollows
    <2>4. /\ AfterFlight = a + 1 + 0
          /\ AfterActive = a + 1 + 0 + Len(active)
          /\ AfterQueued = a + 1 + 0 + Len(active) + Len(Queued)
          /\ AfterAll = a + 1 + 0 + Len(active) + Len(Queued) + Len(window)
          /\ a + 1 \in Nat /\ Len(active) \in Nat /\ Len(Queued) \in Nat
      <3>1. AfterFlight = a + 1 + 0 /\ a + 1 \in Nat
        BY <1>2, <1>3 DEF AfterFlight
      <3> QED BY <3>1, ChainTypes DEF AfterActive, AfterQueued, AfterAll
    <2>5. Chain'
      BY <1>4, <2>1, <2>2, <2>3, <2>4, ChainOf DEF Chain
    <2> QED BY <2>2, <2>5
  <1>6. CASE ~Consumed(inFlight[1])
    <2>1. UNCHANGED <<committed, batchIndex>> /\ inFlight' = <<inFlight[1]>>
      BY <1>6 DEF SkipBatch, Raise
    <2>2. UNCHANGED inFlight
      BY <1>3, <2>1
    <2> QED BY <1>4, <2>1, <2>2, ChainKept
  <1> QED BY <1>5, <1>6

(* A process that starts where a checkpoint or the last consumed batch is. *)
LEMMA LaunchChain ==
    ASSUME NEW p, InStep(p), Launch(p), inFlight' = <<>>, batchIndex' = p.given
    PROVE  Chain'
  <1>0. p.given \in Nat
    BY DEF InStep, Planners
  <1>1. /\ planner' = p /\ committed' = p
        /\ active' = <<>> /\ window' = <<>> /\ Queued' = <<>>
    BY DEF Launch, Queued
  <1>2. /\ RunFrom(<<>>, p.given) /\ Len(<<>>) = 0
        /\ p.given + 0 = p.given
    BY <1>0, NothingFollows
  <1> QED BY <1>0, <1>1, <1>2, ChainOf

LEMMA TrainChain ==
    ASSUME Chain, Shape, Train
    PROVE  /\ Chain'
           /\ \/ committed'.given = committed.given
              \/ committed'.given = committed.given + 1
  <1>1. CASE FetchActive \/ FetchWindow
    <2> DEFINE items == IF active # <<>> THEN active ELSE Queued
    <2>1. /\ Take(items) /\ items # <<>> /\ inFlight = <<>>
          /\ Queued' = IF active # <<>> THEN Queued ELSE <<>>
      <3>1. inFlight = <<>>
        BY <1>1 DEF Shape, FetchActive, FetchWindow, Broken
      <3>2. CASE FetchActive  BY <3>1, <3>2 DEF FetchActive, Queued
      <3>3. CASE FetchWindow
        <4>1. queue # <<>> /\ Queued = queue[1].items /\ queue[1].items # <<>>
          BY <3>3 DEF FetchWindow, Queued, Shape
        <4> QED BY <3>1, <3>3, <4>1 DEF FetchWindow, Queued
      <3> QED BY <1>1, <3>2, <3>3
    <2>2. AfterFlight = committed.given /\ Len(inFlight) = 0
      BY <2>1, ChainTypes, NothingFollows DEF AfterFlight
    <2>3. /\ RunFrom(items, committed.given)
          /\ AfterQueued = committed.given + Len(items) + Len(Queued')
          /\ RunFrom(Queued', committed.given + Len(items))
          /\ Len(Queued') \in Nat
      <3>1. CASE active # <<>>
        BY <2>1, <2>2, <3>1, ChainTypes DEF Chain, AfterActive, AfterQueued
      <3>2. CASE active = <<>>
        <4>1. AfterActive = committed.given
          BY <2>2, <3>2, ChainTypes, NothingFollows DEF AfterActive
        <4>2. Queued' = <<>> /\ Len(Queued') = 0 /\ items = Queued
          BY <2>1, <3>2, NothingFollows
        <4>3. AfterQueued = committed.given + Len(items)
          BY <4>1, <4>2 DEF AfterQueued
        <4> QED BY <4>1, <4>2, <4>3, ChainTypes, NothingFollows DEF Chain
      <3> QED BY <3>1, <3>2
    <2> DEFINE b == committed'.given
    <2>4. /\ b \in Nat /\ InStep(committed') /\ batchIndex' = b
          /\ b = committed.given \/ b = committed.given + 1
          /\ RunFrom(inFlight', b) /\ RunFrom(active', b + Len(inFlight'))
          /\ Len(inFlight') \in Nat /\ Len(active') \in Nat
          /\ b + Len(inFlight') + Len(active') = committed.given + Len(items)
      BY <2>1, <2>3, TakeChain
    <2>5. UNCHANGED <<planner, producer, window>>
      BY <2>1 DEF Take
    <2>6. /\ RunFrom(Queued', b + Len(inFlight') + Len(active'))
          /\ AfterQueued = b + Len(inFlight') + Len(active') + Len(Queued')
      BY <2>3, <2>4
    <2> HIDE DEF items, b
    <2>7. Chain'
      BY <2>3, <2>4, <2>5, <2>6, ChainOf DEF Chain, AfterAll, b
    <2> QED BY <2>4, <2>7 DEF b
  <1>2. CASE FetchFailure
    <2>1. UNCHANGED <<planner, producer, committed, window, active, inFlight, batchIndex>>
      BY <1>2 DEF FetchFailure, PrefetchError, learning
    <2>2. UNCHANGED Queued
      BY <1>2 DEF FetchFailure, Queued, Shape
    <2> QED BY <2>1, <2>2, ChainKept
  <1>3. CASE TrainStep
    BY <1>3, FlightChain DEF TrainStep
  <1>4. CASE TrainStepFails
    BY <1>4, FlightChain DEF TrainStepFails
  <1>5. CASE RestartPipeline
    <2>1. inFlight' = <<>>
      BY <1>5 DEF RestartPipeline, Shape, Broken
    <2> QED BY <1>5, <2>1, LaunchChain DEF RestartPipeline, Launch, Chain
  <1>6. CASE \/ Top \/ FetchTimesOut \/ StillAlive \/ ProducerGone \/ JoinTimesOut
             \/ Nonfinite \/ Update \/ Validate \/ Save \/ SaveFails \/ Prune
             \/ Close \/ Exit
    <2>1. UNCHANGED <<planner, committed, queue, producer, window, active,
                      inFlight, batchIndex>>
      BY <1>6 DEF Top, FetchTimesOut, StillAlive, ProducerGone, PrefetchError,
         JoinTimesOut, Nonfinite, Update, Validate, Save, SaveFails, Prune, Close,
         Exit, pipeline, learning
    <2>2. UNCHANGED Queued
      BY <2>1 DEF Queued
    <2> QED BY <2>1, <2>2, ChainKept
  <1> QED BY <1>1, <1>2, <1>3, <1>4, <1>5, <1>6 DEF Train

-----------------------------------------------------------------------------
(* The other parts of the invariant.                                       *)

Entries == [failed : BOOLEAN, items : Seq(Items)]
QueueShape(q) ==
    /\ q \in Seq(Entries) /\ Len(q) <= 1
    /\ q # <<>> => (q[1].failed <=> q[1].items = <<>>)

LEMMA QueueShapes ==
    /\ QueueShape(<<>>)
    /\ QueueShape(<<Failure>>)
    /\ \A w \in Seq(Items) : w # <<>> => QueueShape(<<Loaded(w)>>)
  <1>1. QueueShape(<<>>)
    BY EmptySeq DEF QueueShape
  <1>2. ASSUME NEW e \in Entries, e.failed <=> e.items = <<>>
        PROVE  QueueShape(<<e>>)
    <2>1. <<e>> \in Seq(Entries) /\ Len(<<e>>) = 1 /\ <<e>>[1] = e
      OBVIOUS
    <2> QED BY <1>2, <2>1 DEF QueueShape
  <1>3. Failure \in Entries /\ (Failure.failed <=> Failure.items = <<>>)
    BY EmptySeq DEF Failure, Entries
  <1>4. ASSUME NEW w \in Seq(Items), w # <<>>
        PROVE  Loaded(w) \in Entries /\ (Loaded(w).failed <=> Loaded(w).items = <<>>)
    BY <1>4 DEF Loaded, Entries
  <1> QED BY <1>1, <1>2, <1>3, <1>4

LEMMA ProduceShape ==
    ASSUME Chain, Shape, Produce
    PROVE  Shape'
  <1>0. /\ producer \in Making \cup {"fail", "ending", "dead"}
        /\ trainer \in Taking \cup Quiet \cup Broken \cup {"top", "join", "update"}
        /\ QueueShape(queue)
        /\ producer \in {"reserve", "load", "put"} <=> window # <<>>
        /\ Len(inFlight) <= 1
        /\ inFlight # <<>> => trainer \in Broken \cup {"step"}
        /\ trainer = "step" => inFlight # <<>>
    BY DEF Shape, QueueShape, Entries
  <1>1. UNCHANGED <<inFlight, trainer>>
    BY DEF Produce, Plan, PlanFails, Reserve, Load, Put, PutStopped, PutFailure,
       ProducerEnds
  <1> SUFFICES /\ producer' \in Making \cup {"fail", "ending", "dead"}
               /\ QueueShape(queue')
               /\ producer' \in {"reserve", "load", "put"} <=> window' # <<>>
    BY <1>0, <1>1 DEF Shape, QueueShape, Entries
  <1>2. CASE Plan
    <2>1. NextWindow(planner) # <<>>
      BY WindowFollows, NothingFollows DEF Chain
    <2> QED BY <1>0, <1>2, <2>1 DEF Plan, Making
  <1>3. CASE Load
    <2>1. PICK bad : window' = [i \in DOMAIN window |->
                                   [window[i] EXCEPT !.ok = i \notin bad]]
      BY <1>3 DEF Load
    <2>2. window' # <<>>
      BY <1>0, <1>3, <2>1, LoadedInPlace DEF Chain, Load
    <2> QED BY <1>0, <1>3, <2>2 DEF Load, Making
  <1>4. CASE Put
    <2>1. window \in Seq(Items) /\ window # <<>>
      BY <1>0, <1>4, ChainTypes DEF Put
    <2>2. QueueShape(<<Loaded(window)>>)
      BY <2>1, QueueShapes
    <2> QED BY <1>4, <2>2 DEF Put, Making
  <1>5. CASE PutFailure
    BY <1>0, <1>5, QueueShapes DEF PutFailure, Making
  <1>6. CASE PlanFails \/ Reserve \/ PutStopped \/ ProducerEnds
    BY <1>0, <1>6 DEF PlanFails, Reserve, PutStopped, ProducerEnds, Making
  <1> QED BY <1>2, <1>3, <1>4, <1>5, <1>6 DEF Produce

LEMMA TrainShape ==
    ASSUME Chain, Shape, Train
    PROVE  Shape'
  <1>0. /\ producer \in Making \cup {"fail", "ending", "dead"}
        /\ trainer \in Taking \cup Quiet \cup Broken \cup {"top", "join", "update"}
        /\ QueueShape(queue)
        /\ producer \in {"reserve", "load", "put"} <=> window # <<>>
        /\ Len(inFlight) <= 1
        /\ inFlight # <<>> => trainer \in Broken \cup {"step"}
        /\ trainer = "step" => inFlight # <<>>
    BY DEF Shape, QueueShape, Entries
  <1> SUFFICES /\ producer' \in Making \cup {"fail", "ending", "dead"}
               /\ trainer' \in Taking \cup Quiet \cup Broken
                                \cup {"top", "join", "update"}
               /\ QueueShape(queue')
               /\ producer' \in {"reserve", "load", "put"} <=> window' # <<>>
               /\ Len(inFlight') <= 1
               /\ inFlight' # <<>> => trainer' \in Broken \cup {"step"}
               /\ trainer' = "step" => inFlight' # <<>>
    BY DEF Shape, QueueShape, Entries
  <1>l. Len(<<>>) <= 1 /\ \A x : Len(<<x>>) <= 1 /\ <<x>> # <<>>
    BY EmptySeq
  <1>1. CASE FetchActive \/ FetchWindow
    <2>1. PICK items : Take(items)
      BY <1>1 DEF FetchActive, FetchWindow
    <2>2. queue' \in {queue, <<>>}
      BY <1>1 DEF FetchActive, FetchWindow
    <2> QED BY <1>0, <1>l, <2>1, <2>2, QueueShapes
            DEF Take, SkipBatch, Consumed, Raise, Taking, Broken
  <1>2. CASE FetchFailure
    BY <1>0, <1>2, QueueShapes DEF FetchFailure, PrefetchError, Broken, Taking
  <1>3. CASE TrainStep \/ TrainStepFails
    BY <1>0, <1>l, <1>3
       DEF TrainStep, TrainStepFails, SkipBatch, Consumed, Raise, Taking, Broken
  <1>4. CASE RestartPipeline
    BY <1>0, <1>4, QueueShapes DEF RestartPipeline, Launch, Making, Broken
  <1>5. CASE \/ Top \/ FetchTimesOut \/ StillAlive \/ ProducerGone \/ JoinTimesOut
             \/ Nonfinite \/ Update \/ Validate
    BY <1>0, <1>5 DEF Top, AtEnd, FetchTimesOut, StillAlive, ProducerGone,
       PrefetchError, JoinTimesOut, Nonfinite, Update, AfterUpdate, Validate,
       AfterValidation, pipeline, Taking, Broken, Quiet
  <1>6. CASE Save \/ SaveFails \/ Prune \/ Close \/ Exit
    BY <1>0, <1>6 DEF Save, SaveFails, Saving, Saved, Prune, Close, Exit, pipeline,
       Taking, Broken, Quiet
  <1> QED BY <1>1, <1>2, <1>3, <1>4, <1>5, <1>6 DEF Train

LEMMA RestStep ==
    ASSUME Chain, Rest, Next
    PROVE  Rest'
  <1>1. /\ stop' \in BOOLEAN
        /\ validated' \in BOOLEAN /\ elapsed' \in BOOLEAN
    <2>1. CASE Produce
      BY <2>1 DEF Rest, Produce, Plan, PlanFails, Reserve, Load, Put, PutStopped,
         PutFailure, ProducerEnds
    <2>2. CASE Train
      BY <2>2 DEF Rest, Train, Top, FetchActive, FetchWindow, FetchFailure, Take,
         FetchTimesOut, StillAlive, ProducerGone, PrefetchError, RestartPipeline,
         Launch, JoinTimesOut, TrainStep, TrainStepFails, Nonfinite, Update,
         Validate, Save, SaveFails, Prune, Close, Exit, pipeline
    <2>3. CASE TimePasses \/ Kill \/ Restart
      BY <2>3 DEF Rest, TimePasses, Kill, Restart, Launch, pipeline
    <2> QED BY <2>1, <2>2, <2>3 DEF Next
  <1>2. restarts' \in 0..MaxRestarts
    <2>1. CASE Restart
      BY <2>1, BoundsAssumption DEF Rest, Restart
    <2>2. CASE ~Restart
      BY <2>2 DEF Rest, Next, Produce, Plan, PlanFails, Reserve, Load, Put, PutStopped,
         PutFailure, ProducerEnds, Train, Top, FetchActive, FetchWindow, FetchFailure,
         Take, FetchTimesOut, StillAlive, ProducerGone, PrefetchError, RestartPipeline,
         JoinTimesOut, TrainStep, TrainStepFails, Nonfinite, Update, Validate, Save,
         SaveFails, Prune, Close, Exit, TimePasses, Kill
    <2> QED BY <2>1, <2>2
  <1>3. faults' \in 0..MaxFaults
    <2>1. CASE Load
      <3>1. PICK bad \in SUBSET DOMAIN window :
                /\ faults + Cardinality(bad) <= MaxFaults
                /\ faults' = faults + Cardinality(bad)
        BY <2>1 DEF Load
      <3>2. Cardinality(bad) \in Nat
        <4>1. DOMAIN window = 1..Len(window) /\ Len(window) \in Nat
          BY ChainTypes
        <4>2. IsFiniteSet(DOMAIN window)
          BY <4>1, FS_Interval
        <4> QED BY <4>2, FS_Subset, FS_CardinalityType
      <3> QED BY <3>1, <3>2, BoundsAssumption DEF Rest
    <2>2. CASE UNCHANGED faults \/ Fault
      BY <2>2, BoundsAssumption DEF Rest, Fault
    <2> QED BY <2>1, <2>2 DEF Next, Produce, Plan, PlanFails, Reserve, Put, PutStopped,
         PutFailure, ProducerEnds, Train, Top, FetchActive, FetchWindow, FetchFailure,
         Take, FetchTimesOut, StillAlive, ProducerGone, PrefetchError, RestartPipeline,
         JoinTimesOut, TrainStep, TrainStepFails, Nonfinite, Update, Validate, Save,
         SaveFails, Prune, Close, Exit, TimePasses, Kill, Restart
  <1> QED BY <1>1, <1>2, <1>3 DEF Rest

(* What a step of the trainer does to the gradients and the model.         *)
LEMMA ModelExtended ==
    ASSUME NEW m \in Seq(SUBSET (Nat \ {0})), NEW g \in SUBSET (Nat \ {0}),
           \A i \in DOMAIN m : Cardinality(m[i]) = Accumulation,
           Cardinality(g) = Accumulation
    PROVE  /\ Append(m, g) \in Seq(SUBSET (Nat \ {0}))
           /\ \A i \in DOMAIN Append(m, g) : Cardinality(Append(m, g)[i]) = Accumulation
  <1> DEFINE n == Append(m, g)
  <1>1. n \in Seq(SUBSET (Nat \ {0})) /\ Len(n) = Len(m) + 1 /\ Len(m) \in Nat
    OBVIOUS
  <1>2. \A i \in 1..Len(n) : n[i] = IF i <= Len(m) THEN m[i] ELSE g
    OBVIOUS
  <1>3. DOMAIN n = 1..Len(n) /\ DOMAIN m = 1..Len(m)
    OBVIOUS
  <1> HIDE DEF n
  <1>4. ASSUME NEW i \in 1..Len(n) PROVE Cardinality(n[i]) = Accumulation
    <2>1. CASE i <= Len(m)
      <3>1. i \in 1..Len(m)  BY <1>1, <2>1
      <3> QED BY <1>2, <1>3, <2>1, <3>1
    <2>2. CASE ~(i <= Len(m))  BY <1>2, <2>2
    <2> QED BY <2>1, <2>2
  <1> QED BY <1>1, <1>3, <1>4 DEF n

LEMMA GradsGrow ==
    ASSUME NEW a \in Nat, NEW g \in SUBSET (1..a)
    PROVE  /\ IsFiniteSet(g) /\ Cardinality(g) \in Nat
           /\ g \cup {a + 1} \subseteq 1..(a + 1)
           /\ Cardinality(g \cup {a + 1}) = Cardinality(g) + 1
  <1>1. IsFiniteSet(g) /\ Cardinality(g) \in Nat
    <2>1. IsFiniteSet(1..a)
      <3>1. 1 \in Int /\ a \in Int  OBVIOUS
      <3> QED BY <3>1, FS_Interval
    <2>2. IsFiniteSet(g)
      BY <2>1, FS_Subset
    <2> QED BY <2>2, FS_CardinalityType
  <1>2. a + 1 \notin g
    OBVIOUS
  <1>3. Cardinality(g \cup {a + 1}) = Cardinality(g) + 1
    BY <1>1, <1>2, FS_AddElement
  <1>4. g \cup {a + 1} \subseteq 1..(a + 1)
    OBVIOUS
  <1> QED BY <1>1, <1>3, <1>4

LEMMA TrainLearning ==
    ASSUME Chain, Shape, Learning, Train
    PROVE  Learning'
  <1>0. /\ micro \in 0..Accumulation
        /\ grads \subseteq 1..committed.given
        /\ trainer \in Taking => micro < Accumulation /\ Cardinality(grads) = micro
        /\ trainer = "update" => Cardinality(grads) = Accumulation
        /\ trainer \in Quiet => grads = {}
        /\ model \in Seq(SUBSET (Nat \ {0}))
        /\ \A i \in DOMAIN model : Cardinality(model[i]) = Accumulation
    BY DEF Learning, UpdatesAreWhole
  <1>a. committed.given \in Nat
    BY ChainTypes
  <1>c. Accumulation \in Nat \ {0} /\ Cardinality({}) = 0
    BY ConfigAssumption, FS_EmptySet
  <1> SUFFICES /\ micro' \in 0..Accumulation
               /\ grads' \subseteq 1..committed'.given
               /\ trainer' \in Taking =>
                      micro' < Accumulation /\ Cardinality(grads') = micro'
               /\ trainer' = "update" => Cardinality(grads') = Accumulation
               /\ trainer' \in Quiet => grads' = {}
               /\ model' \in Seq(SUBSET (Nat \ {0}))
               /\ \A i \in DOMAIN model' : Cardinality(model'[i]) = Accumulation
    BY DEF Learning, UpdatesAreWhole
  <1>1. CASE Top
    <2>1. micro' = 0 /\ grads' = {} /\ model' = model
      BY <1>1 DEF Top
    <2>2. micro' \in 0..Accumulation /\ micro' < Accumulation
          /\ Cardinality(grads') = micro'
      BY <1>c, <2>1
    <2>3. trainer' # "update"
      BY <1>1 DEF Top, AtEnd
    <2> QED BY <1>0, <2>1, <2>2, <2>3
  <1>2. CASE FetchActive \/ FetchWindow
    <2>1. PICK items : Take(items)
      BY <1>2 DEF FetchActive, FetchWindow
    <2>2. trainer \in Taking
      BY <1>2 DEF FetchActive, FetchWindow, Taking
    <2>3. CASE trainer' = "step"
      BY <1>0, <2>1, <2>2, <2>3 DEF Take, SkipBatch, Consumed, Raise, Taking, Quiet
    <2>4. CASE trainer' # "step"
      BY <1>0, <2>1, <2>4 DEF Take, SkipBatch, Consumed, Raise, Taking, Quiet
    <2> QED BY <2>3, <2>4
  <1>3. CASE TrainStep
    <2>1. /\ inFlight[1].id = committed.given + 1
          /\ inFlight[1].after.given = committed.given + 1
      <3>1. inFlight # <<>> /\ RunFrom(inFlight, committed.given)
        BY <1>3 DEF TrainStep, Shape, Chain
      <3>2. Len(inFlight) \in Nat \ {0}
        BY <1>a, <3>1, FirstAndRest
      <3>3. 1 \in 1..Len(inFlight)
        BY <3>2
      <3> QED BY <3>1, <3>3 DEF RunFrom
    <2>2. /\ committed'.given = committed.given + 1
          /\ grads' = grads \cup {committed.given + 1}
          /\ micro' = micro + 1 /\ model' = model
          /\ trainer' = IF micro + 1 = Accumulation THEN "update" ELSE "fetch"
      BY <1>3, <2>1 DEF TrainStep, Consumed
    <2>3. /\ grads' \subseteq 1..committed'.given
          /\ Cardinality(grads') = Cardinality(grads) + 1
      BY <1>0, <1>a, <2>2, GradsGrow
    <2>4. micro < Accumulation /\ Cardinality(grads) = micro /\ micro \in Nat
      BY <1>0, <1>3 DEF TrainStep, Taking
    <2>5. micro' \in 0..Accumulation /\ Cardinality(grads') = micro'
          /\ (micro' # Accumulation => micro' < Accumulation)
      BY <1>c, <2>2, <2>3, <2>4
    <2> QED BY <1>0, <2>2, <2>3, <2>5 DEF Taking, Quiet
  <1>4. CASE TrainStepFails
    BY <1>0, <1>4 DEF TrainStepFails, SkipBatch, Consumed, Raise, Taking, Quiet
  <1>5. CASE Update
    <2>1. grads \in SUBSET (Nat \ {0}) /\ Cardinality(grads) = Accumulation
      <3>1. 1..committed.given \subseteq Nat \ {0}  BY <1>a
      <3> QED BY <1>0, <1>5, <3>1 DEF Update
    <2>2. /\ model' \in Seq(SUBSET (Nat \ {0}))
          /\ \A i \in DOMAIN model' : Cardinality(model'[i]) = Accumulation
      BY <1>0, <1>5, <2>1, ModelExtended DEF Update
    <2>3. trainer' \notin Taking \cup {"update"}
      BY <1>5 DEF Update, AfterUpdate, Taking
    <2> QED BY <1>0, <1>5, <2>2, <2>3 DEF Update
  <1>6. CASE FetchFailure \/ FetchTimesOut \/ StillAlive \/ ProducerGone
    BY <1>0, <1>6 DEF FetchFailure, FetchTimesOut, StillAlive, ProducerGone,
       PrefetchError, pipeline, learning, Taking, Quiet
  <1>7. CASE RestartPipeline \/ JoinTimesOut \/ Nonfinite
    BY <1>0, <1>7 DEF RestartPipeline, Launch, JoinTimesOut, Nonfinite, pipeline,
       Taking, Quiet
  <1>8. CASE Validate \/ Save \/ SaveFails \/ Prune \/ Close \/ Exit
    BY <1>0, <1>8 DEF Validate, AfterValidation, Save, SaveFails, Saving, Saved, Prune,
       Close, Exit, pipeline, learning, Taking, Quiet
  <1> QED BY <1>1, <1>2, <1>3, <1>4, <1>5, <1>6, <1>7, <1>8 DEF Train

(* A checkpoint that is written is a state of training.                    *)
LEMMA TrainShelf ==
    ASSUME Chain, Shelf, Learning, Train
    PROVE  Shelf'
  <1>1. CASE Save
    <2>1. disk' = disk \cup {Checkpoint}
      BY <1>1 DEF Save
    <2>2. /\ Checkpoint.step \in Nat /\ Checkpoint.planner = committed
          /\ Checkpoint.batchIndex = batchIndex /\ Checkpoint.model = model
      BY DEF Checkpoint, Step, Learning
    <2>3. IsFiniteSet(disk')
      BY <2>1, FS_AddElement DEF Shelf
    <2> QED BY <2>1, <2>2, <2>3 DEF Shelf, Chain, Learning, UpdatesAreWhole
  <1>2. CASE Prune
    <2>1. disk' \subseteq disk
      BY <1>2 DEF Prune, Kept
    <2>2. IsFiniteSet(disk')
      BY <2>1, FS_Subset DEF Shelf
    <2> QED BY <2>1, <2>2 DEF Shelf
  <1>3. CASE ~(Save \/ Prune)
    <2>1. UNCHANGED disk
      BY <1>3 DEF Train, Top, FetchActive, FetchWindow, FetchFailure, Take,
         FetchTimesOut, StillAlive, ProducerGone, PrefetchError, RestartPipeline,
         JoinTimesOut, TrainStep, TrainStepFails, Nonfinite, Update, Validate,
         SaveFails, Close, Exit
    <2> QED BY <2>1 DEF Shelf
  <1> QED BY <1>1, <1>2, <1>3

-----------------------------------------------------------------------------
(* The invariant.                                                          *)

IInv == Chain /\ Shape /\ Shelf /\ Rest /\ Learning

LEMMA IInvInit ==
    ASSUME Init PROVE IInv
  <1> USE DEF Init
  <1>1. Queued = <<>> /\ InStep(FreshPlanner) /\ FreshPlanner.given = 0
    BY FreshInStep DEF Queued
  <1>2. Chain
    <2>1. RunFrom(<<>>, 0) /\ Len(<<>>) = 0 /\ 0 + 0 = 0
      BY NothingFollows
    <2> QED BY <1>1, <2>1 DEF Chain, AfterFlight, AfterActive, AfterQueued, AfterAll
  <1>3. Shape
    BY QueueShapes, EmptySeq DEF Shape, QueueShape, Entries, Making, Taking, Broken
  <1>4. Shelf /\ Rest
    <2>1. Shelf  BY FS_EmptySet DEF Shelf
    <2>2. 0 \in 0..MaxFaults /\ 0 \in 0..MaxRestarts  BY BoundsAssumption
    <2> QED BY <2>1, <2>2 DEF Rest
  <1>5. Learning
    BY EmptySeq, ConfigAssumption DEF Learning, UpdatesAreWhole, Taking, Quiet
  <1> QED BY <1>2, <1>3, <1>4, <1>5 DEF IInv

(* A process that is started again.                                        *)
LEMMA RestartStep ==
    ASSUME IInv, Restart
    PROVE  /\ IInv'
           /\ \E c \in disk \cup {FreshState} :
                  committed'.given = c.planner.given /\ model' = c.model
  <1>1. PICK c \in disk \cup {FreshState} :
            Launch(c.planner) /\ model' = c.model /\ batchIndex' = c.batchIndex
    BY DEF Restart
  <1>2. /\ InStep(c.planner) /\ c.batchIndex = c.planner.given
        /\ c.model \in Seq(SUBSET (Nat \ {0}))
        /\ \A i \in DOMAIN c.model : Cardinality(c.model[i]) = Accumulation
    <2>1. CASE c \in disk  BY <2>1 DEF IInv, Shelf
    <2>2. CASE c = FreshState
      <3>1. c.model = <<>> /\ c.planner = FreshPlanner /\ c.batchIndex = 0
        BY <2>2 DEF FreshState
      <3> QED BY <3>1, FreshInStep, EmptySeq
    <2> QED BY <2>1, <2>2
  <1>3. /\ inFlight' = <<>> /\ micro' = 0 /\ grads' = {} /\ trainer' = "top"
        /\ validated' = FALSE /\ elapsed' = FALSE /\ disk' = disk
    BY DEF Restart
  <1>4. Chain'
    BY <1>1, <1>2, <1>3, LaunchChain
  <1>5. Shape'
    BY <1>1, <1>3, QueueShapes, EmptySeq
       DEF Launch, Shape, QueueShape, Entries, Making, Broken
  <1>6. Shelf'
    BY <1>3 DEF IInv, Shelf
  <1>7. Rest'
    BY RestStep DEF IInv, Next
  <1>8. Learning'
    BY <1>1, <1>2, <1>3, ConfigAssumption DEF Learning, UpdatesAreWhole, Taking, Quiet
  <1>9. committed' = c.planner
    BY <1>1 DEF Launch
  <1> QED BY <1>1, <1>4, <1>5, <1>6, <1>7, <1>8, <1>9 DEF IInv

LEMMA IInvNext ==
    ASSUME IInv, [Next]_vars
    PROVE  IInv'
  <1>1. CASE Produce
    <2>1. Chain' /\ Shape' /\ Rest'
      BY <1>1, ProduceChain, ProduceShape, RestStep DEF IInv, Next
    <2>2. UNCHANGED <<committed, disk, trainer, learning>>
      BY <1>1 DEF Produce, Plan, PlanFails, Reserve, Load, Put, PutStopped, PutFailure,
         ProducerEnds
    <2> QED BY <2>1, <2>2 DEF IInv, Shelf, Learning, UpdatesAreWhole, learning
  <1>2. CASE Train
    BY <1>2, TrainChain, TrainShape, TrainShelf, TrainLearning, RestStep DEF IInv, Next
  <1>3. CASE TimePasses \/ Kill
    <2>1. UNCHANGED <<pipeline, learning, disk>>
      BY <1>3 DEF TimePasses, Kill
    <2>2. UNCHANGED Queued
      BY <2>1 DEF pipeline, Queued
    <2>3. Chain'
      BY <2>1, <2>2, ChainKept DEF IInv, pipeline, learning
    <2>4. Shape' /\ Learning'
      BY ZenonT(30), <1>3, <2>1 DEF TimePasses, Kill, IInv, Shape, Learning, UpdatesAreWhole,
         pipeline, learning, Broken, Taking, Quiet
    <2> QED BY <1>3, <2>1, <2>3, <2>4, RestStep DEF IInv, Shelf, Next
  <1>4. CASE Restart
    BY <1>4, RestartStep
  <1>5. CASE UNCHANGED vars
    BY <1>5 DEF IInv, Chain, Shape, Shelf, Rest, Learning, UpdatesAreWhole, vars,
       pipeline, learning, AfterFlight, AfterActive, AfterQueued, AfterAll, Queued
  <1> QED BY <1>1, <1>2, <1>3, <1>4, <1>5 DEF Next

-----------------------------------------------------------------------------
(* Training implements BatchStream.                                        *)

OnDisk == {[next |-> c.planner.given, model |-> c.model] : c \in disk}

LEMMA StreamInit ==
    ASSUME Init PROVE Stream!Init
  BY DEF Init, Stream!Init, FreshPlanner

LEMMA StreamNext ==
    ASSUME IInv, [Next]_vars
    PROVE  [Stream!Next]_(Stream!vars)
  <1> USE DEF IInv
  <1>d. disk' = disk => OnDisk' = OnDisk
    BY DEF OnDisk
  <1>1. CASE Produce
    <2>1. UNCHANGED <<committed, disk, learning>>
      BY <1>1 DEF Produce, Plan, PlanFails, Reserve, Load, Put, PutStopped, PutFailure,
         ProducerEnds
    <2> QED BY <2>1 DEF Stream!vars, learning
  <1>2. CASE Train
    <2>0. \/ committed'.given = committed.given
          \/ committed'.given = committed.given + 1
      BY <1>2, TrainChain
    <2>1. CASE TrainStep
      <3>1. /\ inFlight[1].id = committed.given + 1
            /\ inFlight[1].after.given = committed.given + 1
        <4>1. inFlight # <<>> /\ RunFrom(inFlight, committed.given)
              /\ committed.given \in Nat
          BY <2>1, ChainTypes DEF TrainStep, Shape, Chain
        <4>2. Len(inFlight) \in Nat \ {0}
          BY <4>1, FirstAndRest
        <4>3. 1 \in 1..Len(inFlight)
          BY <4>2
        <4> QED BY <4>1, <4>3 DEF RunFrom
      <3> QED BY <2>1, <3>1 DEF TrainStep, Consumed, Stream!Next, Stream!Accumulate
    <2>2. CASE Update
      BY <2>2 DEF Update, Stream!Next, Stream!Update, pipeline
    <2>3. CASE Save
      <3>1. /\ grads = {} /\ disk' = disk \cup {Checkpoint}
            /\ UNCHANGED <<committed, grads, model>>
        BY <2>3 DEF Save, Saving, Learning, Quiet, pipeline, learning
      <3>2. Checkpoint.planner = committed /\ Checkpoint.model = model
        BY DEF Checkpoint
      <3>3. OnDisk' = OnDisk \cup {[next |-> committed.given, model |-> model]}
        BY <3>1, <3>2 DEF OnDisk
      <3> QED BY <3>1, <3>3 DEF OnDisk, Stream!Next, Stream!Save
    <2>4. CASE Prune
      <3>1. disk' \subseteq disk /\ UNCHANGED <<committed, grads, model>>
        BY <2>4 DEF Prune, Kept, pipeline, learning
      <3>2. OnDisk' \in SUBSET OnDisk
        BY <3>1 DEF OnDisk
      <3> QED BY <3>1, <3>2 DEF OnDisk, Stream!Next, Stream!Expire
    <2>5. CASE ~(TrainStep \/ Update \/ Save \/ Prune)
      <3>1. /\ UNCHANGED <<model, disk>>
            /\ grads' = {} \/ UNCHANGED <<committed, grads>>
        BY <1>2, <2>5 DEF Train, Top, FetchActive, FetchWindow, FetchFailure, Take,
           SkipBatch, Consumed, Raise, FetchTimesOut, StillAlive, ProducerGone,
           PrefetchError, RestartPipeline, Launch, JoinTimesOut, TrainStepFails,
           Nonfinite, Validate, SaveFails, Close, Exit, pipeline, learning
      <3> QED BY <1>d, <2>0, <3>1
              DEF OnDisk, Stream!Next, Stream!GiveUp, Stream!vars
    <2> QED BY <2>1, <2>2, <2>3, <2>4, <2>5
  <1>3. CASE TimePasses \/ Kill \/ UNCHANGED vars
    <2>1. UNCHANGED <<committed, disk, learning>>
      BY <1>3 DEF TimePasses, Kill, vars, pipeline
    <2> QED BY <2>1 DEF Stream!vars, learning
  <1>4. CASE Restart
    <2>1. PICK c \in disk \cup {FreshState} :
              committed'.given = c.planner.given /\ model' = c.model
      BY <1>4, RestartStep
    <2>2. grads' = {} /\ disk' = disk
      BY <1>4 DEF Restart
    <2> DEFINE s == [next |-> c.planner.given, model |-> c.model]
    <2>3. s \in OnDisk \cup {Stream!Fresh}
      <3>1. CASE c \in disk  BY <3>1 DEF OnDisk
      <3>2. CASE c = FreshState
        <4>1. c.planner.given = 0 /\ c.model = <<>>
          BY <3>2 DEF FreshState, FreshPlanner
        <4> QED BY <4>1 DEF Stream!Fresh
      <3> QED BY <3>1, <3>2
    <2>4. committed'.given = s.next /\ model' = s.model
      BY <2>1
    <2> HIDE DEF s
    <2> QED BY <1>d, <2>2, <2>3, <2>4 DEF OnDisk, Stream!Next, Stream!Resume
  <1> QED BY <1>1, <1>2, <1>3, <1>4 DEF Next

-----------------------------------------------------------------------------
(* Learning once: a fact about BatchStream alone.                          *)

LEMMA SoundGiveUp ==
    ASSUME NEW n \in Nat, NEW m, NEW g, Stream!Sound(n, m, g)
    PROVE  Stream!Sound(n, m, {}) /\ Stream!Sound(n + 1, m, {})
  <1>1. 1..n \subseteq 1..(n + 1)
    OBVIOUS
  <1> QED BY <1>1 DEF Stream!Sound

LEMMA SoundAccumulate ==
    ASSUME NEW n \in Nat, NEW m, NEW g, Stream!Sound(n, m, g)
    PROVE  Stream!Sound(n + 1, m, g \cup {n + 1})
  <1>1. 1..(n + 1) = (1..n) \cup {n + 1} /\ n + 1 \notin 1..n
    OBVIOUS
  <1> QED BY <1>1 DEF Stream!Sound

LEMMA SoundUpdate ==
    ASSUME NEW n \in Nat, NEW m \in Seq(SUBSET (Nat \ {0})),
           NEW g \in SUBSET (Nat \ {0}), Stream!Sound(n, m, g)
    PROVE  Stream!Sound(n, Append(m, g), {})
  <1> DEFINE t == Append(m, g)
  <1>1. /\ t \in Seq(SUBSET (Nat \ {0})) /\ Len(t) = Len(m) + 1 /\ Len(m) \in Nat
        /\ DOMAIN t = 1..Len(t) /\ DOMAIN m = 1..Len(m)
    OBVIOUS
  <1>2. \A i \in 1..Len(t) : t[i] = IF i <= Len(m) THEN m[i] ELSE g
    OBVIOUS
  <1> HIDE DEF t
  <1>3. ASSUME NEW i \in 1..Len(t)
        PROVE  (i \in DOMAIN m /\ t[i] = m[i]) \/ (i = Len(m) + 1 /\ t[i] = g)
    <2>1. CASE i <= Len(m)
      <3>1. i \in 1..Len(m)  BY <1>1, <2>1
      <3>2. i \in DOMAIN m   BY <1>1, <3>1
      <3>3. t[i] = m[i]      BY <1>2, <2>1
      <3> QED BY <3>2, <3>3
    <2>2. CASE ~(i <= Len(m))
      <3>1. i = Len(m) + 1  BY <1>1, <2>2
      <3> QED BY <1>2, <2>2, <3>1
    <2> QED BY <2>1, <2>2
  <1>4. ASSUME NEW i \in 1..Len(t) PROVE t[i] \subseteq (1..n) \ {}
    BY <1>3 DEF Stream!Sound
  <1>5. ASSUME NEW i \in 1..Len(t), NEW j \in 1..Len(t), i # j
        PROVE  t[i] \cap t[j] = {}
    <2>1. CASE i \in DOMAIN m /\ t[i] = m[i] /\ j \in DOMAIN m /\ t[j] = m[j]
      BY <1>5, <2>1 DEF Stream!Sound
    <2>2. CASE i \in DOMAIN m /\ t[i] = m[i] /\ t[j] = g
      BY <2>2 DEF Stream!Sound
    <2>3. CASE t[i] = g /\ j \in DOMAIN m /\ t[j] = m[j]
      BY <2>3 DEF Stream!Sound
    <2> QED BY <1>3, <1>5, <2>1, <2>2, <2>3
  <1> QED BY <1>1, <1>4, <1>5 DEF Stream!Sound, t

LEMMA OnceNext ==
    ASSUME committed.given \in Nat, model \in Seq(SUBSET (Nat \ {0})),
           grads \in SUBSET (Nat \ {0}),
           Stream!LearntOnce, [Stream!Next]_(Stream!vars)
    PROVE  Stream!LearntOnce'
  <1> DEFINE n == committed.given
             ok(d) == \A s \in d : Stream!Sound(s.next, s.model, {})
  <1>1. Stream!Sound(n, model, grads) /\ ok(OnDisk)
    BY DEF Stream!LearntOnce, OnDisk
  <1>2. Stream!Sound(n, model, {}) /\ Stream!Sound(n + 1, model, {})
    BY <1>1, SoundGiveUp
  <1>3. SUFFICES Stream!Sound(n', model', grads') /\ ok(OnDisk')
    BY DEF Stream!LearntOnce, OnDisk
  <1>4. CASE Stream!Accumulate
    <2>1. Stream!Sound(n + 1, model, grads \cup {n + 1})
      BY <1>1, SoundAccumulate
    <2>2. n' = n + 1 /\ grads' = grads \cup {n + 1} /\ model' = model
          /\ OnDisk' = OnDisk
      BY <1>4 DEF Stream!Accumulate, OnDisk
    <2> QED BY <1>1, <2>1, <2>2
  <1>5. CASE Stream!GiveUp
    <2>1. n' \in {n, n + 1} /\ grads' = {} /\ model' = model /\ OnDisk' = OnDisk
      BY <1>5 DEF Stream!GiveUp, OnDisk
    <2> QED BY <1>1, <1>2, <2>1
  <1>6. CASE Stream!Update
    <2>1. Stream!Sound(n, Append(model, grads), {})
      BY <1>1, SoundUpdate
    <2>2. n' = n /\ grads' = {} /\ model' = Append(model, grads) /\ OnDisk' = OnDisk
      BY <1>6 DEF Stream!Update, OnDisk
    <2> QED BY <1>1, <2>1, <2>2
  <1>7. CASE Stream!Save
    <2>1. /\ n' = n /\ grads' = grads /\ model' = model
          /\ OnDisk' = OnDisk \cup {[next |-> n, model |-> model]}
      BY <1>7 DEF Stream!Save, OnDisk
    <2> QED BY <1>1, <1>2, <2>1
  <1>8. CASE Stream!Expire
    <2>1. n' = n /\ grads' = grads /\ model' = model /\ OnDisk' \subseteq OnDisk
      BY <1>8 DEF Stream!Expire, OnDisk
    <2> QED BY <1>1, <2>1
  <1>9. CASE Stream!Resume
    <2>1. PICK s \in OnDisk \cup {Stream!Fresh} : n' = s.next /\ model' = s.model
      BY <1>9 DEF Stream!Resume, OnDisk
    <2>2. grads' = {} /\ OnDisk' = OnDisk
      BY <1>9 DEF Stream!Resume, OnDisk
    <2>3. Stream!Sound(s.next, s.model, {})
      <3>1. CASE s \in OnDisk  BY <1>1, <3>1
      <3>2. CASE s = Stream!Fresh
        <4>1. s.next = 0 /\ s.model = <<>> /\ DOMAIN <<>> = {}
          BY <3>2 DEF Stream!Fresh
        <4> QED BY <4>1 DEF Stream!Sound
      <3> QED BY <3>1, <3>2
    <2> QED BY <1>1, <2>1, <2>2, <2>3
  <1>10. CASE UNCHANGED Stream!vars
    <2>1. n' = n /\ grads' = grads /\ model' = model /\ OnDisk' = OnDisk
      BY <1>10 DEF Stream!vars, OnDisk
    <2> QED BY <1>1, <2>1
  <1> QED BY <1>4, <1>5, <1>6, <1>7, <1>8, <1>9, <1>10 DEF Stream!Next

-----------------------------------------------------------------------------
(* Pruning keeps a checkpoint of the highest step.                         *)

(* The least-number principle.                                             *)
LEMMA LeastNatural ==
    ASSUME NEW T, T \subseteq Nat, T # {}
    PROVE  \E x \in T : \A y \in T : x <= y
  <1>1. PICK x \in T : \A y \in T : ~ (<<y, x>> \in OpToRel(<, Nat))
    BY NatLessThanWellFounded, WFMin
  <1>2. \A y \in T : ~(y < x)
    BY <1>1 DEF OpToRel
  <1>3. ASSUME NEW y \in T PROVE x <= y
    <2>1. x \in Nat /\ y \in Nat /\ ~(y < x)
      BY <1>2
    <2> QED BY <2>1
  <1> QED BY <1>3

LEMMA KeptCovers ==
    ASSUME Shelf, NEW c \in disk
    PROVE  \E d \in Kept : d.step >= c.step
  <1> DEFINE Above(d) == {e \in disk : e.step > d.step}
             T == {Cardinality(Above(d)) : d \in {e \in disk : e.step >= c.step}}
  <1>0. \A d \in disk : d.step \in Nat
    BY DEF Shelf
  <1>1. \A d \in disk : IsFiniteSet(Above(d)) /\ Cardinality(Above(d)) \in Nat
    <2> TAKE d \in disk
    <2>1. Above(d) \in SUBSET disk /\ IsFiniteSet(disk)
      BY DEF Shelf
    <2>2. IsFiniteSet(Above(d))
      BY <2>1, FS_Subset
    <2> QED BY <2>2, FS_CardinalityType
  <1> HIDE DEF Above
  <1>2. T \subseteq Nat /\ T # {}
    <2>1. c.step >= c.step  BY <1>0
    <2> QED BY <1>1, <2>1
  <1>3. PICK x \in T : \A y \in T : x <= y
    BY <1>2, LeastNatural
  <1>4. PICK d \in disk : d.step >= c.step /\ x = Cardinality(Above(d))
    BY <1>3
  <1>5. Above(d) = {}
    <2> SUFFICES ASSUME NEW e \in Above(d) PROVE FALSE
      OBVIOUS
    <2>1. e \in disk /\ e.step > d.step
      BY DEF Above
    <2>2. Above(e) \in SUBSET Above(d) /\ e \notin Above(e)
      BY <1>0, <1>4, <2>1 DEF Above
    <2>3. Cardinality(Above(e)) # Cardinality(Above(d))
      BY <1>1, <1>4, <2>2, FS_Subset
    <2>4. Cardinality(Above(e)) <= Cardinality(Above(d))
      BY <1>1, <1>4, <2>2, FS_Subset
    <2>5. e.step >= c.step
      BY <1>0, <1>4, <2>1
    <2>6. Cardinality(Above(d)) <= Cardinality(Above(e))
      BY <1>3, <1>4, <2>1, <2>5
    <2>7. Cardinality(Above(d)) \in Nat /\ Cardinality(Above(e)) \in Nat
      BY <1>1, <1>4, <2>1
    <2> QED BY <2>3, <2>4, <2>6, <2>7
  <1>6. d \in Kept
    <2>1. Cardinality(Above(d)) = 0 /\ 0 < KeepLast
      BY <1>5, FS_EmptySet, ConfigAssumption
    <2> QED BY <1>4, <2>1 DEF Kept, Above
  <1> QED BY <1>4, <1>6

LEMMA LatestNext ==
    ASSUME IInv, [Next]_vars
    PROVE  \A c \in disk : \E d \in disk' : d.step >= c.step
  <1>0. \A c \in disk : c.step \in Nat
    BY DEF IInv, Shelf
  <1>1. CASE Prune
    BY <1>1, KeptCovers DEF IInv, Prune
  <1>2. CASE disk \subseteq disk'
    <2>1. \A c \in disk : c.step >= c.step
      BY <1>0
    <2> QED BY <1>2, <2>1
  <1>3. Prune \/ disk \subseteq disk'
    BY DEF vars, Next, Produce, Plan, PlanFails, Reserve, Load, Put, PutStopped,
       PutFailure, ProducerEnds, Train, Top, FetchActive, FetchWindow, FetchFailure,
       Take, FetchTimesOut, StillAlive, ProducerGone, PrefetchError, RestartPipeline,
       JoinTimesOut, TrainStep, TrainStepFails, Nonfinite, Update, Validate, Save,
       SaveFails, Close, Exit, TimePasses, Kill, Restart
  <1> QED BY <1>1, <1>2, <1>3

-----------------------------------------------------------------------------
(* The sums of estimates.  A function that adds up the estimates of w one  *)
(* by one exists, by the least-number principle, and is the only one.      *)

Estimates == \A b \in Nat : Bytes(b) \in Nat

Adds(f, w, n) ==
    /\ f \in [0..n -> Nat] /\ f[0] = 0
    /\ \A k \in 1..n : f[k] = f[k - 1] + Bytes(w[k].id)

LEMMA SumExists ==
    ASSUME Estimates, NEW w \in Seq(Items)
    PROVE  \E f : Adds(f, w, Len(w))
  <1> DEFINE n == Len(w)
             T == {k \in 0..n : ~ \E f : Adds(f, w, k)}
  <1>0. n \in Nat /\ \A k \in 1..n : Bytes(w[k].id) \in Nat
    <2>1. n \in Nat  OBVIOUS
    <2>2. ASSUME NEW k \in 1..n PROVE Bytes(w[k].id) \in Nat
      <3>1. w[k] \in Items  OBVIOUS
      <3>2. w[k].id \in Nat  BY <3>1 DEF Items
      <3> QED BY <3>2 DEF Estimates
    <2> QED BY <2>1, <2>2
  <1> HIDE DEF n
  <1>1. T = {}
    <2> SUFFICES ASSUME T # {} PROVE FALSE
      OBVIOUS
    <2>1. PICK m \in T : \A k \in T : m <= k
      <3>1. T \subseteq Nat  BY <1>0
      <3> QED BY <3>1, LeastNatural
    <2>2. m \in 0..n /\ m \in Nat
      BY <1>0
    <2>3. CASE m = 0
      <3> DEFINE f == [k \in 0..0 |-> 0]
      <3>1. Adds(f, w, 0)  BY DEF Adds
      <3> QED BY <2>1, <2>3, <3>1
    <2>4. CASE m # 0
      <3>1. m - 1 \in 0..n /\ ~(m <= m - 1) /\ m - 1 \in Nat /\ m \in 1..n
        BY <1>0, <2>2, <2>4
      <3>2. PICK f : Adds(f, w, m - 1)
        BY <2>1, <3>1
      <3> DEFINE b == Bytes(w[m].id)
                 g == [k \in 0..m |-> IF k = m THEN f[m - 1] + b ELSE f[k]]
      <3>3. b \in Nat /\ f[m - 1] \in Nat
        <4>1. m - 1 \in 0..(m - 1)  BY <3>1
        <4> QED BY <1>0, <3>1, <3>2, <4>1 DEF Adds
      <3> HIDE DEF b
      <3>4. g \in [0..m -> Nat]
        <4>1. ASSUME NEW k \in 0..m PROVE g[k] \in Nat
          <5>1. k = m \/ k \in 0..(m - 1)  BY <2>2
          <5> QED BY <3>2, <3>3, <5>1 DEF Adds
        <4> QED BY <4>1
      <3>5. g[0] = 0
        <4>1. 0 \in 0..m /\ 0 # m  BY <2>2, <2>4
        <4> QED BY <3>2, <4>1 DEF Adds
      <3>6. ASSUME NEW k \in 1..m PROVE g[k] = g[k - 1] + Bytes(w[k].id)
        <4>1. k \in 0..m /\ k - 1 \in 0..m /\ k - 1 # m
          BY <2>2
        <4>2. g[k - 1] = f[k - 1]
          BY <4>1
        <4>3. CASE k = m  BY <4>1, <4>2, <4>3 DEF b
        <4>4. CASE k # m
          <5>1. k \in 1..(m - 1)  BY <2>2, <4>4
          <5> QED BY <3>2, <4>1, <4>2, <4>4, <5>1 DEF Adds
        <4> QED BY <4>3, <4>4
      <3>7. Adds(g, w, m)
        BY <3>4, <3>5, <3>6 DEF Adds
      <3> QED BY <2>1, <3>7
    <2> QED BY <2>3, <2>4
  <1>2. n \in 0..n
    BY <1>0
  <1> QED BY <1>1, <1>2 DEF n

LEMMA SumIs ==
    ASSUME NEW w \in Seq(Items), NEW f, Adds(f, w, Len(w))
    PROVE  ByteSum(w) = f[Len(w)]
  <1> DEFINE n == Len(w)
             Sums(u) == u = [k \in 0..n |-> IF k = 0 THEN 0
                                            ELSE u[k - 1] + Bytes(w[k].id)]
             h == CHOOSE u : Sums(u)
  <1>0. n \in Nat
    OBVIOUS
  <1>1. ByteSum(w) = h[n]
    BY DEF ByteSum
  <1> HIDE DEF n
  <1>2. Adds(f, w, n)
    BY DEF n
  <1>3. Sums(f)
    <2>1. f \in [0..n -> Nat]  BY <1>2 DEF Adds
    <2>2. ASSUME NEW k \in 0..n
          PROVE  f[k] = IF k = 0 THEN 0 ELSE f[k - 1] + Bytes(w[k].id)
      <3>1. k = 0 \/ k \in 1..n  BY <1>0
      <3> QED BY <1>2, <3>1 DEF Adds
    <2> QED BY <2>1, <2>2
  <1>4. Sums(h)
    BY <1>3
  <1> HIDE DEF h
  <1>5. \A k \in 0..n : h[k] = IF k = 0 THEN 0 ELSE h[k - 1] + Bytes(w[k].id)
    BY <1>4
  <1> DEFINE T == {k \in 0..n : h[k] # f[k]}
  <1>6. T = {}
    <2> SUFFICES ASSUME T # {} PROVE FALSE
      OBVIOUS
    <2>1. PICK m \in T : \A k \in T : m <= k
      <3>1. T \subseteq Nat  BY <1>0
      <3> QED BY <3>1, LeastNatural
    <2>2. CASE m = 0
      <3>1. 0 \in 0..n  BY <1>0
      <3> QED BY <1>2, <1>5, <2>1, <2>2, <3>1 DEF Adds
    <2>3. CASE m # 0
      <3>1. m - 1 \in 0..n /\ ~(m <= m - 1) /\ m \in 1..n
        BY <1>0, <2>3
      <3>2. h[m - 1] = f[m - 1]
        BY <2>1, <3>1
      <3>3. h[m] = h[m - 1] + Bytes(w[m].id)
        BY <1>5, <2>3
      <3>4. f[m] = f[m - 1] + Bytes(w[m].id)
        BY <1>2, <3>1 DEF Adds
      <3> QED BY <2>1, <3>2, <3>3, <3>4
    <2> QED BY <2>2, <2>3
  <1>7. n \in 0..n
    BY <1>0
  <1> QED BY <1>1, <1>6, <1>7 DEF n

LEMMA SumEmpty ==
    ASSUME Estimates PROVE ByteSum(<<>>) = 0
  <1>1. <<>> \in Seq(Items) /\ Len(<<>>) = 0
    BY EmptySeq
  <1>2. PICK f : Adds(f, <<>>, 0)
    BY <1>1, SumExists
  <1> QED BY <1>1, <1>2, SumIs DEF Adds

LEMMA SumNat ==
    ASSUME Estimates, NEW w \in Seq(Items) PROVE ByteSum(w) \in Nat
  <1>1. PICK f : Adds(f, w, Len(w))
    BY SumExists
  <1>2. Len(w) \in 0..Len(w)
    <2>1. Len(w) \in Nat  OBVIOUS
    <2> QED BY <2>1
  <1> QED BY <1>1, <1>2, SumIs DEF Adds

(* The sum looks only at the names of the batches.                         *)
LEMMA SumSame ==
    ASSUME Estimates, NEW v \in Seq(Items), NEW w \in Seq(Items), Len(v) = Len(w),
           \A k \in 1..Len(w) : v[k].id = w[k].id
    PROVE  ByteSum(v) = ByteSum(w)
  <1>1. PICK f : Adds(f, w, Len(w))
    BY SumExists
  <1>2. Adds(f, v, Len(v))
    BY <1>1 DEF Adds
  <1> QED BY <1>1, <1>2, SumIs

LEMMA SumFirst ==
    ASSUME Estimates, NEW w \in Seq(Items), w # <<>>
    PROVE  ByteSum(w) = Bytes(Head(w).id) + ByteSum(Tail(w))
  <1> DEFINE n == Len(w)
             t == Tail(w)
  <1>0. n \in Nat /\ n >= 1 /\ Head(w) = w[1]
    <2>1. n \in Nat \ {0}  BY EmptySeq
    <2> QED BY <2>1, HeadTailProperties
  <1>1. t \in Seq(Items) /\ Len(t) = n - 1 /\ \A k \in 1..(n - 1) : t[k] = w[k + 1]
    BY HeadTailProperties
  <1>2. PICK f : Adds(f, w, n)
    BY SumExists
  <1> HIDE DEF n, t
  <1>3. f \in [0..n -> Nat]
    BY <1>2 DEF Adds
  <1>4. f[1] = Bytes(Head(w).id)
    <2>1. 1 \in 1..n  BY <1>0
    <2>2. f[1] = f[0] + Bytes(w[1].id) /\ f[0] = 0
      BY <1>2, <2>1 DEF Adds
    <2>3. f[1] \in Nat  BY <1>0, <1>3
    <2>4. Bytes(w[1].id) \in Nat
      <3>1. w[1] \in Items  BY <2>1 DEF n
      <3>2. w[1].id \in Nat  BY <3>1 DEF Items
      <3> QED BY <3>2 DEF Estimates
    <2> QED BY <1>0, <2>2, <2>4
  <1>5. PICK g : Adds(g, t, n - 1)
    BY <1>1, SumExists
  <1> DEFINE T == {k \in 0..(n - 1) : f[k + 1] # f[1] + g[k]}
  <1>6. T = {}
    <2> SUFFICES ASSUME T # {} PROVE FALSE
      OBVIOUS
    <2>1. PICK m \in T : \A k \in T : m <= k
      <3>1. T \subseteq Nat  BY <1>0
      <3> QED BY <3>1, LeastNatural
    <2>2. f[1] \in Nat /\ m \in Nat
      BY <1>0, <1>3
    <2>3. CASE m = 0
      <3>1. g[0] = 0  BY <1>5 DEF Adds
      <3>2. f[1] = f[1] + 0 /\ 0 + 1 = 1  BY <2>2
      <3> QED BY <2>1, <2>3, <3>1, <3>2
    <2>4. CASE m # 0
      <3>1. /\ m - 1 \in 0..(n - 1) /\ ~(m <= m - 1) /\ m \in 1..(n - 1)
            /\ m + 1 \in 1..n /\ (m + 1) - 1 = m /\ (m - 1) + 1 = m
        BY <1>0, <2>2, <2>4
      <3>2. f[m] = f[1] + g[m - 1]
        BY <2>1, <3>1
      <3> DEFINE b == Bytes(t[m].id)
      <3>3. g[m] = g[m - 1] + b
        BY <1>5, <3>1 DEF Adds
      <3>4. f[m + 1] = f[m] + b
        <4>1. t[m] = w[m + 1]  BY <1>1, <3>1
        <4>2. f[m + 1] = f[(m + 1) - 1] + Bytes(w[m + 1].id)
          BY <1>2, <3>1 DEF Adds
        <4> QED BY <3>1, <4>1, <4>2
      <3>5. g[m - 1] \in Nat /\ b \in Nat
        <4>1. g[m - 1] \in Nat  BY <1>5, <3>1 DEF Adds
        <4>2. t[m] \in Items  BY <1>1, <3>1
        <4>3. t[m].id \in Nat  BY <4>2 DEF Items
        <4> QED BY <4>1, <4>3 DEF Estimates
      <3> HIDE DEF b
      <3>6. f[m + 1] = f[1] + g[m]
        BY <2>2, <3>2, <3>3, <3>4, <3>5
      <3> QED BY <2>1, <3>6
    <2> QED BY <2>3, <2>4
  <1>7. f[n] = f[1] + g[n - 1]
    <2>1. n - 1 \in 0..(n - 1) /\ (n - 1) + 1 = n  BY <1>0
    <2> QED BY <1>6, <2>1
  <1>8. ByteSum(w) = f[n]
    BY <1>2, SumIs DEF n
  <1>9. ByteSum(t) = g[n - 1]
    BY <1>1, <1>5, SumIs
  <1> QED BY <1>4, <1>7, <1>8, <1>9 DEF t

LEMMA SumConcat ==
    ASSUME Estimates, NEW v \in Seq(Items), NEW w \in Seq(Items)
    PROVE  ByteSum(v \o w) = ByteSum(v) + ByteSum(w)
  <1> DEFINE n == Len(v)
             l == Len(w)
             c == v \o w
  <1>0. n \in Nat /\ l \in Nat
    OBVIOUS
  <1>1. /\ c \in Seq(Items) /\ Len(c) = n + l
        /\ \A k \in 1..n + l : c[k] = IF k <= n THEN v[k] ELSE w[k - n]
    BY ConcatProperties
  <1>2. PICK f : Adds(f, v, n)
    BY SumExists
  <1>3. PICK g : Adds(g, w, l)
    BY SumExists
  <1>4. ByteSum(v) = f[n] /\ ByteSum(w) = g[l]
    BY <1>2, <1>3, SumIs
  <1>w. \A k \in 1..l : Bytes(w[k].id) \in Nat
    <2> TAKE k \in 1..l
    <2>1. w[k] \in Items  OBVIOUS
    <2>2. w[k].id \in Nat  BY <2>1 DEF Items
    <2> QED BY <2>2 DEF Estimates
  <1> HIDE DEF n, l, c
  <1> DEFINE h == [k \in 0..(n + l) |-> IF k <= n THEN f[k] ELSE f[n] + g[k - n]]
  <1>5. /\ f \in [0..n -> Nat] /\ f[0] = 0 /\ f[n] \in Nat
        /\ g \in [0..l -> Nat] /\ g[0] = 0
    <2>1. n \in 0..n  BY <1>0
    <2> QED BY <1>2, <1>3, <2>1 DEF Adds
  <1>6. h \in [0..(n + l) -> Nat]
    <2> SUFFICES ASSUME NEW k \in 0..(n + l)
                 PROVE  (IF k <= n THEN f[k] ELSE f[n] + g[k - n]) \in Nat
      OBVIOUS
    <2>1. CASE k <= n
      <3>1. k \in 0..n  BY <1>0, <2>1
      <3> QED BY <1>5, <2>1, <3>1
    <2>2. CASE ~(k <= n)
      <3>1. k - n \in 0..l  BY <1>0, <2>2
      <3>2. g[k - n] \in Nat  BY <1>5, <3>1
      <3> QED BY <1>5, <2>2, <3>2
    <2> QED BY <2>1, <2>2
  <1>7. h[0] = 0
    <2>1. 0 \in 0..(n + l) /\ 0 <= n  BY <1>0
    <2> QED BY <1>5, <2>1
  <1>8. ASSUME NEW k \in 1..(n + l) PROVE h[k] = h[k - 1] + Bytes(c[k].id)
    <2>0. k \in 0..(n + l) /\ k - 1 \in 0..(n + l) /\ k \in 1..n + l
      BY <1>0
    <2>1. CASE k <= n
      <3>1. k \in 1..n /\ k - 1 <= n  BY <1>0, <2>1
      <3>2. h[k] = f[k] /\ h[k - 1] = f[k - 1] /\ c[k] = v[k]
        BY <1>1, <2>0, <2>1, <3>1
      <3> QED BY <1>2, <3>1, <3>2 DEF Adds
    <2>2. CASE ~(k <= n)
      <3> DEFINE j == k - n
      <3>1. j \in 1..l /\ (k - 1) - n = j - 1  BY <1>0, <2>2
      <3>2. c[k] = w[j]
        BY <1>1, <2>0, <2>2
      <3>3. h[k] = f[n] + g[j]
        BY <2>0, <2>2
      <3>4. g[j] = g[j - 1] + Bytes(w[j].id)
        BY <1>3, <3>1 DEF Adds
      <3>5. h[k - 1] = f[n] + g[j - 1]
        <4>1. CASE k - 1 <= n
          <5>1. k - 1 = n /\ j - 1 = 0  BY <1>0, <2>2, <4>1
          <5>2. h[k - 1] = f[n]  BY <2>0, <4>1, <5>1
          <5>3. g[j - 1] = 0  BY <1>5, <5>1
          <5> QED BY <1>5, <5>2, <5>3
        <4>2. CASE ~(k - 1 <= n)
          BY <2>0, <3>1, <4>2
        <4> QED BY <4>1, <4>2
      <3>6. g[j - 1] \in Nat /\ Bytes(w[j].id) \in Nat
        <4>1. j - 1 \in 0..l  BY <1>0, <3>1
        <4> QED BY <1>5, <1>w, <3>1, <4>1
      <3> HIDE DEF h, j
      <3> QED BY <1>5, <3>2, <3>3, <3>4, <3>5, <3>6
    <2> QED BY <2>1, <2>2
  <1>9. Adds(h, c, n + l)
    BY <1>6, <1>7, <1>8 DEF Adds
  <1>10. ByteSum(c) = h[n + l]
    BY <1>1, <1>9, SumIs
  <1>11. h[n + l] = f[n] + g[l]
    <2>1. n + l \in 0..(n + l) /\ (n + l) - n = l  BY <1>0
    <2>2. CASE n + l <= n
      <3>1. l = 0 /\ n + l = n  BY <1>0, <2>2
      <3> QED BY <1>5, <2>1, <2>2, <3>1
    <2>3. CASE ~(n + l <= n)
      BY <2>1, <2>3
    <2> QED BY <2>2, <2>3
  <1> QED BY <1>4, <1>10, <1>11 DEF c

-----------------------------------------------------------------------------
(* The bytes that are reserved, place by place.                            *)

Loading == IF producer \in {"load", "put"} THEN window ELSE <<>>

Exact ==
    /\ reserved = ByteSum(inFlight) + ByteSum(active) + ByteSum(Queued)
                      + ByteSum(Loading)
    /\ reserved <= MaxBytes

LEMMA SumTypes ==
    ASSUME Estimates, Chain
    PROVE  /\ ByteSum(inFlight) \in Nat /\ ByteSum(active) \in Nat
           /\ ByteSum(Queued) \in Nat /\ ByteSum(window) \in Nat
           /\ ByteSum(Loading) \in Nat /\ Loading \in Seq(Items)
           /\ MaxBytes \in Nat
  <1>1. Loading \in Seq(Items)
    BY ChainTypes, EmptySeq DEF Loading
  <1> QED BY <1>1, ChainTypes, SumNat, ConfigAssumption

LEMMA ExactFollows ==
    ASSUME Estimates, Chain, Exact PROVE BytesAreExact
  <1>0. /\ inFlight \in Seq(Items) /\ active \in Seq(Items)
        /\ Queued \in Seq(Items) /\ Loading \in Seq(Items)
    BY ChainTypes, SumTypes
  <1> DEFINE two   == inFlight \o active
             three == two \o Queued
  <1>1. two \in Seq(Items) /\ ByteSum(two) = ByteSum(inFlight) + ByteSum(active)
    BY <1>0, ConcatProperties, SumConcat
  <1>2. three \in Seq(Items) /\ ByteSum(three) = ByteSum(two) + ByteSum(Queued)
    BY <1>0, <1>1, ConcatProperties, SumConcat
  <1>3. ByteSum(three \o Loading) = ByteSum(three) + ByteSum(Loading)
    BY <1>0, <1>2, SumConcat
  <1>4. Reserved = three \o Loading
    BY DEF Reserved, Ready, Loading
  <1> QED BY <1>1, <1>2, <1>3, <1>4 DEF BytesAreExact, Exact

LEMMA ProduceExact ==
    ASSUME Estimates, Chain, Shape, Exact, Produce
    PROVE  Exact'
  <1>0. /\ UNCHANGED <<inFlight, active>> /\ Chain'
        /\ ByteSum(<<>>) = 0
    BY ProduceChain, SumEmpty
  <1>1. CASE Plan \/ PlanFails \/ PutFailure \/ ProducerEnds
    <2>1. UNCHANGED reserved /\ Loading = <<>> /\ Loading' = <<>>
      BY <1>1 DEF Plan, PlanFails, PutFailure, ProducerEnds, Loading
    <2>2. Queued' = Queued
      BY <1>1 DEF Plan, PlanFails, PutFailure, ProducerEnds, Queued, Failure
    <2> QED BY <1>0, <2>1, <2>2 DEF Exact
  <1>2. CASE Reserve
    <2>1. Queued' = Queued /\ Loading = <<>>
      BY <1>2 DEF Reserve, Queued, Loading
    <2>2. CASE UNCHANGED reserved /\ producer' = "ending"
      <3>1. Loading' = <<>>  BY <2>2 DEF Loading
      <3> QED BY <1>0, <2>1, <2>2, <3>1 DEF Exact
    <2>3. CASE reserved' = reserved + ByteSum(window) /\ Fits /\ producer' = "load"
               /\ UNCHANGED window
      <3>1. Loading' = window  BY <2>3 DEF Loading
      <3>2. reserved' <= MaxBytes  BY <2>3 DEF Fits
      <3> QED BY <1>0, <2>1, <2>3, <3>1, <3>2, SumTypes DEF Exact
    <2> QED BY <1>2, <2>2, <2>3 DEF Reserve
  <1>3. CASE Load
    <2>1. PICK bad : window' = [i \in DOMAIN window |->
                                   [window[i] EXCEPT !.ok = i \notin bad]]
      BY <1>3 DEF Load
    <2>2. RunFrom(window', AfterQueued) /\ RunFrom(window, AfterQueued)
          /\ Len(window') = Len(window)
      BY <2>1, LoadedInPlace DEF Chain
    <2>3. ByteSum(window') = ByteSum(window)
      BY <2>2, SumSame DEF RunFrom
    <2>4. Loading = window /\ Loading' = window' /\ Queued' = Queued
          /\ reserved' = reserved
      BY <1>3 DEF Load, Loading, Queued
    <2> QED BY <1>0, <2>3, <2>4 DEF Exact
  <1>4. CASE Put
    <2>1. /\ Queued = <<>> /\ Loading = window /\ Queued' = window /\ Loading' = <<>>
          /\ reserved' = reserved
      BY <1>4 DEF Put, Queued, Loaded, Loading
    <2> QED BY <1>0, <2>1, SumTypes DEF Exact
  <1>5. CASE PutStopped
    <2>1. /\ Queued' = Queued /\ Loading = window /\ Loading' = <<>>
          /\ reserved' = reserved - ByteSum(window)
      BY <1>5 DEF PutStopped, Queued, Loading
    <2> QED BY <1>0, <2>1, SumTypes DEF Exact
  <1> QED BY <1>1, <1>2, <1>3, <1>4, <1>5 DEF Produce

LEMMA SumOne ==
    ASSUME Estimates, NEW x \in Items
    PROVE  ByteSum(<<x>>) = Bytes(x.id) /\ Bytes(x.id) \in Nat
  <1>1. <<x>> \in Seq(Items) /\ <<x>> # <<>> /\ Head(<<x>>) = x /\ Tail(<<x>>) = <<>>
    OBVIOUS
  <1>2. ByteSum(<<x>>) = Bytes(x.id) + ByteSum(<<>>)
    BY <1>1, SumFirst
  <1>3. Bytes(x.id) \in Nat
    BY DEF Items, Estimates
  <1> QED BY <1>2, <1>3, SumEmpty

LEMMA TrainExact ==
    ASSUME Estimates, Chain, Shape, Exact, Train
    PROVE  Exact'
  <1>0. ByteSum(<<>>) = 0
    BY SumEmpty
  <1>1. CASE FetchActive \/ FetchWindow
    <2>0. inFlight = <<>>
      BY <1>1 DEF Shape, FetchActive, FetchWindow, Broken
    <2>1. PICK items \in Seq(Items) :
              /\ Take(items) /\ items # <<>>
              /\ ByteSum(items) + ByteSum(Queued')
                     = ByteSum(active) + ByteSum(Queued)
              /\ ByteSum(Queued') \in Nat
      <3>1. CASE FetchActive
        <4>1. Queued' = Queued /\ Take(active) /\ active # <<>>
          BY <3>1 DEF FetchActive, Queued
        <4> QED BY <4>1, ChainTypes, SumTypes
      <3>2. CASE FetchWindow
        <4>1. Queued' = <<>> /\ active = <<>> /\ Take(Queued) /\ Queued # <<>>
          BY <3>2 DEF FetchWindow, Queued, Shape
        <4> QED BY <1>0, <4>1, ChainTypes, SumTypes
      <3> QED BY <1>1, <3>1, <3>2
    <2>2. UNCHANGED <<producer, window>> /\ active' = Tail(items)
      BY <2>1 DEF Take
    <2>3. Loading' = Loading
      BY <2>2 DEF Loading
    <2>4. /\ ByteSum(items) = Bytes(Head(items).id) + ByteSum(active')
          /\ ByteSum(<<Head(items)>>) = Bytes(Head(items).id)
          /\ Bytes(Head(items).id) \in Nat /\ ByteSum(active') \in Nat
      <3>1. Head(items) \in Items /\ Tail(items) \in Seq(Items)
        BY <2>1, HeadTailProperties
      <3> QED BY <2>1, <2>2, <3>1, SumFirst, SumOne, SumNat
    <2>5. CASE inFlight' = <<Head(items)>> /\ UNCHANGED reserved
      BY <1>0, <2>0, <2>1, <2>3, <2>4, <2>5, SumTypes DEF Exact
    <2>6. CASE inFlight' = <<>> /\ reserved' = reserved - Bytes(Head(items).id)
      <3> DEFINE b == Bytes(Head(items).id)
                 rest == ByteSum(active') + ByteSum(Queued') + ByteSum(Loading)
      <3>1. b \in Nat /\ rest \in Nat
        BY SMTT(30), <2>1, <2>4, SumTypes
      <3>2. reserved = b + rest /\ reserved <= MaxBytes
        <4> DEFINE x == ByteSum(active)
                   y == ByteSum(Queued)
                   z == ByteSum(Loading)
                   x1 == ByteSum(active')
                   y1 == ByteSum(Queued')
        <4>1. /\ x \in Nat /\ y \in Nat /\ z \in Nat /\ b \in Nat
              /\ x1 \in Nat /\ y1 \in Nat
          BY <2>1, <2>4, SumTypes
        <4>2. (b + x1) + y1 = x + y
          BY <2>1, <2>4
        <4>3. reserved = 0 + x + y + z /\ reserved <= MaxBytes
          BY <1>0, <2>0 DEF Exact
        <4>4. rest = x1 + y1 + z
          OBVIOUS
        <4> HIDE DEF b, x, y, z, x1, y1, rest
        <4> QED BY <4>1, <4>2, <4>3, <4>4
      <3>3. reserved' = rest /\ rest <= MaxBytes
        <4> HIDE DEF b, rest
        <4>1. reserved' = reserved - b  BY <2>6 DEF b
        <4> QED BY <3>1, <3>2, <4>1, ConfigAssumption
      <3>4. ByteSum(inFlight') = 0 /\ ByteSum(Loading') = ByteSum(Loading)
        BY <1>0, <2>3, <2>6
      <3>5. rest = 0 + ByteSum(active') + ByteSum(Queued') + ByteSum(Loading)
        BY <2>1, <2>4, SumTypes
      <3> QED BY <3>3, <3>4, <3>5 DEF Exact
    <2> QED BY <2>1, <2>5, <2>6 DEF Take, SkipBatch, Consumed, Raise
  <1>2. CASE TrainStep \/ TrainStepFails
    <2>1. UNCHANGED <<queue, producer, window, active>>
      BY <1>2 DEF TrainStep, TrainStepFails
    <2>2. Loading' = Loading /\ Queued' = Queued
      BY <2>1 DEF Loading, Queued
    <2>3. inFlight \in Seq(Items) /\ inFlight # <<>> /\ Len(inFlight) <= 1
      BY <1>2, ChainTypes DEF TrainStep, TrainStepFails, Shape
    <2>4. /\ ByteSum(inFlight) = Bytes(inFlight[1].id)
          /\ ByteSum(<<inFlight[1]>>) = Bytes(inFlight[1].id)
          /\ Bytes(inFlight[1].id) \in Nat
      <3>1. /\ Head(inFlight) = inFlight[1] /\ inFlight[1] \in Items
            /\ Tail(inFlight) \in Seq(Items) /\ Len(Tail(inFlight)) = Len(inFlight) - 1
        BY <2>3, HeadTailProperties
      <3>2. Tail(inFlight) = <<>>
        <4>1. Len(inFlight) \in Nat  BY <2>3
        <4>2. Len(Tail(inFlight)) \notin Nat \ {0}  BY <2>3, <3>1, <4>1
        <4> QED BY <3>1, <4>2, EmptySeq
      <3>3. Bytes(inFlight[1].id) \in Nat /\ ByteSum(<<inFlight[1]>>) = Bytes(inFlight[1].id)
        BY <3>1, SumOne
      <3>4. ByteSum(inFlight) = Bytes(inFlight[1].id) + 0
        BY <1>0, <2>3, <3>1, <3>2, SumFirst
      <3> QED BY <3>3, <3>4
    <2>5. CASE inFlight' = <<>> /\ reserved' = reserved - Bytes(inFlight[1].id)
      BY <1>0, <2>1, <2>2, <2>4, <2>5, SumTypes DEF Exact
    <2>6. CASE inFlight' = <<inFlight[1]>> /\ UNCHANGED reserved
      BY <2>1, <2>2, <2>4, <2>6 DEF Exact
    <2> QED BY <1>2, <2>5, <2>6 DEF TrainStep, TrainStepFails, SkipBatch, Consumed, Raise
  <1>3. CASE RestartPipeline
    <2>1. inFlight' = <<>>
      BY <1>3 DEF RestartPipeline, Shape, Broken
    <2>2. active' = <<>> /\ Queued' = <<>> /\ Loading' = <<>> /\ reserved' = 0
      BY <1>3 DEF RestartPipeline, Launch, Queued, Loading
    <2> QED BY <1>0, <2>1, <2>2, ConfigAssumption DEF Exact
  <1>4. CASE FetchFailure
    <2>1. Queued = <<>> /\ Queued' = <<>>
      BY <1>4 DEF FetchFailure, Queued, Shape
    <2>2. UNCHANGED <<reserved, producer, window, active, inFlight>>
      BY <1>4 DEF FetchFailure, PrefetchError
    <2> QED BY <2>1, <2>2 DEF Exact, Loading
  <1>5. CASE \/ Top \/ FetchTimesOut \/ StillAlive \/ ProducerGone \/ JoinTimesOut
             \/ Nonfinite \/ Update \/ Validate \/ Save \/ SaveFails \/ Prune
             \/ Close \/ Exit
    <2>1. UNCHANGED <<reserved, queue, producer, window, active, inFlight>>
      BY <1>5 DEF Top, FetchTimesOut, StillAlive, ProducerGone, PrefetchError,
         JoinTimesOut, Nonfinite, Update, Validate, Save, SaveFails, Prune, Close,
         Exit, pipeline
    <2> QED BY <2>1 DEF Exact, Loading, Queued
  <1> QED BY <1>1, <1>2, <1>3, <1>4, <1>5 DEF Train

LEMMA ExactNext ==
    ASSUME Estimates, IInv, Exact, [Next]_vars
    PROVE  Exact'
  <1>1. CASE Produce \/ Train
    BY <1>1, ProduceExact, TrainExact DEF IInv
  <1>2. CASE Restart
    <2>1. inFlight' = <<>> /\ active' = <<>> /\ Queued' = <<>> /\ Loading' = <<>>
          /\ reserved' = 0
      BY <1>2 DEF Restart, Launch, Queued, Loading
    <2> QED BY <2>1, SumEmpty, ConfigAssumption DEF Exact
  <1>3. CASE TimePasses \/ Kill \/ UNCHANGED vars
    <2>1. UNCHANGED <<reserved, queue, producer, window, active, inFlight>>
      BY <1>3 DEF TimePasses, Kill, vars, pipeline
    <2> QED BY <2>1 DEF Exact, Loading, Queued
  <1> QED BY <1>1, <1>2, <1>3 DEF Next

-----------------------------------------------------------------------------
(* The theorems.                                                           *)

LEMMA Invariance == Spec => []IInv
  <1>1. Init => IInv
    BY IInvInit
  <1>2. IInv /\ [Next]_vars => IInv'
    BY IInvNext
  <1> QED BY <1>1, <1>2, PTL DEF Spec

(* Every variable of the pipeline, the loop and the disk keeps its type,   *)
(* through restarts too.                                                   *)
THEOREM Types == Spec => []TypeOK
  <1>1. IInv => TypeOK
    BY TypesFollow DEF IInv
  <1> QED BY <1>1, Invariance, PTL

(* The prefetching thread and the trainer keep the batches in the order of *)
(* planning, whatever fails on either side: load_state_dict restarts from  *)
(* the state of the last consumed batch.                                   *)
THEOREM Order == Spec => []PipelineIsInOrder
  <1>1. IInv => PipelineIsInOrder
    BY OrderFollows DEF IInv
  <1> QED BY <1>1, Invariance, PTL

(* Every optimizer step takes accumulation_steps batches, also when a      *)
(* batch in the middle fails (skip_update) or the process is resumed.      *)
THEOREM WholeUpdates == Spec => []UpdatesAreWhole
  <1>1. IInv => UpdatesAreWhole
    BY DEF IInv, Learning
  <1> QED BY <1>1, Invariance, PTL

(* The two threads, their failures and the checkpoints implement one       *)
(* stream of batches with saved positions.                                 *)
THEOREM Refinement == Spec => StreamSpec
  <1>1. Init => Stream!Init
    BY StreamInit
  <1>2. IInv /\ [Next]_vars => [Stream!Next]_(Stream!vars)
    BY StreamNext
  <1> QED BY <1>1, <1>2, Invariance, PTL DEF Spec, StreamSpec, Stream!Spec

(* No batch is learnt from twice, in memory or in any checkpoint.          *)
THEOREM Once == Spec => []LearntOnce
  <1>1. Init => Stream!LearntOnce
    <2>1. DOMAIN <<>> = {}
      OBVIOUS
    <2> QED BY <2>1 DEF Init, FreshPlanner, Stream!LearntOnce, Stream!Sound
  <1>2. IInv /\ Stream!LearntOnce /\ [Next]_vars => Stream!LearntOnce'
    <2> SUFFICES ASSUME IInv, Stream!LearntOnce, [Next]_vars
                 PROVE  Stream!LearntOnce'
      OBVIOUS
    <2>1. committed.given \in Nat /\ model \in Seq(SUBSET (Nat \ {0}))
          /\ grads \in SUBSET (Nat \ {0})
      BY ChainTypes, TypesFollow DEF IInv, TypeOK
    <2> QED BY <2>1, StreamNext, OnceNext
  <1>3. Spec => []Stream!LearntOnce
    BY <1>1, <1>2, Invariance, PTL DEF Spec
  <1> QED BY <1>3, PTL DEF LearntOnce

(* The latest checkpoint on disk is never replaced by an older one: a save *)
(* that fails, pruning (CheckpointManager.save) and a restart keep it.     *)
THEOREM LatestStays == Spec => LatestStaysOnDisk
  <1>1. IInv /\ [Next]_vars
            => [\A c \in disk : \E d \in disk' : d.step >= c.step]_disk
    BY LatestNext
  <1> QED BY <1>1, Invariance, PTL DEF Spec, LatestStaysOnDisk

(* The counter of reserved bytes is that of the batches loaded or being    *)
(* loaded and not consumed, and never above the limit: _reserve_bytes and  *)
(* _release_bytes match on every way through the pipeline.                 *)
THEOREM ExactBytes ==
    ASSUME \A b \in Nat : Bytes(b) \in Nat
    PROVE  Spec => []BytesAreExact
  <1>0. Estimates
    BY DEF Estimates
  <1>1. Init => Exact
    <2> SUFFICES ASSUME Init PROVE Exact
      OBVIOUS
    <2>1. inFlight = <<>> /\ active = <<>> /\ Queued = <<>> /\ Loading = <<>>
          /\ reserved = 0
      BY DEF Init, Queued, Loading
    <2> QED BY <1>0, <2>1, SumEmpty, ConfigAssumption DEF Exact
  <1>2. IInv /\ Exact /\ [Next]_vars => Exact'
    BY <1>0, ExactNext
  <1>3. IInv /\ Exact => BytesAreExact
    BY <1>0, ExactFollows DEF IInv
  <1> QED BY <1>1, <1>2, <1>3, Invariance, PTL DEF Spec
=============================================================================
