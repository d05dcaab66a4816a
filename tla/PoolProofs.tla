----------------------------- MODULE PoolProofs -----------------------------
(***************************************************************************)
(* Proofs about ResourcePool: for any workers, resources, limits and       *)
(* policies, the ledger is exactly what is leased, no wakeup is lost, and  *)
(* workers wait only for workers they share something with.                *)
(***************************************************************************)
EXTENDS ResourcePool, FiniteSetTheorems, TLAPS

-----------------------------------------------------------------------------
(* Units: adding a worker to the holders adds exactly what it requires.    *)

LEMMA UnitsFinite ==
    ASSUME NEW H \in SUBSET Workers, NEW k \in Keys
    PROVE  IsFiniteSet(Units(H, k))
  <1> DEFINE Of(w) == {w} \X (1..Requires[w][k])
             P == {Of(w) : w \in H}
             f == [w \in H |-> Of(w)]
  <1>1. f \in Surjection(H, P)  BY DEF Surjection
  <1>2. IsFiniteSet(H)  BY FS_Subset, WorkersAssumption
  <1>3. IsFiniteSet(P)
    <2> HIDE DEF f, P
    <2> QED BY <1>1, <1>2, FS_Surjection
  <1>4. \A w \in H : IsFiniteSet(Of(w))
    <2> TAKE w \in H
    <2>1. IsFiniteSet({w})  BY FS_Singleton
    <2>2. 1 \in Int /\ Requires[w][k] \in Int  BY PolicyAssumption
    <2>3. IsFiniteSet(1..Requires[w][k])  BY <2>2, FS_Interval
    <2> QED BY <2>1, <2>3, FS_Product
  <1>5. \A T \in P : IsFiniteSet(T)  BY <1>4
  <1>6. Units(H, k) = UNION P  BY DEF Units
  <1> HIDE DEF P
  <1> QED BY <1>3, <1>5, <1>6, FS_UNION

LEMMA UnitsAdd ==
    ASSUME NEW H \in SUBSET Workers, NEW k \in Keys,
           NEW w \in Workers, w \notin H
    PROVE  /\ Cardinality(Units(H, k)) \in Nat
           /\ Cardinality(Units(H \cup {w}, k)) = Cardinality(Units(H, k)) + Requires[w][k]
  <1> DEFINE B == {w} \X (1..Requires[w][k])
  <1>1. Units(H \cup {w}, k) = Units(H, k) \cup B  BY DEF Units
  <1>2. Units(H, k) \cap B = {}  BY DEF Units
  <1>3. Requires[w][k] \in Nat  BY PolicyAssumption
  <1>4. IsFiniteSet(B) /\ Cardinality(B) = Requires[w][k]
    <2>1. IsFiniteSet({w}) /\ Cardinality({w}) = 1  BY FS_Singleton
    <2>2. IsFiniteSet(1..Requires[w][k]) /\ Cardinality(1..Requires[w][k]) = Requires[w][k]
      <3>1. 1 \in Int /\ Requires[w][k] \in Int  BY <1>3
      <3>2. /\ IsFiniteSet(1..Requires[w][k])
            /\ Cardinality(1..Requires[w][k])
                 = IF 1 > Requires[w][k] THEN 0 ELSE Requires[w][k] - 1 + 1
        BY <3>1, FS_Interval
      <3> QED BY <3>2, <1>3
    <2>3. /\ IsFiniteSet({w} \X (1..Requires[w][k]))
          /\ Cardinality({w} \X (1..Requires[w][k])) = 1 * Requires[w][k]
      BY ZenonT(30), <2>1, <2>2, FS_Product
    <2> QED BY <2>3, <1>3
  <1>5. IsFiniteSet(Units(H, k))  BY UnitsFinite
  <1>6. Cardinality(Units(H, k)) \in Nat  BY <1>5, FS_CardinalityType
  <1> HIDE DEF B
  <1>7. Cardinality(Units(H, k) \cup B)
          = Cardinality(Units(H, k)) + Cardinality(B) - Cardinality(Units(H, k) \cap B)
    BY <1>4, <1>5, FS_Union
  <1>8. Cardinality(Units(H, k) \cap B) = 0  BY <1>2, FS_EmptySet
  <1>9. Cardinality(Units(H, k) \cup B) = Cardinality(Units(H, k)) + Requires[w][k]
    BY <1>3, <1>4, <1>6, <1>7, <1>8
  <1> QED BY <1>1, <1>6, <1>9

LEMMA UnitsRemove ==
    ASSUME NEW H \in SUBSET Workers, NEW k \in Keys, NEW w \in H
    PROVE  /\ Cardinality(Units(H \ {w}, k)) \in Nat
           /\ Cardinality(Units(H, k)) = Cardinality(Units(H \ {w}, k)) + Requires[w][k]
  <1>1. H = (H \ {w}) \cup {w} /\ w \notin H \ {w} /\ H \ {w} \in SUBSET Workers
        /\ w \in Workers
    OBVIOUS
  <1> QED BY <1>1, UnitsAdd

(* Where somebody's units are counted, somebody requires them.             *)
LEMMA UnitsOfSomebody ==
    ASSUME NEW H \in SUBSET Workers, NEW k \in Keys
    PROVE  /\ H = {} => Cardinality(Units(H, k)) = 0
           /\ Cardinality(Units(H, k)) # 0 => \E v \in H : Requires[v][k] > 0
  <1>1. H = {} => Units(H, k) = {}  BY DEF Units
  <1>2. Cardinality({}) = 0  BY FS_EmptySet
  <1>3. ASSUME Cardinality(Units(H, k)) # 0
        PROVE  \E v \in H : Requires[v][k] > 0
    <2>1. PICK x : x \in Units(H, k)  BY <1>2, <1>3
    <2>2. PICK v \in H : x \in {v} \X (1..Requires[v][k])  BY <2>1 DEF Units
    <2>3. PICK i \in 1..Requires[v][k] : TRUE  BY <2>2
    <2>4. Requires[v][k] \in Nat  BY PolicyAssumption
    <2>5. Requires[v][k] > 0  BY <2>3, <2>4
    <2> QED BY <2>5
  <1> QED BY <1>1, <1>2, <1>3

-----------------------------------------------------------------------------
(* The ledger through a grant and a return.                                *)

(* Without leases everything is free.                                      *)
LEMMA AllFree ==
    ASSUME TypeOK, LedgerIsExact, Holders = {}, NEW w \in Workers
    PROVE  CanAcquire(w) <=> Feasible(w)
  <1>1. \A k \in Keys : used[k] = 0
    <2> TAKE k \in Keys
    <2>1. {} \in SUBSET Workers  OBVIOUS
    <2>2. Cardinality(Units({}, k)) = 0  BY <2>1, UnitsOfSomebody
    <2> QED BY <2>2 DEF LedgerIsExact
  <1>2. exclusiveInUse = {}  BY DEF LedgerIsExact
  <1>3. \A k \in Keys : Requires[w][k] \in Nat /\ Limits[k] \in Nat
    BY PolicyAssumption
  <1> QED BY <1>1, <1>2, <1>3 DEF CanAcquire, Feasible

LEMMA OwnKeyType ==
    ASSUME NEW w \in Workers
    PROVE  OwnKey(w) \subseteq Keys /\ OwnKey(w) \subseteq Groups(w)
  BY PolicyAssumption DEF OwnKey, Groups

LEMMA GrantExact ==
    ASSUME TypeOK, LedgerIsExact,
           NEW w \in Workers, phase[w] # "holding", CanAcquire(w), Grant(w)
    PROVE  /\ used' \in [Keys -> Nat] /\ exclusiveInUse' \subseteq Keys
           /\ LedgerIsExact'
           /\ Holders' = Holders \cup {w}
  <1>1. Holders' = Holders \cup {w} /\ w \notin Holders /\ Holders \in SUBSET Workers
    BY DEF TypeOK, Grant, Holders
  <1>2. \A k \in Keys : Requires[w][k] \in Nat /\ used[k] \in Nat /\ Limits[k] \in Nat
    BY PolicyAssumption DEF TypeOK
  <1>3. \A k \in Keys : used'[k] = used[k] + Requires[w][k]  BY DEF Grant
  <1>4. used' \in [Keys -> Nat]  BY <1>2 DEF Grant
  <1>5. ASSUME NEW k \in Keys
        PROVE  used'[k] = Cardinality(Units(Holders', k)) /\ used'[k] <= Limits[k]
    <2>1. used[k] = Cardinality(Units(Holders, k)) /\ used[k] <= Limits[k]
      BY DEF LedgerIsExact
    <2>2. Cardinality(Units(Holders \cup {w}, k))
            = Cardinality(Units(Holders, k)) + Requires[w][k]
      BY <1>1, UnitsAdd
    <2>3. used'[k] <= Limits[k]
      BY <1>2, <1>3, <2>1 DEF CanAcquire
    <2> QED BY <1>1, <1>3, <2>1, <2>2, <2>3
  <1>6. exclusiveInUse' = UNION {OwnKey(v) : v \in Holders'}
    BY <1>1 DEF Grant, LedgerIsExact
  <1>7. \A u, v \in Holders' : u # v => OwnKey(u) \cap OwnKey(v) = {}
    <2>1. \A v \in Holders : OwnKey(v) \cap OwnKey(w) = {}
      BY DEF LedgerIsExact, CanAcquire, OwnKey
    <2> QED BY <1>1, <2>1 DEF LedgerIsExact
  <1>8. exclusiveInUse' \subseteq Keys  BY OwnKeyType DEF TypeOK, Grant
  <1> QED BY <1>1, <1>4, <1>5, <1>6, <1>7, <1>8 DEF LedgerIsExact

LEMMA ReturnExact ==
    ASSUME TypeOK, LedgerIsExact, NEW next \in {"away", "gone"},
           NEW w \in Workers, phase[w] = "holding", Return(w, next)
    PROVE  /\ used' \in [Keys -> Nat] /\ exclusiveInUse' \subseteq Keys
           /\ LedgerIsExact'
           /\ \A v \in Workers : phase'[v] # "asleep"
  <1>1. Holders' = Holders \ {w} /\ w \in Holders /\ Holders \in SUBSET Workers
    BY DEF TypeOK, Return, Holders
  <1>2. \A k \in Keys : Requires[w][k] \in Nat /\ used[k] \in Nat /\ Limits[k] \in Nat
    BY PolicyAssumption DEF TypeOK
  <1>3. \A k \in Keys : used'[k] = used[k] - Requires[w][k]  BY DEF Return
  <1>4. ASSUME NEW k \in Keys
        PROVE  /\ used'[k] = Cardinality(Units(Holders', k)) /\ used'[k] <= Limits[k]
               /\ used'[k] \in Nat
    <2>1. used[k] = Cardinality(Units(Holders, k)) /\ used[k] <= Limits[k]
      BY DEF LedgerIsExact
    <2>2. /\ Cardinality(Units(Holders \ {w}, k)) \in Nat
          /\ Cardinality(Units(Holders, k))
               = Cardinality(Units(Holders \ {w}, k)) + Requires[w][k]
      BY <1>1, UnitsRemove
    <2>3. used'[k] = Cardinality(Units(Holders \ {w}, k))
      BY <1>2, <1>3, <2>1, <2>2
    <2>4. used'[k] <= Limits[k]
      BY <1>2, <1>3, <2>1
    <2> QED BY <1>1, <2>2, <2>3, <2>4
  <1>5. used' \in [Keys -> Nat]
    <2>1. used' = [k \in Keys |-> used[k] - Requires[w][k]]  BY DEF Return
    <2> QED BY <1>3, <1>4, <2>1
  <1>6. exclusiveInUse' = UNION {OwnKey(v) : v \in Holders'}
    <2>1. \A v \in Holders : v # w => OwnKey(v) \cap OwnKey(w) = {}
      BY <1>1 DEF LedgerIsExact
    <2>2. exclusiveInUse = UNION {OwnKey(v) : v \in Holders}  BY DEF LedgerIsExact
    <2>3. exclusiveInUse' = exclusiveInUse \ OwnKey(w)  BY DEF Return
    <2> QED BY <1>1, <2>1, <2>2, <2>3
  <1>7. \A u, v \in Holders' : u # v => OwnKey(u) \cap OwnKey(v) = {}
    BY <1>1 DEF LedgerIsExact
  <1>8. exclusiveInUse' \subseteq Keys  BY DEF TypeOK, Return
  <1>9. \A v \in Workers : phase'[v] # "asleep"  BY DEF Return
  <1> QED BY <1>1, <1>4, <1>5, <1>6, <1>7, <1>8, <1>9 DEF LedgerIsExact

-----------------------------------------------------------------------------
(* No lost wakeup.                                                         *)

(* "goes before" is a strict order on waiters with their tickets.          *)
LEMMA BeforeIsStrict ==
    ASSUME TypeOK, NEW x \in Workers, NEW y \in Workers, NEW z \in Workers, NEW t \in Nat,
           Before(x, y, ticket[y]), Before(y, z, t)
    PROVE  Before(x, z, t) /\ (x = z => t # ticket[z])
  <1>1. \A v \in Workers : Priority[v] \in Nat /\ ticket[v] \in Nat
    BY PolicyAssumption DEF TypeOK
  <1> QED BY <1>1 DEF Before

(* Whoever goes to sleep while nobody holds a lease gives way to a waiter, *)
(* and the first of those it and the others gave way to is awake.          *)
LEMMA SleepIsNoticed ==
    ASSUME TypeOK, LedgerIsExact, SleepersAreNotified,
           NEW w \in Workers, NEW t \in Nat,
           phase[w] = "away" \/ (phase[w] = "woken" /\ t = ticket[w]),
           ~Admissible(w, t), Sleep(w, t), stopping' = stopping
    PROVE  SleepersAreNotified'
  <1> SUFFICES ASSUME ~stopping, Holders' = {},
                      NEW x \in Workers, phase'[x] = "asleep", Feasible(x)
               PROVE  \E v \in Workers : /\ phase'[v] = "woken" /\ Feasible(v)
                                         /\ Before(v, x, ticket[x])'
    BY DEF SleepersAreNotified
  <1>1. /\ phase' = [phase EXCEPT ![w] = "asleep"]
        /\ ticket' = [ticket EXCEPT ![w] = t]
        /\ phase \in [Workers -> {"away", "asleep", "woken", "holding", "gone"}]
        /\ ticket \in [Workers -> Nat]
    BY DEF Sleep, TypeOK
  <1>2. Holders = {}  BY <1>1 DEF Holders
  <1>3. \A y \in Workers : phase[y] = "asleep" /\ Feasible(y) =>
            \E v \in Workers :
                phase[v] = "woken" /\ Feasible(v) /\ Before(v, y, ticket[y])
    BY <1>2 DEF SleepersAreNotified
  <1>4. \A u, v \in Workers : u # w /\ v # w =>
            (Before(u, v, ticket[v])' <=> Before(u, v, ticket[v]))
    BY <1>1 DEF Before
  <1>5. \A u \in Workers : u # w => (Before(u, w, ticket[w])' <=> Before(u, w, t))
    BY <1>1 DEF Before
  <1>6. ASSUME Feasible(w)
        PROVE  \E v \in Workers \ {w} : phase[v] = "woken" /\ Feasible(v) /\ Before(v, w, t)
    <2>1. CanAcquire(w)  BY <1>2, <1>6, AllFree
    <2>2. PICK v \in Waiters \ {w} : Before(v, w, t) /\ CanAcquire(v)
      BY <2>1 DEF Admissible, HasPriorWaiter
    <2>3. v \in Workers /\ v # w /\ phase[v] \in {"asleep", "woken"}  BY DEF Waiters
    <2>4. Feasible(v)  BY <1>2, <2>2, <2>3, AllFree
    <2>5. CASE phase[v] = "woken"  BY <2>2, <2>3, <2>4, <2>5
    <2>6. CASE phase[v] = "asleep"
      <3>1. PICK y \in Workers :
                phase[y] = "woken" /\ Feasible(y) /\ Before(y, v, ticket[v])
        BY <1>3, <2>3, <2>4, <2>6
      <3>2. Before(y, w, t) /\ (y = w => t # ticket[w])
        BY <2>2, <2>3, <3>1, BeforeIsStrict
      <3>3. y # w  BY <3>1, <3>2
      <3> QED BY <3>1, <3>2, <3>3
    <2> QED BY <2>3, <2>5, <2>6
  <1>7. CASE x = w
    <2>1. PICK v \in Workers \ {w} : phase[v] = "woken" /\ Feasible(v) /\ Before(v, w, t)
      BY <1>6, <1>7
    <2>2. phase'[v] = "woken"  BY <1>1, <2>1
    <2> QED BY <1>5, <1>7, <2>1, <2>2
  <1>8. CASE x # w
    <2>1. phase[x] = "asleep" /\ ticket'[x] = ticket[x]  BY <1>1, <1>8
    <2>2. PICK y \in Workers :
              phase[y] = "woken" /\ Feasible(y) /\ Before(y, x, ticket[x])
      BY <1>3, <2>1
    <2>3. CASE y # w
      <3>1. phase'[y] = "woken"  BY <1>1, <2>2, <2>3
      <3> QED BY <1>4, <1>8, <2>2, <2>3, <3>1
    <2>4. CASE y = w
      <3>1. PICK v \in Workers \ {w} :
                phase[v] = "woken" /\ Feasible(v) /\ Before(v, w, t)
        BY <1>6, <2>2, <2>4
      <3>2. t = ticket[w]  BY <2>2, <2>4
      <3>3. ticket[x] \in Nat  BY <1>1
      <3>4. Before(v, x, ticket[x])
        BY <2>2, <2>4, <3>1, <3>2, <3>3, BeforeIsStrict
      <3>5. phase'[v] = "woken"  BY <1>1, <3>1
      <3> QED BY <1>4, <1>8, <3>1, <3>4, <3>5
    <2> QED BY <2>3, <2>4
  <1> QED BY <1>7, <1>8

-----------------------------------------------------------------------------
(* The inductive invariant.                                                *)

(* Who waits for a lease or holds one still has the batch it is for.       *)
BusyHaveBatches ==
    \A w \in Workers : phase[w] \in {"asleep", "woken", "holding"} => left[w] > 0

PoolInv == TypeOK /\ BusyHaveBatches /\ LedgerIsExact /\ SleepersAreNotified

LEMMA InitPool == Init => PoolInv
  <1> SUFFICES ASSUME Init PROVE PoolInv  OBVIOUS
  <1>1. TypeOK
    <2>1. MaxBatches \in 0..MaxBatches /\ 0 \in Nat  BY BatchesAssumption
    <2> QED BY <2>1 DEF Init, TypeOK
  <1>2. BusyHaveBatches  BY DEF Init, BusyHaveBatches
  <1>3. Holders = {}  BY DEF Init, Holders
  <1>4. \A k \in Keys : Cardinality(Units(Holders, k)) = 0
    BY <1>3, UnitsOfSomebody
  <1>5. \A k \in Keys : used[k] = 0 /\ 0 <= Limits[k]
    BY PolicyAssumption DEF Init
  <1>6. LedgerIsExact  BY <1>3, <1>4, <1>5 DEF Init, LedgerIsExact
  <1>7. SleepersAreNotified  BY DEF Init, SleepersAreNotified
  <1> QED BY <1>1, <1>2, <1>6, <1>7 DEF PoolInv

LEMMA NextPool == PoolInv /\ [Next]_vars => PoolInv'
  <1> SUFFICES ASSUME PoolInv, [Next]_vars PROVE PoolInv'  OBVIOUS
  <1> USE DEF PoolInv
  (* A worker with a batch evaluates its predicate: both outcomes.         *)
  <1>1. ASSUME NEW w \in Workers, NEW t \in Nat, left[w] > 0, left' = left,
               phase[w] = "away" \/ (phase[w] = "woken" /\ t = ticket[w]),
               \/ Admissible(w, t) /\ Grant(w)
               \/ ~Admissible(w, t) /\ Sleep(w, t),
               nextTicket' \in Nat, stopping' = stopping
        PROVE  PoolInv'
    <2>1. CASE Admissible(w, t) /\ Grant(w)
      <3>1. /\ used' \in [Keys -> Nat] /\ exclusiveInUse' \subseteq Keys
            /\ LedgerIsExact'
            /\ Holders' = Holders \cup {w}
        <4>1. phase[w] # "holding" /\ CanAcquire(w) /\ Grant(w)
          BY <1>1, <2>1 DEF Admissible
        <4> QED BY <4>1, GrantExact
      <3>2. SleepersAreNotified'  BY <3>1 DEF SleepersAreNotified
      <3>3. TypeOK'  BY <1>1, <2>1, <3>1 DEF TypeOK, Grant
      <3>4. BusyHaveBatches'  BY <1>1, <2>1 DEF TypeOK, BusyHaveBatches, Grant
      <3> QED BY <3>1, <3>2, <3>3, <3>4
    <2>2. CASE ~Admissible(w, t) /\ Sleep(w, t)
      <3>1. SleepersAreNotified'  BY <1>1, <2>2, SleepIsNoticed
      <3>2. TypeOK'  BY <1>1, <2>2 DEF TypeOK, Sleep, ledger
      <3>3. BusyHaveBatches'  BY <1>1, <2>2 DEF TypeOK, BusyHaveBatches, Sleep
      <3>4. Holders' = Holders  BY <1>1, <2>2 DEF TypeOK, Sleep, Holders
      <3>5. LedgerIsExact'  BY <2>2, <3>4 DEF LedgerIsExact, Sleep, ledger
      <3> QED BY <3>1, <3>2, <3>3, <3>5
    <2> QED BY <1>1, <2>1, <2>2
  <1>2. ASSUME NEW w \in Workers, Acquire(w) PROVE PoolInv'
    <2>1. nextTicket \in Nat /\ nextTicket' \in Nat  BY <1>2 DEF TypeOK, Acquire
    <2>2. /\ left[w] > 0 /\ phase[w] = "away"
          /\ left' = left /\ stopping' = stopping
          /\ \/ Admissible(w, nextTicket) /\ Grant(w)
             \/ ~Admissible(w, nextTicket) /\ Sleep(w, nextTicket)
      BY <1>2 DEF Acquire
    <2> QED BY <1>1, <2>1, <2>2
  <1>3. ASSUME NEW w \in Workers, Resume(w) PROVE PoolInv'
    <2>1. /\ nextTicket' \in Nat /\ ticket[w] \in Nat /\ left[w] > 0
      BY <1>3 DEF TypeOK, Resume, BusyHaveBatches
    <2> QED BY <1>1, <1>3, <2>1 DEF Resume
  (* A lease is returned: everyone who slept is awake.                     *)
  <1>4. ASSUME NEW w \in Workers, NEW next \in {"away", "gone"},
               phase[w] = "holding", Return(w, next),
               UNCHANGED <<ticket, nextTicket, stopping>>,
               left' = left \/ left' = [left EXCEPT ![w] = @ - 1]
        PROVE  PoolInv'
    <2>1. /\ used' \in [Keys -> Nat] /\ exclusiveInUse' \subseteq Keys
          /\ LedgerIsExact'
          /\ \A v \in Workers : phase'[v] # "asleep"
      BY <1>4, ReturnExact
    <2>2. left[w] > 0 /\ left[w] \in 0..MaxBatches /\ left \in [Workers -> 0..MaxBatches]
      BY <1>4 DEF TypeOK, BusyHaveBatches
    <2>3. left' \in [Workers -> 0..MaxBatches]
          /\ \A v \in Workers : v # w => left'[v] = left[v]
      BY <1>4, <2>2, BatchesAssumption
    <2>4. phase' \in [Workers -> {"away", "asleep", "woken", "holding", "gone"}]
          /\ phase'[w] = next
          /\ \A v \in Workers : v # w /\ phase'[v] \in {"asleep", "woken", "holding"}
                => phase[v] \in {"asleep", "woken", "holding"}
      BY <1>4 DEF TypeOK, Return
    <2>5. TypeOK'  BY <1>4, <2>1, <2>3, <2>4 DEF TypeOK
    <2>6. BusyHaveBatches'  BY <2>3, <2>4 DEF BusyHaveBatches
    <2>7. SleepersAreNotified'  BY <2>1 DEF SleepersAreNotified
    <2> QED BY <2>1, <2>5, <2>6, <2>7
  <1>5. ASSUME NEW w \in Workers, Finish(w) PROVE PoolInv'
    BY <1>4, <1>5 DEF Finish
  <1>6. ASSUME NEW w \in Workers, Fail(w) PROVE PoolInv'
    BY <1>4, <1>6 DEF Fail
  <1>7. ASSUME NEW w \in Workers, Quit(w) PROVE PoolInv'
    <2>1. CASE phase[w] = "holding" /\ Return(w, "gone") /\ UNCHANGED ticket
      BY <1>4, <1>7, <2>1 DEF Quit
    <2>2. CASE /\ phase[w] \in {"away", "asleep", "woken"}
               /\ phase' = [phase EXCEPT ![w] = "gone"]
               /\ ticket' = [ticket EXCEPT ![w] = 0]
               /\ UNCHANGED ledger
      <3>1. UNCHANGED <<nextTicket, left, stopping>> /\ stopping  BY <1>7 DEF Quit
      <3>2. TypeOK'  BY <2>2, <3>1 DEF TypeOK, ledger
      <3>3. BusyHaveBatches'  BY <2>2, <3>1 DEF TypeOK, BusyHaveBatches
      <3>4. Holders' = Holders  BY <2>2 DEF TypeOK, Holders
      <3>5. LedgerIsExact'  BY <2>2, <3>4 DEF LedgerIsExact, ledger
      <3>6. SleepersAreNotified'  BY <3>1 DEF SleepersAreNotified
      <3> QED BY <3>2, <3>3, <3>5, <3>6
    <2> QED BY <1>7, <2>1, <2>2 DEF Quit
  <1>8. CASE Stop \/ UNCHANGED vars
    <2>1. /\ UNCHANGED <<phase, ticket, nextTicket, used, exclusiveInUse, left>>
          /\ stopping' \in BOOLEAN /\ (~stopping' => ~stopping)
      BY <1>8 DEF Stop, vars, TypeOK
    <2>2. TypeOK'  BY <2>1 DEF TypeOK
    <2>3. BusyHaveBatches'  BY <2>1 DEF BusyHaveBatches
    <2>4. LedgerIsExact'  BY <2>1 DEF LedgerIsExact, Holders
    <2>5. SleepersAreNotified'  BY <2>1 DEF SleepersAreNotified, Holders, Before
    <2> QED BY <2>2, <2>3, <2>4, <2>5
  <1> QED BY <1>2, <1>3, <1>5, <1>6, <1>7, <1>8 DEF Next

(* Types, the ledger and who is awake, together: the invariant is          *)
(* inductive.                                                              *)
THEOREM PoolIsSound == Spec => []PoolInv
  BY InitPool, NextPool, PTL DEF Spec

(* The variables keep their types: no amount falls below zero.             *)
THEOREM TypeCorrect == Spec => []TypeOK
  <1>1. PoolInv => TypeOK  BY DEF PoolInv
  <1> QED BY <1>1, PoolIsSound, PTL

(* The pool counts exactly what is leased, within the limits, and at most  *)
(* one lease of an exclusive group, through failures and cancellations.    *)
THEOREM LedgerStaysExact == Spec => []LedgerIsExact
  <1>1. PoolInv => LedgerIsExact  BY DEF PoolInv
  <1> QED BY <1>1, PoolIsSound, PTL

(* When nobody holds a lease, the first of the waiters that can be served  *)
(* is awake: only release() notifies, and that is enough.                  *)
THEOREM NoLostWakeup == Spec => []SleepersAreNotified
  <1>1. PoolInv => SleepersAreNotified  BY DEF PoolInv
  <1> QED BY <1>1, PoolIsSound, PTL

-----------------------------------------------------------------------------
(* Workers that share nothing.                                             *)

LEMMA RefusedForSharers ==
    ASSUME TypeOK, LedgerIsExact, NEW w \in Workers, NEW t \in Nat,
           phase[w] # "holding", Feasible(w), ~Admissible(w, t)
    PROVE  \E v \in (Waiters \cup Holders) \ {w} : Groups(v) \cap Groups(w) # {}
  <1>1. w \notin Holders /\ Holders \in SUBSET Workers  BY DEF Holders
  <1>2. CASE HasPriorWaiter(w, t)  BY <1>2 DEF HasPriorWaiter
  <1>3. CASE ExclusiveKey[w] \in exclusiveInUse
    <2>1. PICK v \in Holders : ExclusiveKey[w] \in OwnKey(v)
      BY <1>3 DEF LedgerIsExact
    <2>2. ExclusiveKey[w] \in OwnKey(w)  BY <2>1 DEF OwnKey
    <2>3. ExclusiveKey[w] \in Groups(v) \cap Groups(w)
      BY <1>1, <2>1, <2>2, OwnKeyType
    <2> QED BY <1>1, <2>3
  <1>4. ASSUME NEW k \in Keys, Requires[w][k] > 0, ~(used[k] + Requires[w][k] <= Limits[k])
        PROVE  \E v \in (Waiters \cup Holders) \ {w} : Groups(v) \cap Groups(w) # {}
    <2>1. Requires[w][k] \in Nat /\ Limits[k] \in Nat /\ Requires[w][k] <= Limits[k]
      BY PolicyAssumption DEF Feasible
    <2>2. used[k] # 0  BY <1>4, <2>1
    <2>3. Cardinality(Units(Holders, k)) # 0  BY <2>2 DEF LedgerIsExact
    <2>4. PICK v \in Holders : Requires[v][k] > 0
      BY <1>1, <2>3, UnitsOfSomebody
    <2>5. k \in Groups(v) \cap Groups(w)  BY <1>4, <2>4 DEF Groups
    <2> QED BY <1>1, <2>5
  <1> QED BY <1>2, <1>3, <1>4 DEF Admissible, CanAcquire

(* Workers without a common resource or group never delay each other.      *)
THEOREM SeparateWorkersNeverWait == Spec => WaitsOnlyForSharers
  <1> DEFINE Shared ==
        \A w \in Workers :
            phase'[w] = "asleep" /\ phase[w] # "asleep" /\ Feasible(w) =>
                \E v \in (Waiters \cup Holders) \ {w} : Groups(v) \cap Groups(w) # {}
  <1>1. PoolInv /\ [Next]_vars => [Shared]_vars
    <2> SUFFICES ASSUME PoolInv, Next,
                        NEW w \in Workers,
                        phase'[w] = "asleep", phase[w] # "asleep", Feasible(w)
                 PROVE  \E v \in (Waiters \cup Holders) \ {w} : Groups(v) \cap Groups(w) # {}
      OBVIOUS
    <2>1. TypeOK /\ LedgerIsExact  BY DEF PoolInv
    <2>2. ASSUME NEW u \in Workers, NEW t \in Nat, phase[u] # "holding",
                 \/ Admissible(u, t) /\ Grant(u)
                 \/ ~Admissible(u, t) /\ Sleep(u, t)
          PROVE  \E v \in (Waiters \cup Holders) \ {w} : Groups(v) \cap Groups(w) # {}
      <3>1. u = w /\ ~Admissible(w, t)  BY <2>1, <2>2 DEF TypeOK, Grant, Sleep
      <3> QED BY <2>1, <2>2, <3>1, RefusedForSharers
    <2>3. ASSUME NEW u \in Workers, Acquire(u)
          PROVE  \E v \in (Waiters \cup Holders) \ {w} : Groups(v) \cap Groups(w) # {}
      <3>1. nextTicket \in Nat  BY <2>1 DEF TypeOK
      <3> QED BY <2>2, <2>3, <3>1 DEF Acquire
    <2>4. ASSUME NEW u \in Workers, Resume(u)
          PROVE  \E v \in (Waiters \cup Holders) \ {w} : Groups(v) \cap Groups(w) # {}
      <3>1. ticket[u] \in Nat  BY <2>1 DEF TypeOK
      <3> QED BY <2>2, <2>4, <3>1 DEF Resume
    <2>5. ASSUME NEW u \in Workers, Finish(u) \/ Fail(u) \/ Quit(u)  PROVE FALSE
      BY <2>1, <2>5 DEF TypeOK, Finish, Fail, Quit, Return
    <2>6. ~Stop  BY DEF Stop
    <2> QED BY <2>3, <2>4, <2>5, <2>6 DEF Next
  <1>2. WaitsOnlyForSharers <=> [][Shared]_vars  BY DEF WaitsOnlyForSharers
  <1> HIDE DEF Shared
  <1> QED BY <1>1, <1>2, PoolIsSound, PTL DEF Spec

=============================================================================
