---------------------------- MODULE ResourcePool ----------------------------
(***************************************************************************)
(* The resource pool of the engine: workers lease capacities and exclusive *)
(* groups for a batch, smaller (priority, ticket) first, and wait on one   *)
(* asyncio.Condition.                                                      *)
(*                                                                         *)
(* Between two awaits a coroutine runs alone and nobody awaits while it    *)
(* holds the lock of the condition, so acquire(), each evaluation of its   *)
(* predicate and release() are single steps.  notify_all only marks the    *)
(* sleepers: each evaluates the predicate when the loop comes to it, in    *)
(* any order here, and other workers may come first.                       *)
(***************************************************************************)
EXTENDS Naturals, FiniteSets

CONSTANTS
    Workers,        \* one worker per node
    Keys,           \* names of resources and of exclusive groups
    NoKey,          \* no exclusive group
    Limits,         \* Limits[k]: the capacity of k
    Requires,       \* Requires[w][k]: what a batch of w takes of k
    ExclusiveKey,   \* ExclusiveKey[w]: the exclusive group of w, or NoKey
    Priority,       \* Priority[w]: the position of w's node in the order
    MaxBatches      \* batches of a worker (a bound)

ASSUME WorkersAssumption == IsFiniteSet(Workers)
ASSUME KeysAssumption == NoKey \notin Keys
ASSUME PolicyAssumption ==
    /\ Limits \in [Keys -> Nat]
    /\ Requires \in [Workers -> [Keys -> Nat]]
    /\ ExclusiveKey \in [Workers -> Keys \cup {NoKey}]
    /\ Priority \in [Workers -> Nat]
ASSUME BatchesAssumption == MaxBatches \in Nat

VARIABLES
    phase,          \* "away", "asleep", "woken", "holding" or "gone"
    ticket,         \* the ticket of a worker among the waiters, else 0
    nextTicket,
    used,           \* used[k]: the amount of k the pool counts as leased
    exclusiveInUse, \* the exclusive groups somebody holds
    left,           \* left[w]: batches w has still to run
    stopping        \* the workers have been cancelled

ledger == <<used, exclusiveInUse>>
vars == <<phase, ticket, nextTicket, used, exclusiveInUse, left, stopping>>

-----------------------------------------------------------------------------

Waiters == {w \in Workers : phase[w] \in {"asleep", "woken"}}
Holders == {w \in Workers : phase[w] = "holding"}

(* Mutant: exclusive groups are forgotten.                                 *)
CanAcquireShared(w) ==
    \A k \in Keys : Requires[w][k] > 0 => used[k] + Requires[w][k] <= Limits[k]

CanAcquire(w) ==
    /\ ExclusiveKey[w] \notin exclusiveInUse
    /\ \A k \in Keys : Requires[w][k] > 0 => used[k] + Requires[w][k] <= Limits[k]

(* Mutant: no test whether there is an exclusive group.                    *)
OwnKeyUnchecked(w) == {ExclusiveKey[w]}

OwnKey(w) == {ExclusiveKey[w]} \ {NoKey}

Groups(w) == {k \in Keys : Requires[w][k] > 0} \cup OwnKey(w)

(* v goes before a worker w whose ticket is t.                             *)
Before(v, w, t) ==
    \/ Priority[v] < Priority[w]
    \/ Priority[v] = Priority[w] /\ ticket[v] < t

(* Mutants: giving way to any better waiter, or to one without a common    *)
(* resource.                                                               *)
GiveWayAlways(w, t) ==
    \E v \in Waiters \ {w} :
        Groups(v) \cap Groups(w) # {} /\ Before(v, w, t)

GiveWayElsewhere(w, t) ==
    \E v \in Waiters \ {w} : Before(v, w, t) /\ CanAcquire(v)

(* A waiter gives way only to one that could take its lease now.           *)
HasPriorWaiter(w, t) ==
    \E v \in Waiters \ {w} :
        /\ Groups(v) \cap Groups(w) # {}
        /\ Before(v, w, t)
        /\ CanAcquire(v)

Admissible(w, t) == CanAcquire(w) /\ ~HasPriorWaiter(w, t)

Grant(w) ==
    /\ phase' = [phase EXCEPT ![w] = "holding"]
    /\ ticket' = [ticket EXCEPT ![w] = 0]
    /\ used' = [k \in Keys |-> used[k] + Requires[w][k]]
    /\ exclusiveInUse' = exclusiveInUse \cup OwnKey(w)

Sleep(w, t) ==
    /\ phase' = [phase EXCEPT ![w] = "asleep"]
    /\ ticket' = [ticket EXCEPT ![w] = t]
    /\ UNCHANGED ledger

(* Mutant: a release that does not notify.                                 *)
ReturnQuietly(w, next) ==
    /\ phase' = [phase EXCEPT ![w] = next]
    /\ used' = [k \in Keys |-> used[k] - Requires[w][k]]
    /\ exclusiveInUse' = exclusiveInUse \ OwnKey(w)

(* release() and its notify_all.  It raises when used[k] < Requires[w][k], *)
(* which LedgerIsExact excludes.                                           *)
Return(w, next) ==
    /\ phase' = [v \in Workers |->
                    IF v = w THEN next
                    ELSE IF phase[v] = "asleep" THEN "woken" ELSE phase[v]]
    /\ used' = [k \in Keys |-> used[k] - Requires[w][k]]
    /\ exclusiveInUse' = exclusiveInUse \ OwnKey(w)

-----------------------------------------------------------------------------

Init ==
    /\ phase = [w \in Workers |-> "away"]
    /\ ticket = [w \in Workers |-> 0]
    /\ nextTicket = 0
    /\ used = [k \in Keys |-> 0]
    /\ exclusiveInUse = {}
    /\ left = [w \in Workers |-> MaxBatches]
    /\ stopping = FALSE

(* A worker has collected a batch and enters lease().                      *)
Acquire(w) ==
    /\ ~stopping
    /\ phase[w] = "away" /\ left[w] > 0
    /\ nextTicket' = nextTicket + 1
    /\ \/ Admissible(w, nextTicket) /\ Grant(w)
       \/ ~Admissible(w, nextTicket) /\ Sleep(w, nextTicket)
    /\ UNCHANGED <<left, stopping>>

(* A notified waiter evaluates the predicate again.                        *)
Resume(w) ==
    /\ ~stopping
    /\ phase[w] = "woken"
    /\ \/ Admissible(w, ticket[w]) /\ Grant(w)
       \/ ~Admissible(w, ticket[w]) /\ Sleep(w, ticket[w])
    /\ UNCHANGED <<nextTicket, left, stopping>>

(* The batch has been executed.                                            *)
Finish(w) ==
    /\ ~stopping
    /\ phase[w] = "holding"
    /\ Return(w, "away")
    /\ left' = [left EXCEPT ![w] = @ - 1]
    /\ UNCHANGED <<ticket, nextTicket, stopping>>

(* Loading or executing raised: the lease is returned, the worker ends.    *)
Fail(w) ==
    /\ ~stopping
    /\ phase[w] = "holding"
    /\ Return(w, "gone")
    /\ UNCHANGED <<ticket, nextTicket, left, stopping>>

(* _stop_workers: every worker is cancelled before any of them runs again. *)
Stop ==
    /\ ~stopping
    /\ stopping' = TRUE
    /\ UNCHANGED <<phase, ticket, nextTicket, used, exclusiveInUse, left>>

(* The cancellation reaches a worker: it leaves the waiters, or its lease  *)
(* is returned.  Whom this notifies does not matter, all are cancelled.    *)
Quit(w) ==
    /\ stopping
    /\ \/ phase[w] = "holding" /\ Return(w, "gone") /\ UNCHANGED ticket
       \/ /\ phase[w] \in {"away", "asleep", "woken"}
          /\ phase' = [phase EXCEPT ![w] = "gone"]
          /\ ticket' = [ticket EXCEPT ![w] = 0]
          /\ UNCHANGED ledger
    /\ UNCHANGED <<nextTicket, left, stopping>>

Next ==
    \/ \E w \in Workers : Acquire(w) \/ Resume(w) \/ Finish(w) \/ Fail(w) \/ Quit(w)
    \/ Stop

Spec == Init /\ [][Next]_vars

(* A worker that is ready to run runs, and a batch ends.                   *)
FairSpec ==
    /\ Spec
    /\ \A w \in Workers :
        WF_vars(Acquire(w)) /\ WF_vars(Resume(w)) /\ WF_vars(Finish(w) \/ Fail(w))

-----------------------------------------------------------------------------

(* The types of the variables; an exclusive group in use is a real one.    *)
TypeOK ==
    /\ phase \in [Workers -> {"away", "asleep", "woken", "holding", "gone"}]
    /\ ticket \in [Workers -> Nat]
    /\ nextTicket \in Nat
    /\ used \in [Keys -> Nat]
    /\ exclusiveInUse \subseteq Keys
    /\ left \in [Workers -> 0..MaxBatches]
    /\ stopping \in BOOLEAN

(* The units of k that leases of the workers in H stand for, one element   *)
(* per unit.                                                               *)
Units(H, k) == UNION {{w} \X (1..Requires[w][k]) : w \in H}

(* What the pool counts is exactly what is leased, through failures and    *)
(* cancellations too, it stays within the limits, and no two leases share  *)
(* an exclusive group.  In particular release() never finds less than it   *)
(* returns.                                                                *)
LedgerIsExact ==
    /\ \A k \in Keys : used[k] = Cardinality(Units(Holders, k)) /\ used[k] <= Limits[k]
    /\ exclusiveInUse = UNION {OwnKey(w) : w \in Holders}
    /\ \A v, w \in Holders : v # w => OwnKey(v) \cap OwnKey(w) = {}

(* A batch that needs more than there is waits for ever.                   *)
Feasible(w) == \A k \in Keys : Requires[w][k] <= Limits[k]

(* No lost wakeup, although only release() notifies and a waiter that      *)
(* could be served may sleep after giving way: while nobody holds a lease, *)
(* some waiter that can be served and goes before the sleeper is awake.    *)
SleepersAreNotified ==
    ~stopping /\ Holders = {} =>
        \A w \in Workers : phase[w] = "asleep" /\ Feasible(w) =>
            \E v \in Workers :
                phase[v] = "woken" /\ Feasible(v) /\ Before(v, w, ticket[w])

(* A worker goes to sleep only on account of another that holds or wants   *)
(* something it wants: nodes with separate resources never delay each      *)
(* other, whatever their priorities.                                       *)
WaitsOnlyForSharers ==
    [][\A w \in Workers :
        phase'[w] = "asleep" /\ phase[w] # "asleep" /\ Feasible(w) =>
            \E v \in (Waiters \cup Holders) \ {w} : Groups(v) \cap Groups(w) # {}]_vars

(* Every worker gets its turn for every batch: a better one with an        *)
(* unsatisfiable requirement, a failed one or one that gave way and slept  *)
(* cannot leave the others waiting for ever.                               *)
EveryoneIsServed ==
    \A w \in Workers :
        Feasible(w) => <>(left[w] = 0 \/ phase[w] = "gone" \/ stopping)

=============================================================================
