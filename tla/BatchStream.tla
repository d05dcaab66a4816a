---------------------------- MODULE BatchStream -----------------------------
(***************************************************************************)
(* What a training run promises about its data.  The batches form one      *)
(* stream, 1, 2, 3 ...; training takes the next one each time, adds it to  *)
(* the gradients or gives it up together with them, turns gradients into   *)
(* updates of the model, and saves its state only between updates.  It     *)
(* may be killed and resumed at any saved state, or start again.           *)
(***************************************************************************)
EXTENDS Naturals, Sequences

VARIABLES
    next,       \* batches taken from the stream
    grads,      \* the batches whose gradients are accumulated
    model,      \* the batches of every update the model has received
    saved       \* the checkpoints: positions of the stream, with models

vars == <<next, grads, model, saved>>

Fresh == [next |-> 0, model |-> <<>>]

Init == next = 0 /\ grads = {} /\ model = <<>> /\ saved = {}

Accumulate ==
    /\ next' = next + 1
    /\ grads' = grads \cup {next + 1}
    /\ UNCHANGED <<model, saved>>

GiveUp ==
    /\ next' \in {next, next + 1}
    /\ grads' = {}
    /\ UNCHANGED <<model, saved>>

Update ==
    /\ model' = Append(model, grads)
    /\ grads' = {}
    /\ UNCHANGED <<next, saved>>

Save ==
    /\ grads = {}
    /\ saved' = saved \cup {[next |-> next, model |-> model]}
    /\ UNCHANGED <<next, grads, model>>

Expire ==
    /\ saved' \in SUBSET saved
    /\ UNCHANGED <<next, grads, model>>

Resume ==
    \E s \in saved \cup {Fresh} :
        /\ next' = s.next
        /\ model' = s.model
        /\ grads' = {}
        /\ UNCHANGED saved

Next == Accumulate \/ GiveUp \/ Update \/ Save \/ Expire \/ Resume

Spec == Init /\ [][Next]_vars

-----------------------------------------------------------------------------

(* A state of training is sound if no batch is in two updates, or in one   *)
(* and among the gradients, and none comes from beyond the position.       *)
Sound(n, m, g) ==
    /\ \A i \in DOMAIN m : m[i] \subseteq 1..n \ g
    /\ \A i, j \in DOMAIN m : i # j => m[i] \cap m[j] = {}
    /\ g \subseteq 1..n

(* Every batch is learnt from at most once, also after a restart from any  *)
(* checkpoint.                                                             *)
LearntOnce ==
    /\ Sound(next, model, grads)
    /\ \A s \in saved : Sound(s.next, s.model, {})
=============================================================================
