------------------------------- MODULE Routing -------------------------------
(***************************************************************************)
(* How outputs become tasks, and how the engine knows that everything that *)
(* came from one source item is done.  A worker routes the outputs of its  *)
(* task packet by packet; an input port of several waits for the packets   *)
(* of its partners in a join group of the lineage; the tracker counts, for *)
(* every lineage, the open source, the tasks and the join groups, and      *)
(* completes the lineage when all three are zero.                          *)
(*                                                                         *)
(* The workers share an event loop: one that routes keeps the turn until   *)
(* an admission has to wait for room, and only execute(), which has a      *)
(* thread of its own, runs beside it.  Batches have one task here, an      *)
(* execution of an input node returns one output (which is one lineage),   *)
(* and byte budgets only decide who may have to wait.  A failure ends the  *)
(* model: how the workers are then stopped is in Scheduler.                *)
(***************************************************************************)
EXTENDS Naturals, FiniteSets, SequencesExt, Sublists

CONSTANTS
    Nodes,
    Outputs,        \* Outputs[n]: the output ports of n
    Inputs,         \* Inputs[n]: the input ports of n, {} of input nodes
    Targets,        \* Targets[n][o]: the edges from output o of n, each with
                    \* the node and the port it leads to, in their order
    BroadcastPorts, \* pairs of a node and an input port
    ListPorts,
    OptionalPorts,  \* optional, or given as a parameter
    QueueMax,
    Items,          \* Items[n]: source items of an input node, else 0
    Results,        \* Results[n]: what an execution of n may return, each a
                    \* sequence of output ports, one per packet (a bound)
    NoNode

NoTask == [line |-> <<>>]

ASSUME GraphAssumption ==
    /\ IsFiniteSet(Nodes) /\ NoNode \notin Nodes
    /\ \A n \in Nodes : \A o \in Outputs[n] :
        /\ Targets[n][o] \in Seq([to : Nodes, port : UNION {Inputs[m] : m \in Nodes}])
        /\ \A i \in DOMAIN Targets[n][o] :
              Targets[n][o][i].port \in Inputs[Targets[n][o][i].to]
    /\ QueueMax \in [Nodes -> Nat \ {0}]
    /\ Items \in [Nodes -> Nat]
    /\ \A n \in Nodes : Results[n] \subseteq Seq(Outputs[n])
    /\ \A n \in Nodes : Items[n] > 0 => Inputs[n] = {}

VARIABLES
    left,       \* items an input node has still to emit
    queue,      \* tasks admitted to a node
    turn,       \* the worker that routes, or NoNode
    pc,         \* a worker: "collect", "execute", "route" or "put"
    task,       \* the task it works on
    todo,       \* output ports of its packets that are left to route
    edge,       \* the edge by which the first of them goes next
    ready,      \* tasks of the delivery at hand that are not yet admitted
    closing,    \* lineages whose group that delivery closed
    groups,     \* groups[n][l]: the join group of n for lineage l, for every
                \* port that had packets those that wait
    order,      \* the lineages of the groups of n in the order of creation
    broadcasts, \* the last packet of every broadcast port of a node
    tracker,    \* open source, tasks and joins of the active lineages
    done,       \* lineages reported as completed
    serial,     \* packets of a lineage that left an output port so far
    built,      \* tasks of a lineage that a join has built so far
    failure     \* "none", "join" or "lineage": what a worker died of

routing == <<turn, pc, task, todo, edge, ready, closing>>
joins == <<groups, order, broadcasts, built>>
vars == <<left, queue, routing, joins, tracker, done, serial, failure>>

-----------------------------------------------------------------------------
(* The lineage tracker.                                                    *)

Tracked(l) == l \in DOMAIN tracker
Idle(c) == c.open = 0 /\ c.tasks = 0 /\ c.joins = 0

Without(f, S) == [x \in DOMAIN f \ S |-> f[x]]
With(f, x, v) == [y \in DOMAIN f \cup {x} |-> IF y = x THEN v ELSE f[y]]

(* The tracker after counts have changed to t: idle lineages complete.     *)
Settle(t) ==
    LET idle == {l \in DOMAIN t : Idle(t[l])}
    IN  tracker' = Without(t, idle) /\ done' = done \cup idle

OpenSource(l) == With(tracker, l, [open |-> 1, tasks |-> 0, joins |-> 0])
Source(n, l) == [line |-> l, inputs |-> <<>>, nth |-> 0, to |-> n]

-----------------------------------------------------------------------------
(* Joins.                                                                  *)

Required(n) ==
    {p \in Inputs[n] : <<n, p>> \notin OptionalPorts}
RequiredItems(n) == {p \in Required(n) : <<n, p>> \notin BroadcastPorts}
RequiredBroadcasts(n) == {p \in Required(n) : <<n, p>> \in BroadcastPorts}

SingleInput(n) == Cardinality(Inputs[n]) = 1 /\ Required(n) = Inputs[n]

Smallest(S) == CHOOSE x \in S : \A y \in S : x <= y

(* How many tasks the packets of a group make.  A list port gives all it   *)
(* has to the first.                                                       *)
Supply(n, items, p) ==
    IF p \notin DOMAIN items \/ items[p] = <<>> THEN 0
    ELSE IF <<n, p>> \in ListPorts THEN 1 ELSE Len(items[p])

Pops(n, items, b) ==
    IF ~ RequiredBroadcasts(n) \subseteq DOMAIN b THEN 0
    ELSE Smallest({Supply(n, items, p) : p \in RequiredItems(n)})

(* Popping an optional port that has run dry is an IndexError; without a   *)
(* required port nothing ends the popping but that.                        *)
PopFails(n, items, b) ==
    IF RequiredItems(n) = {} THEN RequiredBroadcasts(n) \subseteq DOMAIN b
    ELSE \E p \in DOMAIN items \ RequiredItems(n) :
            Supply(n, items, p) < Pops(n, items, b)

(* A bug: pop() without an index.                                          *)
PoppedLast(n, l, items, b, k) ==
    [to |-> n, line |-> l, nth |-> built[<<n, l>>] + k,
     inputs |-> [p \in DOMAIN items \cup DOMAIN b |->
                    IF p \in DOMAIN b THEN <<b[p]>>
                    ELSE IF <<n, p>> \in ListPorts THEN items[p]
                    ELSE <<items[p][Len(items[p])]>>]]

(* Task k takes packet k of every port.                                    *)
Popped(n, l, items, b, k) ==
    [to |-> n, line |-> l, nth |-> built[<<n, l>>] + k,
     inputs |-> [p \in DOMAIN items \cup DOMAIN b |->
                    IF p \in DOMAIN b THEN <<b[p]>>
                    ELSE IF <<n, p>> \in ListPorts THEN items[p]
                    ELSE <<items[p][k]>>]]

PoppedOf(n, l, items, b) ==
    [k \in 1..Pops(n, items, b) |-> Popped(n, l, items, b, k)]

(* What is left of a group.                                                *)
Rest(n, items, b) ==
    LET k == Pops(n, items, b)
    IN  [p \in DOMAIN items |->
            IF k = 0 THEN items[p]
            ELSE IF <<n, p>> \in ListPorts THEN <<>>
            ELSE SubSeq(items[p], k + 1, Len(items[p]))]

AllEmpty(items) == \A p \in DOMAIN items : items[p] = <<>>

-----------------------------------------------------------------------------

Lineages == UNION {{<<n, i>> : i \in 1..Items[n]} : n \in Nodes}
IsInput(n) == Inputs[n] = {}

Init ==
    /\ left = Items
    /\ queue = [n \in Nodes |-> <<>>]
    /\ turn = NoNode
    /\ pc = [n \in Nodes |-> "collect"]
    /\ task = [n \in Nodes |-> NoTask]
    /\ todo = [n \in Nodes |-> <<>>]
    /\ edge = [n \in Nodes |-> 1]
    /\ ready = [n \in Nodes |-> <<>>]
    /\ closing = [n \in Nodes |-> {}]
    /\ groups = [n \in Nodes |-> <<>>]
    /\ order = [n \in Nodes |-> <<>>]
    /\ broadcasts = [n \in Nodes |-> <<>>]
    /\ tracker = <<>>
    /\ done = {}
    /\ serial = [x \in UNION {{n} \X Lineages \X Outputs[n] : n \in Nodes} |-> 0]
    /\ built = [x \in Nodes \X Lineages |-> 0]
    /\ failure = "none"

(* An input node has queued its own next task.                             *)
Collect(n) ==
    /\ failure = "none" /\ turn = NoNode /\ pc[n] = "collect"
    /\ IF IsInput(n)
       THEN /\ left[n] > 0
            /\ left' = [left EXCEPT ![n] = @ - 1]
            /\ task' = [task EXCEPT ![n] = Source(n, <<n, left[n]>>)]
            /\ UNCHANGED queue
       ELSE /\ queue[n] # <<>>
            /\ queue' = [queue EXCEPT ![n] = Tail(@)]
            /\ task' = [task EXCEPT ![n] = Head(queue[n])]
            /\ UNCHANGED left
    /\ pc' = [pc EXCEPT ![n] = "execute"]
    /\ UNCHANGED <<turn, todo, edge, ready, closing, joins, tracker, done,
                   serial, failure>>

(* execute() returns its outputs, and routing starts.  An item of an input *)
(* node opens its lineage.                                                 *)
Execute(n) ==
    /\ failure = "none" /\ turn = NoNode /\ pc[n] = "execute"
    /\ \E outs \in Results[n] : todo' = [todo EXCEPT ![n] = outs]
    /\ edge' = [edge EXCEPT ![n] = 1]
    /\ tracker' = IF IsInput(n) THEN OpenSource(task[n].line) ELSE tracker
    /\ turn' = n
    /\ pc' = [pc EXCEPT ![n] = "route"]
    /\ UNCHANGED <<left, queue, task, ready, closing, joins, done, serial, failure>>

-----------------------------------------------------------------------------
(* The delivery at hand, of packet d.packet by the edge to d.to, and what  *)
(* it does to the join buffers there: the groups and broadcasts after it,  *)
(* the lineages whose groups it opens and closes, the tasks it makes, how  *)
(* many of them from which group, and whether popping them fails.          *)

Edges(n) == Targets[n][Head(todo[n])]

Delivery(n) ==
    LET x == Edges(n)[edge[n]]
        l == task[n].line
    IN  [to |-> x.to, port |-> x.port,
         packet |-> [line |-> l, num |-> serial[<<n, l, Head(todo[n])>>] + 1]]

Task(m, l, inputs) == [to |-> m, line |-> l, nth |-> 0, inputs |-> inputs]

Single(d) ==
    [fails |-> FALSE, opened |-> {}, closed |-> {}, popped |-> <<>>,
     groups |-> groups[d.to], broadcasts |-> broadcasts[d.to],
     tasks |-> <<Task(d.to, d.packet.line, [p \in {d.port} |-> <<d.packet>>])>>]

BroadcastOnly(d, b) ==
    [fails |-> FALSE, opened |-> {}, closed |-> {}, popped |-> <<>>,
     groups |-> groups[d.to], broadcasts |-> b,
     tasks |-> <<Task(d.to, d.packet.line, [p \in DOMAIN b |-> <<b[p]>>])>>]

PopGroups(m, b) ==
    LET gs == groups[m]
        empty == {l \in DOMAIN gs : AllEmpty(Rest(m, gs[l], b))}
        fails == \E l \in DOMAIN gs : PopFails(m, gs[l], b)
    IN  [fails |-> fails,
         opened |-> {}, closed |-> empty,
         popped |-> [l \in DOMAIN gs |-> Pops(m, gs[l], b)],
         groups |-> [l \in DOMAIN gs \ empty |-> Rest(m, gs[l], b)],
         broadcasts |-> b,
         tasks |-> IF fails THEN <<>>
                   ELSE FlattenSeq([i \in DOMAIN order[m] |->
                            PoppedOf(m, order[m][i], gs[order[m][i]], b)])]

AddBroadcast(d) ==
    LET m == d.to
        b == With(broadcasts[m], d.port, d.packet)
    IN  IF RequiredItems(m) = {} /\ RequiredBroadcasts(m) \subseteq DOMAIN b
        THEN BroadcastOnly(d, b)
        ELSE PopGroups(m, b)

(* The group of l at m, with a packet more.                                *)
Grown(d) ==
    LET l == d.packet.line
        old == IF l \in DOMAIN groups[d.to] THEN groups[d.to][l] ELSE <<>>
    IN  With(old, d.port, IF d.port \in DOMAIN old
                          THEN Append(old[d.port], d.packet) ELSE <<d.packet>>)

AddItem(d) ==
    LET m == d.to
        l == d.packet.line
        items == Grown(d)
        b == broadcasts[m]
        full == RequiredItems(m) \subseteq DOMAIN items
        fails == full /\ PopFails(m, items, b)
        rest == IF full THEN Rest(m, items, b) ELSE items
    IN  [fails |-> fails,
         opened |-> {l} \ DOMAIN groups[m],
         closed |-> IF AllEmpty(rest) THEN {l} ELSE {},
         popped |-> [k \in {l} |-> IF full THEN Pops(m, items, b) ELSE 0],
         groups |-> IF AllEmpty(rest) THEN Without(groups[m], {l})
                    ELSE With(groups[m], l, rest),
         broadcasts |-> b,
         tasks |-> IF full /\ ~ fails THEN PoppedOf(m, l, items, b) ELSE <<>>]

Added(d) ==
    IF SingleInput(d.to) THEN Single(d)
    ELSE IF <<d.to, d.port>> \in BroadcastPorts THEN AddBroadcast(d)
    ELSE AddItem(d)

(* A new group comes last.                                                 *)
Reordered(s, opened, gs) ==
    LET all == IF opened = {} THEN s ELSE Append(s, CHOOSE l \in opened : TRUE)
    IN  Sublist(all, {i \in DOMAIN all : all[i] \in DOMAIN gs})

-----------------------------------------------------------------------------
(* Routing.  Between two waits of an admission nothing else runs: the next *)
(* task is registered and its admission begins, or, after the last, the    *)
(* groups that the delivery emptied are closed.                            *)

(* A bug: a group that was waited for before is not counted again.         *)
OpenedOnce(t, S) ==
    [l \in DOMAIN t |-> IF l \in S /\ \A n \in Nodes : built[<<n, l>>] = 0
                       THEN [t[l] EXCEPT !.joins = @ + 1] ELSE t[l]]

(* A bug: emptied groups are not told.                                     *)
ClosedNever(t, S) == t

Opened(t, S) ==
    [l \in DOMAIN t |-> IF l \in S THEN [t[l] EXCEPT !.joins = @ + 1] ELSE t[l]]

Closed(t, S) ==
    [l \in DOMAIN t |-> IF l \in S THEN [t[l] EXCEPT !.joins = @ - 1] ELSE t[l]]

Fails(why) == failure' = why /\ UNCHANGED <<pc, ready, closing, tracker, done>>

(* A bug: the groups are closed before the tasks are registered.           *)
ProceedClosingFirst(n, tasks, closed, t) ==
    /\ Settle(Closed(t, closed))
    /\ pc' = [pc EXCEPT ![n] = IF tasks = <<>> THEN "route" ELSE "put"]
    /\ ready' = [ready EXCEPT ![n] = tasks]
    /\ closing' = [closing EXCEPT ![n] = {}]
    /\ UNCHANGED failure

Proceed(n, tasks, closed, t) ==
    IF tasks = <<>> /\ closed \subseteq DOMAIN t
    THEN /\ Settle(Closed(t, closed))
         /\ pc' = [pc EXCEPT ![n] = "route"]
         /\ ready' = [ready EXCEPT ![n] = <<>>]
         /\ closing' = [closing EXCEPT ![n] = {}]
         /\ UNCHANGED failure
    ELSE IF tasks # <<>> /\ Head(tasks).line \in DOMAIN t
    THEN /\ tracker' = [t EXCEPT ![Head(tasks).line].tasks = @ + 1]
         /\ pc' = [pc EXCEPT ![n] = "put"]
         /\ ready' = [ready EXCEPT ![n] = tasks]
         /\ closing' = [closing EXCEPT ![n] = closed]
         /\ UNCHANGED <<done, failure>>
    ELSE Fails("lineage")

Routes(n) ==
    failure = "none" /\ turn = n /\ pc[n] = "route" /\ todo[n] # <<>>

(* A packet has gone by all its edges.                                     *)
NextPacket(n) ==
    /\ Routes(n) /\ edge[n] > Len(Edges(n))
    /\ serial' = [serial EXCEPT ![<<n, task[n].line, Head(todo[n])>>] = @ + 1]
    /\ todo' = [todo EXCEPT ![n] = Tail(@)]
    /\ edge' = [edge EXCEPT ![n] = 1]
    /\ UNCHANGED <<left, queue, turn, pc, task, ready, closing, joins, tracker,
                   done, failure>>

Deliver(n) ==
    /\ Routes(n) /\ edge[n] <= Len(Edges(n))
    /\ LET d == Delivery(n)
           r == Added(d)
       IN  /\ ~ r.fails
           /\ groups' = [groups EXCEPT ![d.to] = r.groups]
           /\ order' = [order EXCEPT ![d.to] = Reordered(@, r.opened, r.groups)]
           /\ broadcasts' = [broadcasts EXCEPT ![d.to] = r.broadcasts]
           /\ built' = [x \in DOMAIN built |->
                            IF x[1] = d.to /\ x[2] \in DOMAIN r.popped
                            THEN built[x] + r.popped[x[2]] ELSE built[x]]
           /\ IF r.opened \subseteq DOMAIN tracker
              THEN Proceed(n, r.tasks, r.closed, Opened(tracker, r.opened))
              ELSE Fails("lineage")
    /\ edge' = [edge EXCEPT ![n] = @ + 1]
    /\ UNCHANGED <<left, queue, turn, task, todo, serial>>

(* The IndexError ends the worker.                                         *)
DeliverFails(n) ==
    /\ Routes(n) /\ edge[n] <= Len(Edges(n)) /\ Added(Delivery(n)).fails
    /\ failure' = "join"
    /\ UNCHANGED <<left, queue, routing, joins, tracker, done, serial>>

(* A bug: put() does not wait.                                             *)
RoomAlways(m) == TRUE

Room(m) == Len(queue[m]) < QueueMax[m]

Busy(m) == queue[m] # <<>> \/ task[m] # NoTask

(* The queue is full, or the bytes of the task do not fit beside those of  *)
(* the tasks that its node has not completed: the other workers go on.     *)
Wait(n) ==
    LET m == Head(ready[n]).to
    IN  /\ failure = "none" /\ turn = n /\ pc[n] = "put"
        /\ ~ Room(m) \/ Busy(m)
        /\ turn' = NoNode
        /\ UNCHANGED <<left, queue, pc, task, todo, edge, ready, closing,
                       joins, tracker, done, serial, failure>>

Admit(n) ==
    LET t == Head(ready[n])
    IN  /\ failure = "none" /\ turn \in {n, NoNode} /\ pc[n] = "put"
        /\ turn' = n
        /\ Room(t.to)
        /\ queue' = [queue EXCEPT ![t.to] = Append(@, t)]
        /\ Proceed(n, Tail(ready[n]), closing[n], tracker)
        /\ UNCHANGED <<left, task, todo, edge, joins, serial>>

(* close_source() or, of a lineage that is still tracked, finish_task().   *)
Finish(n) ==
    LET l == task[n].line
    IN  /\ failure = "none" /\ turn = n /\ pc[n] = "route" /\ todo[n] = <<>>
        /\ turn' = NoNode
        /\ IF ~ Tracked(l) THEN UNCHANGED <<tracker, done>>
           ELSE IF IsInput(n) THEN Settle([tracker EXCEPT ![l].open = 0])
           ELSE Settle([tracker EXCEPT ![l].tasks = @ - 1])
        /\ task' = [task EXCEPT ![n] = NoTask]
        /\ pc' = [pc EXCEPT ![n] = "collect"]
        /\ UNCHANGED <<left, queue, todo, edge, ready, closing, joins, serial,
                       failure>>

Work(n) ==
    \/ Collect(n) \/ Execute(n) \/ NextPacket(n) \/ Deliver(n) \/ DeliverFails(n)
    \/ Wait(n) \/ Admit(n) \/ Finish(n)

Next == \E n \in Nodes : Work(n)

Spec == Init /\ [][Next]_vars

-----------------------------------------------------------------------------
(* Conditions on graphs.  from[n] bounds the input nodes whose lineages    *)
(* can come to n.                                                          *)

LeadsTo(n, o, i, m, p) ==
    /\ o \in Outputs[n] /\ i \in DOMAIN Targets[n][o]
    /\ Targets[n][o][i].to = m /\ Targets[n][o][i].port = p

Bounds(from) ==
    /\ from \in [Nodes -> SUBSET Nodes]
    /\ \A n \in Nodes : IsInput(n) => n \in from[n]
    /\ \A n \in Nodes : \A o \in Outputs[n] : \A i \in DOMAIN Targets[n][o] :
          from[n] \subseteq from[Targets[n][o][i].to]

(* The lineages that can wait in a group of m.                             *)
Waiting(from, m) ==
    {l \in Lineages : \E n \in Nodes : \E o \in Outputs[n] :
        \E i \in DOMAIN Targets[n][o] : \E p \in Inputs[m] :
            /\ l[1] \in from[n] /\ LeadsTo(n, o, i, m, p)
            /\ <<m, p>> \notin BroadcastPorts}

(* Where a broadcast comes, one lineage at most waits for it.              *)
OneWaitsForBroadcast(from) ==
    \A m \in Nodes : \A p \in Inputs[m] : <<m, p>> \in BroadcastPorts
        => \A k, l \in Waiting(from, m) : k = l

(* The port gives a task one packet, which comes with those of partners.   *)
Paired(m, p) ==
    ~ SingleInput(m) /\ p \in RequiredItems(m) /\ <<m, p>> \notin ListPorts

(* A lineage comes to such a port by one edge at most.                     *)
OneFeedPerLineage(from) ==
    \A m \in Nodes : \A p \in Inputs[m] : Paired(m, p) =>
        \A n, k \in Nodes : \A o \in Outputs[n] : \A q \in Outputs[k] :
            \A i \in DOMAIN Targets[n][o] : \A j \in DOMAIN Targets[k][q] :
                LeadsTo(n, o, i, m, p) /\ LeadsTo(k, q, j, m, p)
                    => from[n] \cap from[k] = {} \/ <<n, o, i>> = <<k, q, j>>

-----------------------------------------------------------------------------
(* Properties.                                                             *)

Packets == [line : Lineages, num : Nat \ {0}]
IsBuffer(f, n) == DOMAIN f \subseteq Inputs[n] /\ f \in [DOMAIN f -> Seq(Packets)]
IsTask(t, n) ==
    /\ t \in [to : {n}, line : Lineages, nth : Nat, inputs : {t.inputs}]
    /\ IsBuffer(t.inputs, n)

(* Every variable holds a value of its type; no queue exceeds its limit;   *)
(* the order of the groups names each of them once.                        *)
WorkersOK ==
    /\ turn \in Nodes \cup {NoNode}
    /\ pc \in [Nodes -> {"collect", "execute", "route", "put"}]
    /\ edge \in [Nodes -> Nat \ {0}]
    /\ closing \in [Nodes -> SUBSET Lineages]
    /\ \A n \in Nodes :
        /\ task[n] # NoTask => IsTask(task[n], n)
        /\ todo[n] \in Seq(Outputs[n])
        /\ \A t \in ToSet(ready[n]) : IsTask(t, t.to) /\ t.to \in Nodes
        /\ pc[n] = "put" <=> ready[n] # <<>>
        /\ pc[n] = "collect" <=> task[n] = NoTask

JoinsOK ==
    \A n \in Nodes :
        /\ DOMAIN groups[n] \subseteq Lineages
        /\ \A l \in DOMAIN groups[n] : IsBuffer(groups[n][l], n)
        /\ DOMAIN broadcasts[n] \subseteq Inputs[n]
        /\ broadcasts[n] \in [DOMAIN broadcasts[n] -> Packets]
        /\ IsInjective(order[n]) /\ ToSet(order[n]) = DOMAIN groups[n]

TypeOK ==
    /\ left \in [Nodes -> Nat] /\ \A n \in Nodes : left[n] <= Items[n]
    /\ \A n \in Nodes :
        /\ \A t \in ToSet(queue[n]) : IsTask(t, n)
        /\ Len(queue[n]) <= QueueMax[n]
    /\ WorkersOK /\ JoinsOK
    /\ tracker \in [DOMAIN tracker -> [open : {0, 1}, tasks : Nat, joins : Nat]]
    /\ done \subseteq Lineages /\ DOMAIN tracker \subseteq Lineages \ done
    /\ serial \in [UNION {{n} \X Lineages \X Outputs[n] : n \in Nodes} -> Nat]
    /\ built \in [Nodes \X Lineages -> Nat]
    /\ failure \in {"none", "join", "lineage"}

(* The counts of a lineage are those of what carries it: the source that   *)
(* is open, tasks queued, executing or waiting for room, join groups and   *)
(* those about to be closed.  The tracker never meets an unknown lineage.  *)
Queued(l) ==
    UNION {{<<n, i>> : i \in {j \in DOMAIN queue[n] : queue[n][j].line = l}}
              : n \in Nodes}
Holders(l) == {n \in Nodes : task[n].line = l}

CountsAreExact ==
    /\ failure # "lineage"
    /\ failure = "none" =>
        \A l \in DOMAIN tracker :
            /\ tracker[l].open = Cardinality({n \in Holders(l) : IsInput(n)})
            /\ tracker[l].tasks =
                  Cardinality(Queued(l))
                  + Cardinality({n \in Holders(l) : ~ IsInput(n)})
                  + Cardinality({n \in Nodes : pc[n] = "put" /\ Head(ready[n]).line = l})
            /\ tracker[l].joins =
                  Cardinality({n \in Nodes : l \in DOMAIN groups[n]})
                  + Cardinality({n \in Nodes : l \in closing[n]})
            /\ ~ Idle(tracker[l])

(* "source item completed all branches" (scheduler_events.py): once it is  *)
(* reported, no task of the lineage is queued, executing or about to be    *)
(* queued, and no packet of it waits for partners.                         *)
CompletedAllBranches ==
    \A n \in Nodes :
        /\ \A t \in ToSet(queue[n]) \cup ToSet(ready[n]) : t.line \notin done
        /\ DOMAIN groups[n] \cap done = {}
        /\ task[n].line \notin done

(* Partners stay in step: the k-th task a join makes of a lineage has the  *)
(* k-th packet of every port that takes single ones, however the branches  *)
(* are interleaved and whenever the broadcast comes.                       *)
JoinsInStep ==
    \A n \in Nodes : \A t \in ToSet(queue[n]) \cup ToSet(ready[n]) :
        \A p \in RequiredItems(t.to) :
            Paired(t.to, p) => t.inputs[p] = <<[line |-> t.line, num |-> t.nth]>>

(* When all is done, the lineages still open are those with packets that   *)
(* found no partner.                                                       *)
Quiet ==
    \A n \in Nodes : left[n] = 0 /\ queue[n] = <<>> /\ pc[n] = "collect"

OnlyLeftoversStayOpen ==
    Quiet => DOMAIN tracker = UNION {DOMAIN groups[n] : n \in Nodes}

(* "Wire reference audio ... into the audio input, optionally with a       *)
(* transcript of what is said" (tts/voice_nodes.py): what is wired to an   *)
(* optional input is used, not left behind in a group.                     *)
OptionalInputsAreUsed ==
    Quiet => \A n \in Nodes : \A l \in DOMAIN groups[n] :
                \A p \in DOMAIN groups[n][l] : <<n, p>> \notin OptionalPorts
=============================================================================
