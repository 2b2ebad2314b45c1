------------------------------ MODULE Scheduler ------------------------------
(***************************************************************************)
(* The pure part of the kitchen: src/app/kitchen/scheduler.py, the data it *)
(* works on (src/app/kitchen/models.py) and the bookkeeping of engine.py   *)
(* that is a function of them, as operators on the list of slots, the      *)
(* priority queue and the unit counts.  The modules that have state        *)
(* (KitchenEngine, Bakery) are built from these operators.                 *)
(*                                                                         *)
(* A slot is its position in the list Scheduler.__init__ builds, oven by   *)
(* oven.  The heap is the set of its entries: an entry's rank is its place *)
(* in (priority, seq) order, and the k-th heappop returns the entry of     *)
(* rank k.                                                                 *)
(***************************************************************************)
EXTENDS Integers, Sequences, FiniteSets

CONSTANTS
    OVENS,            \* ovens in the shop
    TRAYS_PER_OVEN,   \* trays in an oven
    Orders,           \* order ids
    NoTask            \* what an idle slot holds (None)

NoTime == -1          \* an absent datetime (None); the clock never shows it

VIP == 1
APP == 2
WALK_IN == 3
PriorityLevel == {VIP, APP, WALK_IN}

BakeTask == [order: Orders, priority: PriorityLevel,
             bake_seconds: Nat, seq: Nat]

\* A task once it is on a tray (state BAKING): the fields _fill_free_slots sets.
Baking == [task: BakeTask, started_at: Int, finish_at: Int]

ASSUME KitchenAssumption ==
    /\ OVENS \in Nat \ {0}
    /\ TRAYS_PER_OVEN \in Nat \ {0}
    /\ NoTask \notin Baking

Slots == 1..(OVENS * TRAYS_PER_OVEN)

-----------------------------------------------------------------------------
(* The heap: entries are compared by (priority, seq).                      *)

\* Mutant: entries compared by arrival only.
MutPrecedes(t, u) == t.seq < u.seq

\* Mutant: among equals the newest entry goes first.
MutPrecedesNewest(t, u) ==
    \/ t.priority < u.priority
    \/ t.priority = u.priority /\ t.seq > u.seq

Precedes(t, u) ==
    \/ t.priority < u.priority
    \/ t.priority = u.priority /\ t.seq < u.seq

\* How many entries are popped before t, and the entry popped after k others.
Rank(queue, t) == Cardinality({u \in queue : Precedes(u, t)})
Ranked(queue, k) == CHOOSE t \in queue : Rank(queue, t) = k

-----------------------------------------------------------------------------
(* tick: _complete_finished, then _fill_free_slots.                        *)

FreeSlots(slots) == {s \in Slots : slots[s] = NoTask}
BusySlots(slots) == Slots \ FreeSlots(slots)

\* Mutant: a tray is emptied one second before its bake ends.
MutFinished(slots, now) ==
    {s \in BusySlots(slots) : slots[s].finish_at <= now + 1}

\* The slots whose task _complete_finished takes out.
Finished(slots, now) ==
    {s \in BusySlots(slots) : slots[s].finish_at <= now}

Cleared(slots, now) ==
    [s \in Slots |-> IF s \in Finished(slots, now) THEN NoTask ELSE slots[s]]

StartBaking(t, now) ==
    [task |-> t, started_at |-> now, finish_at |-> now + t.bake_seconds]

\* Idle slots are served in list order, so a slot's turn is the number of idle
\* slots before it, and it pops the entry of that rank while there is one.
Turn(slots, s) == Cardinality({r \in FreeSlots(slots) : r < s})

FilledSlots(slots, queue, now) ==
    [s \in Slots |->
        IF s \in FreeSlots(slots) /\ Turn(slots, s) < Cardinality(queue)
        THEN StartBaking(Ranked(queue, Turn(slots, s)), now)
        ELSE slots[s]]

\* Mutant: the last pop of the loop is forgotten.
MutLeftInQueue(slots, queue) ==
    {t \in queue : Rank(queue, t) + 1 >= Cardinality(FreeSlots(slots))}

LeftInQueue(slots, queue) ==
    {t \in queue : Rank(queue, t) >= Cardinality(FreeSlots(slots))}

\* Mutant: slots are filled before finished tasks are taken out.
MutTickSlots(slots, queue, now) ==
    Cleared(FilledSlots(slots, queue, now), now)

TickSlots(slots, queue, now) == FilledSlots(Cleared(slots, now), queue, now)
TickQueue(slots, queue, now) == LeftInQueue(Cleared(slots, now), queue)

-----------------------------------------------------------------------------
(* _project: the trays' finish times, then every entry in heap order on    *)
(* the tray that is free first.                                            *)

Later(a, b) == IF a >= b THEN a ELSE b

\* Mutant: a bake under way counts as if it began now.
MutFreeTimes(slots, now) ==
    [s \in Slots |-> IF slots[s] = NoTask THEN now ELSE now + slots[s].task.bake_seconds]

FreeTimes(slots, now) ==
    [s \in Slots |-> IF slots[s] = NoTask THEN now ELSE slots[s].finish_at]

\* The order's last finish among the trays, NoTime when it is on none.
OnTrays(slots, o) ==
    LET finishes == {slots[s].finish_at :
                        s \in {r \in BusySlots(slots) : slots[r].task.order = o}}
    IN  IF finishes = {} THEN NoTime
        ELSE CHOOSE f \in finishes : \A g \in finishes : f >= g

\* Mutant: the tray that is free last is popped.
MutFirstFree(free) == CHOOSE s \in Slots : \A r \in Slots : free[s] >= free[r]

FirstFree(free) == CHOOSE s \in Slots : \A r \in Slots : free[s] <= free[r]

\* Mutant: a tray that fell free in the past starts in the past.
MutBakeNext(plan, t, now) ==
    LET s == FirstFree(plan.free)
        finish == plan.free[s] + t.bake_seconds
    IN  [free  |-> [plan.free EXCEPT ![s] = finish],
         ready |-> [plan.ready EXCEPT ![t.order] = Later(@, finish)]]

\* Mutant: an order is ready with the last of its units in the queue.
MutBakeNextLast(plan, t, now) ==
    LET s == FirstFree(plan.free)
        finish == Later(plan.free[s], now) + t.bake_seconds
    IN  [free  |-> [plan.free EXCEPT ![s] = finish],
         ready |-> [plan.ready EXCEPT ![t.order] = finish]]

\* One round of the loop over the entries.
BakeNext(plan, t, now) ==
    LET s == FirstFree(plan.free)
        finish == Later(plan.free[s], now) + t.bake_seconds
    IN  [free  |-> [plan.free EXCEPT ![s] = finish],
         ready |-> [plan.ready EXCEPT ![t.order] = Later(@, finish)]]

\* Ready time of every order on a tray or in the entries, NoTime for the others.
Project(slots, entries, now) ==
    LET plan[k \in 0..Cardinality(entries)] ==
            IF k = 0
            THEN [free  |-> FreeTimes(slots, now),
                  ready |-> [o \in Orders |-> OnTrays(slots, o)]]
            ELSE BakeNext(plan[k - 1], Ranked(entries, k - 1), now)
    IN  plan[Cardinality(entries)].ready

\* The least of a set of integers that is not empty, and the members of S in the
\* order of their places, no two of which are equal.
Least(set) == CHOOSE i \in set : \A j \in set : i <= j
InOrder(S, place) ==
    [k \in 1..Cardinality(S) |->
        CHOOSE x \in S : Cardinality({y \in S : place[y] < place[x]}) = k - 1]

TraysOf(slots, o) == {s \in BusySlots(slots) : slots[s].task.order = o}
OrdersOnTrays(slots) == {slots[s].task.order : s \in BusySlots(slots)}
OrdersWaiting(queue) == {t.order : t \in queue}

\* The keys of estimate's answer other than o, in the order it meets them: the
\* trays in list order, then the queue.
EtaKeysBut(o, slots, queue) ==
    LET met == (OrdersOnTrays(slots) \cup OrdersWaiting(queue)) \ {o}
    IN  InOrder(met, [p \in met |->
            IF p \in OrdersOnTrays(slots) THEN Least(TraysOf(slots, p))
            ELSE Cardinality(Slots) + 1
                 + Least({Rank(queue, t) : t \in {u \in queue : u.order = p}})])

-----------------------------------------------------------------------------
(* The engine's bookkeeping around a tick.                                 *)

\* The tasks enqueue pushes: one per spec <<priority, bake_seconds>>, with
\* consecutive sequence numbers from n on.
NewTasks(o, specs, n) ==
    {[order |-> o, priority |-> specs[i][1], bake_seconds |-> specs[i][2],
      seq |-> n + i - 1] : i \in 1..Len(specs)}

\* Units of o that a tick at time now takes out.
DoneUnits(slots, now, o) ==
    Cardinality({s \in Finished(slots, now) : slots[s].task.order = o})

\* _account: the remaining units of each order, 0 for an absent key.  The key
\* goes when it reaches zero, and further units of the order change nothing.
Accounted(slots, rem, now) ==
    [o \in Orders |-> IF DoneUnits(slots, now, o) >= rem[o]
                      THEN 0 ELSE rem[o] - DoneUnits(slots, now, o)]

\* Mutant: an order is taken for ready when one of its units is left.
MutMadeReady(slots, rem, now) ==
    {o \in Orders : DoneUnits(slots, now, o) > 0 /\ DoneUnits(slots, now, o) + 1 >= rem[o]}

\* The orders whose key goes: _account enters them in _ready_at.
MadeReady(slots, rem, now) ==
    {o \in Orders : rem[o] > 0 /\ DoneUnits(slots, now, o) >= rem[o]}

=============================================================================
