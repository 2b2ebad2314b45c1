---------------------------- MODULE KitchenEngine ----------------------------
(***************************************************************************)
(* src/app/kitchen/engine.py over real time: the in-memory kitchen, the    *)
(* two callers of its lock (enqueue, called by a payment or by recovery,   *)
(* and the background loop _run) and the timer the loop sleeps on.         *)
(*                                                                         *)
(* No body of "async with self._lock" awaits, so each one is a single      *)
(* action.  The loop gives way to other tasks in two places only: while    *)
(* _persist talks to the database, and while it waits.  What _persist      *)
(* writes is the subject of module Bakery.                                 *)
(*                                                                         *)
(* A datetime is finer than a second, and ticks come at any instant: the   *)
(* clock and all durations count units, SECOND of which make a second.     *)
(***************************************************************************)
EXTENDS KitchenState

CONSTANTS
    SECOND,             \* units of the clock in a second
    Specs,              \* the spec lists an order may bring, <<priority, bake_seconds>> each
    RECONCILE_SECONDS,  \* the longest sleep of the loop
    MaxTime,            \* bound: the clock stops here
    MaxUnits            \* bound: units enqueued over the whole run

ASSUME EngineAssumption ==
    /\ SECOND \in Nat \ {0}
    /\ Specs \subseteq Seq(PriorityLevel \X (Nat \ {0}))
    /\ << >> \notin Specs
    /\ RECONCILE_SECONDS \in Nat \ {0}
    /\ MaxTime \in Nat
    /\ MaxUnits \in Nat

VARIABLES
    loop,       \* where _run is: "reconcile", "persist" or "wait"
    wakeup,     \* KitchenEngine._wakeup
    deadline,   \* when the timeout of the loop's wait_for expires
    late        \* history: the loop has once been slow to run or to wake

kitchen == <<slots, queue, remaining, readyAt>>
vars == <<now, slots, queue, seq, remaining, readyAt, loop, wakeup, deadline, eta, late>>

Init ==
    /\ now = 0
    /\ NewEngine
    /\ loop = "reconcile"
    /\ wakeup = FALSE
    /\ deadline = 0
    /\ late = FALSE

-----------------------------------------------------------------------------

\* Mutant: the loop is not told that there is a new task.
MutEnqueue(o, specs) ==
    /\ seq + Len(specs) <= MaxUnits
    /\ EnqueueLocked(o, specs)
    /\ UNCHANGED <<now, loop, wakeup, deadline, late>>

\* enqueue: ... then wake the loop.
Enqueue(o, specs) ==
    /\ seq + Len(specs) <= MaxUnits
    /\ EnqueueLocked(o, specs)
    /\ wakeup' = TRUE
    /\ UNCHANGED <<now, loop, deadline, late>>

\* The locked part of _reconcile.  _persist follows.
Reconcile ==
    /\ loop = "reconcile"
    /\ TickAndAccount(queue, remaining)
    /\ loop' = "persist"
    /\ UNCHANGED <<now, seq, wakeup, deadline, eta, late>>

\* _next_finish, when a tray is busy.
NextFinish ==
    LET s == CHOOSE b \in BusySlots(slots) :
                \A r \in BusySlots(slots) : slots[b].finish_at <= slots[r].finish_at
    IN  slots[s].finish_at

Capped(wait) == IF wait <= RECONCILE_SECONDS THEN wait ELSE RECONCILE_SECONDS

\* Mutant: without a bake to wait for there is no timeout.
MutTimeout ==
    IF BusySlots(slots) = {} THEN NoTime - now ELSE Capped(Later(0, NextFinish - now))

\* The timeout of the loop's next sleep.
Timeout ==
    IF BusySlots(slots) = {} THEN RECONCILE_SECONDS ELSE Capped(Later(0, NextFinish - now))

\* _persist has returned: read the next finish, clear the event and wait, with
\* no await in between.
Sleep ==
    /\ loop = "persist"
    /\ loop' = "wait"
    /\ wakeup' = FALSE
    /\ deadline' = now + Timeout
    /\ UNCHANGED <<now, kitchen, seq, eta, late>>

\* wait_for returns: the event is set, or it times out.
Wake ==
    /\ loop = "wait"
    /\ wakeup \/ now >= deadline
    /\ loop' = "reconcile"
    /\ UNCHANGED <<now, kitchen, seq, wakeup, deadline, eta, late>>

\* Time passes, by any amount: the loop may run late and the write be slow.  A
\* loop is not late when it waits, has not been woken and has not timed out.
AdvanceClock ==
    /\ \E t \in (now + 1)..MaxTime :
          /\ now' = t
          /\ late' = (late \/ ~(loop = "wait" /\ ~wakeup /\ t <= deadline))
    /\ UNCHANGED <<kitchen, seq, loop, wakeup, deadline, eta>>

Next ==
    \/ \E o \in Orders, specs \in Specs : Enqueue(o, specs)
    \/ Reconcile
    \/ Sleep
    \/ Wake
    \/ AdvanceClock

Spec == Init /\ [][Next]_vars

-----------------------------------------------------------------------------
(* GET /kitchen/status.                                                    *)

\* A tray as it is shown: the order on it and the whole seconds left.
TrayStatus(s) ==
    IF slots[s] = NoTask THEN [order_id |-> NoTask, remaining_seconds |-> NoTime]
    ELSE [order_id |-> slots[s].task.order,
          remaining_seconds |-> Later(0, slots[s].finish_at - now) \div SECOND]

\* Mutant: the queue is shown in the order of arrival.
MutQueueStatus ==
    [p \in 1..Cardinality(queue) |->
        (CHOOSE t \in queue : Cardinality({u \in queue : u.seq < t.seq}) = p - 1).order]

\* The orders of the waiting units, by position.
QueueStatus == [p \in 1..Cardinality(queue) |-> Ranked(queue, p - 1).order]

\* _snapshot: slots of an oven are neighbours in the list.
Snapshot ==
    [ovens |-> [v \in 1..OVENS |-> [t \in 1..TRAYS_PER_OVEN |->
                                     TrayStatus((v - 1) * TRAYS_PER_OVEN + t)]],
     queue |-> QueueStatus]

-----------------------------------------------------------------------------
(* Properties.                                                             *)

\* Every variable has its type.
TypeOK ==
    /\ now \in Nat
    /\ slots \in [Slots -> Baking \cup {NoTask}]
    /\ queue \in SUBSET BakeTask
    /\ seq \in Nat
    /\ remaining \in [Orders -> Nat]
    /\ readyAt \in [Orders -> Nat \cup {NoTime}]
    /\ loop \in {"reconcile", "persist", "wait"}
    /\ wakeup \in BOOLEAN
    /\ deadline \in Nat
    /\ eta \in [Orders -> Nat \cup {NoTime}]
    /\ late \in BOOLEAN

OnTray == {slots[s].task : s \in BusySlots(slots)}

\* No unit is lost or double-booked: a task is on one tray at most, never on a
\* tray and in the queue at once, no two tasks share a sequence number (so the
\* heap never has to compare two tasks), and an order's count of remaining
\* units is the number of its tasks still in the kitchen.
UnitsConserved ==
    /\ \A s, r \in BusySlots(slots) : slots[s].task = slots[r].task => s = r
    /\ OnTray \cap queue = {}
    /\ \A t, u \in OnTray \cup queue : t.seq = u.seq => t = u
    /\ \A o \in Orders :
          remaining[o] = Cardinality({t \in OnTray \cup queue : t.order = o})

\* A unit never waits while a tray is free, whoever ticked last.
WorkConserving == queue # {} => FreeSlots(slots) = {}

\* Every step that loads a tray loads it with a unit that goes before all the
\* units left waiting: higher priority, or same priority and enqueued earlier.
LoadsFirst ==
    \A s \in Slots, u \in queue' :
        slots'[s] # NoTask /\ slots'[s] # slots[s] =>
            LET t == slots'[s].task
            IN  \/ t.priority < u.priority
                \/ t.priority = u.priority /\ t.seq < u.seq

NoPriorityInversion == [][LoadsFirst]_vars

\* A tray is emptied or reloaded only after the bake on it has had its full
\* time, however urgent the unit that waits for it.
LetsFinish ==
    \A s \in Slots :
        slots[s] # NoTask /\ slots'[s] # slots[s] =>
            slots[s].started_at + slots[s].task.bake_seconds <= now

NoPreemption == [][LetsFinish]_vars

\* While the loop sleeps, every bake under way ends no earlier than the loop
\* wakes, or the loop has been told to wake: the enqueue that loaded the tray
\* may have run at any point of the loop, the clear of the event included.
NoOversleep ==
    loop = "wait" /\ ~wakeup =>
        \A s \in BusySlots(slots) : deadline <= Later(now, slots[s].finish_at)

\* An order that is ready became so no earlier than the ETA it was last given,
\* however late the ticks were.
EtaNeverLate ==
    \A o \in Orders : readyAt[o] # NoTime /\ remaining[o] = 0 => readyAt[o] >= eta[o]

\* While an order is in the kitchen, the estimates it is given only move back.
MovesBack == \A o \in Orders : remaining[o] > 0 => eta'[o] >= eta[o]

EtaOnlyMovesBack == [][MovesBack]_vars

\* An enqueue delays only those behind it (README.md:103-104): an order none of
\* whose waiting units is less urgent than a new one is told what it would be
\* told if nothing had come, which is what it was told last unless the loop has
\* been late.
DelaysOnlyBehind ==
    seq' > seq =>
        \A x \in Orders :
            /\ remaining[x] > 0 /\ remaining'[x] > 0
            /\ \A t \in OnTray' \cup queue' :
                  t.seq >= seq =>
                     /\ t.order # x
                     /\ \A u \in queue : u.order = x => u.priority <= t.priority
            =>
            /\ eta'[x] = Project(slots, queue, now)[x]
            /\ ~late => eta'[x] = eta[x]

OthersKeepTheirPlace == [][DelaysOnlyBehind]_vars

\* What the status shows is what happens next.  When the loop ticks, all trays
\* shown as empty are free and, of those shown with no seconds left, the ones
\* whose last second is over: int() cuts it off, so 0 may be shown too early.
\* The units at the first positions of the queue go to the free trays, as many
\* as there are, the others move up by that number, and every other tray, one
\* that shows a second or more among them, keeps the order it shows.
Foretold ==
    LET trays == (1..OVENS) \X (1..TRAYS_PER_OVEN)
        shown(p) == Snapshot.ovens[p[1]][p[2]]
        line == Snapshot.queue
    IN  \E free \in SUBSET {p \in trays : shown(p).remaining_seconds <= 0} :
          /\ {p \in trays : shown(p).remaining_seconds = NoTime} \subseteq free
          /\ Snapshot'.queue = SubSeq(line, Cardinality(free) + 1, Len(line))
          /\ \A k \in 1..Len(line) :
                k <= Cardinality(free) =>
                   \E p \in free : Snapshot'.ovens[p[1]][p[2]].order_id = line[k]
          /\ \A p \in trays \ free : Snapshot'.ovens[p[1]][p[2]].order_id = shown(p).order_id

StatusForetells == [][loop = "reconcile" /\ loop' = "persist" => Foretold]_vars

\* As long as the loop is never late, an order is ready exactly at its last ETA.
EtaExact ==
    ~late => \A o \in Orders : readyAt[o] # NoTime /\ remaining[o] = 0 => readyAt[o] = eta[o]

\* What an enqueue of the same order at the same instant would return.
Authoritative(o, specs) ==
    LET q == queue \cup NewTasks(o, specs, seq)
    IN  Project(TickSlots(slots, q, now), TickQueue(slots, q, now), now)[o]

\* The provisional ETA of a placed order is the one it would get if it were
\* paid at once, also when trays are overdue because no tick has run yet.
ProvisionalIsAuthoritative ==
    \A o \in Orders, specs \in Specs :
        remaining[o] = 0 => Simulated(o, specs) = Authoritative(o, specs)

=============================================================================
