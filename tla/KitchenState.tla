----------------------------- MODULE KitchenState -----------------------------
(***************************************************************************)
(* What KitchenEngine (src/app/kitchen/engine.py) keeps in memory and what *)
(* the bodies of its lock do to it.  KitchenEngine adds the loop and its   *)
(* timer, Estimates the table that the estimates are written to.           *)
(***************************************************************************)
EXTENDS Scheduler

VARIABLES
    now,        \* the Clock
    slots,      \* Scheduler._slots: the task on each tray
    queue,      \* Scheduler._queue
    seq,        \* KitchenEngine._seq
    remaining,  \* KitchenEngine._remaining, 0 for an absent key
    readyAt,    \* KitchenEngine._ready_at, NoTime for an absent key
    eta         \* history: the last estimate of each order that an enqueue
                \* returned, the one its callers write to estimated_ready_time

NoTimes == [o \in Orders |-> NoTime]

\* A new engine: idle trays, nothing waits, nothing is counted.
NewEngine ==
    /\ slots = [s \in Slots |-> NoTask]
    /\ queue = {}
    /\ seq = 0
    /\ remaining = [o \in Orders |-> 0]
    /\ readyAt = NoTimes
    /\ eta = NoTimes

\* self._account(self._scheduler.tick(now), now), with the queue q and the
\* unit counts rem that the tick starts from.
TickAndAccount(q, rem) ==
    /\ slots' = TickSlots(slots, q, now)
    /\ queue' = TickQueue(slots, q, now)
    /\ remaining' = Accounted(slots, rem, now)
    /\ readyAt' = [o \in Orders |->
                      IF o \in MadeReady(slots, rem, now) THEN now ELSE readyAt[o]]

\* The locked part of enqueue: push, tick, estimate.
EnqueueLocked(o, specs) ==
    /\ TickAndAccount(queue \cup NewTasks(o, specs, seq),
                      [remaining EXCEPT ![o] = @ + Len(specs)])
    /\ seq' = seq + Len(specs)
    /\ eta' = LET ready == Project(slots', queue', now)
              IN  [x \in Orders |-> IF ready[x] = NoTime THEN eta[x] ELSE ready[x]]

\* What simulate answers for a hypothetical order, without a tick first.
Simulated(o, specs) ==
    Project(slots, queue \cup NewTasks(o, specs, seq), now)[o]

=============================================================================
