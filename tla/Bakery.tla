------------------------------- MODULE Bakery -------------------------------
(***************************************************************************)
(* The backend as a whole: the order and payment tables, the in-memory     *)
(* kitchen, its background loop, the payment and pickup requests, and the  *)
(* process being stopped and started again.                                *)
(*                                                                         *)
(* Real time is left to module KitchenEngine.  Here a bake is either still *)
(* going on or over, so the scheduler's operators are used with the clock  *)
(* at 0 and bakes of one tick; the loop, whose longest sleep is five       *)
(* seconds, may wake at any moment.                                        *)
(*                                                                         *)
(* A request runs in one database transaction (READ COMMITTED) and gives   *)
(* way at each await, that is at each statement it sends.  A row it has    *)
(* updated stays locked, and its new value unseen, until it commits or     *)
(* rolls back; an UPDATE of a row locked by another waits.                 *)
(***************************************************************************)
EXTENDS Scheduler, SequencesExt

CONSTANTS
    Priority,      \* priority_level of each order
    Units,         \* number of snacks in each order
    Requests,      \* requests served at the same time
    MaxPayments,   \* bound: payment requests over the whole run
    MaxFaults,     \* bound: database errors over the whole run
    MaxCrashes     \* bound: restarts of the process over the whole run

Loop == "loop"     \* the background task, as the owner of row locks
NoOne == "no one"  \* the owner of a row that is not locked

ASSUME BakeryAssumption ==
    /\ Orders \subseteq Nat
    /\ Priority \in [Orders -> PriorityLevel]
    /\ Units \in [Orders -> Nat \ {0}]
    /\ Requests \cap {Loop, NoOne} = {}
    /\ MaxPayments \in Nat
    /\ MaxFaults \in Nat
    /\ MaxCrashes \in Nat

VARIABLES
    \* the database
    status,      \* orders.status as committed, "none" before the order is placed
    paid,        \* orders with a row in payments
    rowLock,     \* which transaction has updated the order's row
    \* the process
    phase,       \* "down", "recovering" (lifespan, before the yield) or "up"
    toRecover,   \* the rest of list_active's answer
    slots, queue, seq, remaining,
    readyAt,     \* the keys of _ready_at in insertion order
    persisted,   \* _persisted, "none" for an absent key
    loop,        \* _run: "off", "reconcile", "persist", "sleep", or "dead"
    batch,       \* transitions _persist has still to write
    changed,     \* transitions it has written
    req,         \* where each request is
    \* bounds and history
    payments,    \* payment requests begun
    faults,
    crashes,
    baked,       \* units of an order baked since the kitchen last took it up: a
                 \* stop before it is ready starts the count over (see Crash)
    rolledBack,  \* orders with a payment that rolled back after its enqueue
    handed       \* pickups of an order answered with success

database == <<status, paid, rowLock>>
kitchen  == <<slots, queue, seq, remaining, readyAt, baked>>
bounds   == <<payments, faults, crashes>>
looping  == <<loop, batch, changed, persisted>>
vars == <<database, phase, toRecover, kitchen, looping, req, bounds, rolledBack, handed>>

Active == {"queued", "baking"}

Idle == [at |-> "idle"]
ReqStates ==
    {Idle}
    \cup [at: {"pay_checked", "pay_flushed", "pickup_checked"}, order: Orders]
    \cup [at: {"pay_estimates"}, order: Orders, others: Seq(Orders)]

Transition == [order: Orders, status: {"baking", "ready"}]

-----------------------------------------------------------------------------

\* A KitchenEngine with nothing in it, and its loop not started.
NewEngine ==
    /\ slots = [s \in Slots |-> NoTask]
    /\ queue = {}
    /\ seq = 0
    /\ remaining = [o \in Orders |-> 0]
    /\ readyAt = << >>
    /\ persisted = [o \in Orders |-> "none"]
    /\ loop = "off"
    /\ batch = << >>
    /\ changed = {}

Init ==
    /\ status = [o \in Orders |-> "none"]
    /\ paid = {}
    /\ rowLock = [o \in Orders |-> NoOne]
    /\ phase = "down"
    /\ toRecover = {}
    /\ NewEngine
    /\ req = [r \in Requests |-> Idle]
    /\ payments = 0 /\ faults = 0 /\ crashes = 0
    /\ baked = [o \in Orders |-> 0]
    /\ rolledBack = {}
    /\ handed = [o \in Orders |-> 0]

-----------------------------------------------------------------------------
(* The engine.                                                             *)

\* tick and _account on the queue q and the unit counts rem.  Orders enter
\* _ready_at in the order their last unit is taken out of the slots.
TickAndAccount(q, rem) ==
    LET news == MadeReady(slots, rem, 0) \ ToSet(readyAt)
        last(o) == Max({s \in Finished(slots, 0) : slots[s].task.order = o})
    IN  /\ slots' = TickSlots(slots, q, 0)
        /\ queue' = TickQueue(slots, q, 0)
        /\ remaining' = Accounted(slots, rem, 0)
        /\ readyAt' = readyAt \o InOrder(news, [o \in news |-> last(o)])
        /\ baked' = [o \in Orders |-> baked[o] + DoneUnits(slots, 0, o)]

\* build_task_specs: one bake per snack, all at the order's priority.
OrderSpecs(o) == [i \in 1..Units[o] |-> <<Priority[o], 1>>]

\* engine.enqueue for the units of o.
EngineEnqueue(o) ==
    /\ TickAndAccount(queue \cup NewTasks(o, OrderSpecs(o), seq),
                      [remaining EXCEPT ![o] = @ + Units[o]])
    /\ seq' = seq + Units[o]

\* The statuses the kitchen knows of orders and has not written: in slot order
\* for the orders on trays, then as they became ready.
PendingTransitions ==
    LET ready == ToSet(readyAt)
        onTrays == OrdersOnTrays(slots)
        news == {o \in ready : persisted[o] # "ready"}
                \cup {o \in onTrays \ ready : persisted[o] = "none"}
        place == [o \in news |->
                     IF o \in onTrays THEN Least(TraysOf(slots, o))
                     ELSE Cardinality(Slots) + Least({i \in DOMAIN readyAt : readyAt[i] = o})]
    IN  [i \in 1..Cardinality(news) |->
            LET o == InOrder(news, place)[i]
            IN  [order |-> o, status |-> IF o \in ready THEN "ready" ELSE "baking"]]

\* A bake under way reaches its end.
BakeElapses(s) ==
    /\ s \in BusySlots(slots)
    /\ slots[s].finish_at > 0
    /\ slots' = [slots EXCEPT ![s].finish_at = 0]
    /\ UNCHANGED <<database, phase, toRecover, queue, seq, remaining, readyAt, baked,
                   looping, req, bounds, rolledBack, handed>>

-----------------------------------------------------------------------------
(* Row locks.                                                              *)

\* Mutant: the kitchen may finish only orders it has written as baking.
MutAllowedPrev(st) == IF st = "baking" THEN {"queued"} ELSE {"baking"}

\* Mutant: the kitchen writes what it knows whatever the status.
MutAllowedPrevAny(st) == {"pending_payment", "queued", "baking"} \ {st}

\* _ALLOWED_PREV: the statuses advance_status moves an order from.
AllowedPrev(st) == IF st = "baking" THEN {"queued"} ELSE {"queued", "baking"}

Lockable(o, actor) == rowLock[o] \in {NoOne, actor}

\* Mutant: a transaction that is given up keeps its locks.
MutReleased(actor) == rowLock

\* Unlocks all the rows of a transaction.
Released(actor) == [o \in Orders |-> IF rowLock[o] = actor THEN NoOne ELSE rowLock[o]]

\* The row that the next UPDATE of an actor's transaction has to lock.  One
\* whose WHERE clause asks for a status passes over a row whose committed
\* status is another, without waiting for it.
Wants(actor, o) ==
    \/ /\ actor = Loop /\ loop = "persist" /\ batch # << >>
       /\ o = Head(batch).order
       /\ status[o] \in AllowedPrev(Head(batch).status)
    \/ /\ actor \in Requests /\ req[actor].at \in {"pay_checked", "pickup_checked"}
       /\ o = req[actor].order
    \/ /\ actor \in Requests /\ req[actor].at = "pay_estimates" /\ req[actor].others # << >>
       /\ o = Head(req[actor].others)
       /\ status[o] \in Active

Actors == Requests \cup {Loop}

WaitsFor(actor) == {rowLock[o] : o \in {p \in Orders : Wants(actor, p)}} \ {NoOne, actor}

\* The actors that wait for one another in a circle with this one.
InDeadlock(actor) ==
    LET reach[n \in 0..Cardinality(Actors)] ==
            IF n = 0 THEN WaitsFor(actor)
            ELSE reach[n - 1] \cup UNION {WaitsFor(a) : a \in reach[n - 1]}
    IN  actor \in reach[Cardinality(Actors)]

-----------------------------------------------------------------------------
(* Orders and pickups.                                                     *)

\* Mutant: an order is enqueued when it is placed.
MutPlace(o) ==
    /\ phase = "up"
    /\ status[o] = "none"
    /\ \A p \in Orders : p < o => status[p] # "none"
    /\ status' = [status EXCEPT ![o] = "pending_payment"]
    /\ EngineEnqueue(o)
    /\ UNCHANGED <<paid, rowLock, phase, toRecover, looping, req, bounds,
                   rolledBack, handed>>

\* place_order: the row is inserted; simulate changes nothing.  Order ids are
\* numbered as they are placed.
Place(o) ==
    /\ phase = "up"
    /\ status[o] = "none"
    /\ \A p \in Orders : p < o => status[p] # "none"
    /\ status' = [status EXCEPT ![o] = "pending_payment"]
    /\ UNCHANGED <<paid, rowLock, phase, toRecover, kitchen, looping, req, bounds,
                   rolledBack, handed>>

\* complete_order reads the order; one that is not ready is refused (409).
PickupCheck(r, o) ==
    /\ phase = "up"
    /\ req[r] = Idle
    /\ status[o] = "ready"
    /\ req' = [req EXCEPT ![r] = [at |-> "pickup_checked", order |-> o]]
    /\ UNCHANGED <<database, phase, toRecover, kitchen, looping, bounds, rolledBack, handed>>

\* ... sets COMPLETED on what it read and commits: an UPDATE by primary key.
PickupCommit(r) ==
    /\ req[r].at = "pickup_checked"
    /\ Lockable(req[r].order, r)
    /\ status' = [status EXCEPT ![req[r].order] = "completed"]
    /\ handed' = [handed EXCEPT ![req[r].order] = @ + 1]
    /\ req' = [req EXCEPT ![r] = Idle]
    /\ UNCHANGED <<paid, rowLock, phase, toRecover, kitchen, looping, bounds, rolledBack>>

-----------------------------------------------------------------------------
(* Payments: PaymentService.pay.                                           *)

\* The order is read and must be pending; the charge always succeeds.
PayCheck(r, o) ==
    /\ phase = "up"
    /\ payments < MaxPayments
    /\ req[r] = Idle
    /\ status[o] = "pending_payment"
    /\ req' = [req EXCEPT ![r] = [at |-> "pay_checked", order |-> o]]
    /\ payments' = payments + 1
    /\ UNCHANGED <<database, phase, toRecover, kitchen, looping, faults, crashes,
                   rolledBack, handed>>

\* The status is set to QUEUED; order_specs reads the menu, which first sends
\* the UPDATE (autoflush): it is by primary key and takes the row's lock.
PayFlush(r) ==
    /\ req[r].at = "pay_checked"
    /\ Lockable(req[r].order, r)
    /\ rowLock' = [rowLock EXCEPT ![req[r].order] = r]
    /\ req' = [req EXCEPT ![r].at = "pay_flushed"]
    /\ UNCHANGED <<status, paid, phase, toRecover, kitchen, looping, bounds,
                   rolledBack, handed>>

\* engine.enqueue, and the orders other than this one whose estimate it returns.
PayEnqueue(r) ==
    /\ req[r].at = "pay_flushed"
    /\ EngineEnqueue(req[r].order)
    /\ req' = [req EXCEPT ![r] =
                 [at |-> "pay_estimates", order |-> req[r].order,
                  others |-> EtaKeysBut(req[r].order, slots', queue')]]
    /\ UNCHANGED <<database, phase, toRecover, looping, bounds, rolledBack, handed>>

\* update_estimates: the next order's row, if its status is QUEUED or BAKING.
PayEstimate(r) ==
    /\ req[r].at = "pay_estimates"
    /\ req[r].others # << >>
    /\ LET o == Head(req[r].others)
       IN  IF status[o] \in Active
           THEN Lockable(o, r) /\ rowLock' = [rowLock EXCEPT ![o] = r]
           ELSE UNCHANGED rowLock
    /\ req' = [req EXCEPT ![r].others = Tail(@)]
    /\ UNCHANGED <<status, paid, phase, toRecover, kitchen, looping, bounds,
                   rolledBack, handed>>

\* A payment of o has enqueued its units and not committed yet.
BeingEnqueued(o) == \E r \in Requests : req[r].at = "pay_estimates" /\ req[r].order = o

\* The transaction of a payment is rolled back.
PayRollback(r) ==
    /\ rowLock' = Released(r)
    /\ rolledBack' = IF req[r].at = "pay_estimates"
                     THEN rolledBack \cup {req[r].order} ELSE rolledBack
    /\ req' = [req EXCEPT ![r] = Idle]
    /\ UNCHANGED <<status, paid, phase, toRecover, kitchen, looping, payments, crashes, handed>>

\* Mutant: there is no unique constraint on payment.order_id.
MutPayCommit(r) ==
    /\ req[r].at = "pay_estimates"
    /\ req[r].others = << >>
    /\ status' = [status EXCEPT ![req[r].order] = "queued"]
    /\ paid' = paid \cup {req[r].order}
    /\ rowLock' = Released(r)
    /\ req' = [req EXCEPT ![r] = Idle]
    /\ UNCHANGED <<phase, toRecover, kitchen, looping, bounds, rolledBack, handed>>

\* payments.add: the payment is inserted and the transaction commits.
PayCommit(r) ==
    /\ req[r].at = "pay_estimates"
    /\ req[r].others = << >>
    /\ req[r].order \notin paid
    /\ status' = [status EXCEPT ![req[r].order] = "queued"]
    /\ paid' = paid \cup {req[r].order}
    /\ rowLock' = Released(r)
    /\ req' = [req EXCEPT ![r] = Idle]
    /\ UNCHANGED <<phase, toRecover, kitchen, looping, bounds, rolledBack, handed>>

\* ... or the insert violates UNIQUE(order_id).
PayRefused(r) ==
    /\ req[r].at = "pay_estimates"
    /\ req[r].others = << >>
    /\ req[r].order \in paid
    /\ PayRollback(r)
    /\ UNCHANGED faults

\* The database fails a statement of the payment, or its commit.
PayFails(r) ==
    /\ req[r].at \in {"pay_flushed", "pay_estimates"}
    /\ faults < MaxFaults
    /\ faults' = faults + 1
    /\ PayRollback(r)

\* The database aborts the payment to break a deadlock.
PayDeadlockVictim(r) ==
    /\ req[r].at = "pay_estimates"
    /\ InDeadlock(r)
    /\ PayRollback(r)
    /\ UNCHANGED faults

-----------------------------------------------------------------------------
(* The loop: _run, _reconcile and _persist.                                *)

\* Under the lock: tick and collect the transitions to write.  With none, the
\* loop goes to sleep without giving way.
Reconcile ==
    /\ loop = "reconcile"
    /\ UNCHANGED <<database, phase, toRecover, seq, persisted, req, bounds,
                   rolledBack, handed>>
    /\ TickAndAccount(queue, remaining)
    /\ batch' = PendingTransitions'
    /\ changed' = {}
    /\ loop' = IF batch' = << >> THEN "sleep" ELSE "persist"

\* Mutant: every transition counts as written.
MutPersistRow ==
    /\ loop = "persist"
    /\ batch # << >>
    /\ LET t == Head(batch)
       IN  IF status[t.order] \in AllowedPrev(t.status)
           THEN /\ Lockable(t.order, Loop)
                /\ rowLock' = [rowLock EXCEPT ![t.order] = Loop]
                /\ changed' = changed \cup {t}
           ELSE changed' = changed \cup {t} /\ UNCHANGED rowLock
    /\ batch' = Tail(batch)
    /\ UNCHANGED <<status, paid, phase, toRecover, kitchen, persisted, loop, req, bounds,
                   rolledBack, handed>>

\* advance_status: the row is updated if its status allows it.
PersistRow ==
    /\ loop = "persist"
    /\ batch # << >>
    /\ LET t == Head(batch)
       IN  IF status[t.order] \in AllowedPrev(t.status)
           THEN /\ Lockable(t.order, Loop)
                /\ rowLock' = [rowLock EXCEPT ![t.order] = Loop]
                /\ changed' = changed \cup {t}
           ELSE UNCHANGED <<rowLock, changed>>
    /\ batch' = Tail(batch)
    /\ UNCHANGED <<status, paid, phase, toRecover, kitchen, persisted, loop, req, bounds,
                   rolledBack, handed>>

\* Mutant: an order gets the state of its tasks (DONE), not its own (READY).
MutAdvanced(map) ==
    [o \in Orders |-> IF [order |-> o, status |-> "ready"] \in changed THEN "done"
                      ELSE IF [order |-> o, status |-> "baking"] \in changed THEN "baking"
                      ELSE map[o]]

\* What a map from orders becomes when the written transitions are put in it.
Advanced(map) ==
    [o \in Orders |-> IF \E t \in changed : t.order = o
                      THEN (CHOOSE t \in changed : t.order = o).status ELSE map[o]]

\* The transaction commits; only then does _persisted learn what was written.
PersistCommit ==
    /\ loop = "persist"
    /\ batch = << >>
    /\ status' = Advanced(status)
    /\ persisted' = Advanced(persisted)
    /\ rowLock' = Released(Loop)
    /\ changed' = {}
    /\ loop' = "sleep"
    /\ UNCHANGED <<paid, phase, toRecover, kitchen, batch, req, bounds, rolledBack, handed>>

\* Nothing catches what _persist raises: the transaction is rolled back and
\* the task that runs the loop is over.
PersistRaises ==
    /\ loop = "persist"
    /\ rowLock' = Released(Loop)
    /\ batch' = << >>
    /\ changed' = {}
    /\ loop' = "dead"
    /\ UNCHANGED <<status, paid, phase, toRecover, kitchen, persisted, req, payments, crashes,
                   rolledBack, handed>>

PersistFails ==
    /\ faults < MaxFaults
    /\ faults' = faults + 1
    /\ PersistRaises

PersistDeadlockVictim ==
    /\ InDeadlock(Loop)
    /\ PersistRaises
    /\ UNCHANGED faults

\* wait_for returns, woken by an enqueue or after a timeout.
Wake ==
    /\ loop = "sleep"
    /\ loop' = "reconcile"
    /\ UNCHANGED <<database, phase, toRecover, kitchen, batch, changed, persisted, req,
                   bounds, rolledBack, handed>>

-----------------------------------------------------------------------------
(* Stopping and starting: the lifespan of the application.                 *)

\* The process ends, at any point: what is in memory is gone and open
\* transactions are rolled back.  An order that is not yet ready in the table
\* is taken up anew by recovery, all its units with it, those that were baked
\* before the stop included: baked, the count of what is baked since, starts
\* over with it.
Crash ==
    /\ phase # "down"
    /\ crashes < MaxCrashes
    /\ crashes' = crashes + 1
    /\ phase' = "down"
    /\ toRecover' = {}
    /\ rowLock' = [o \in Orders |-> NoOne]
    /\ slots' = [s \in Slots |-> NoTask]
    /\ queue' = {}
    /\ seq' = 0
    /\ remaining' = [o \in Orders |-> 0]
    /\ readyAt' = << >>
    /\ persisted' = [o \in Orders |-> "none"]
    /\ loop' = "off"
    /\ batch' = << >>
    /\ changed' = {}
    /\ req' = [r \in Requests |-> Idle]
    /\ baked' = [o \in Orders |-> IF status[o] \in {"ready", "completed"} THEN baked[o] ELSE 0]
    /\ rolledBack' = {o \in rolledBack \cup {p \in Orders : BeingEnqueued(p)} :
                         status[o] \in {"ready", "completed"}}
    /\ UNCHANGED <<status, paid, payments, faults, handed>>

\* Mutant: only queued orders are recovered.
MutStartUp ==
    /\ phase = "down"
    /\ phase' = "recovering"
    /\ toRecover' = {o \in Orders : status[o] = "queued"}
    /\ UNCHANGED <<database, kitchen, looping, req, bounds, rolledBack, handed>>

\* Mutant: orders that are ready are recovered too.
MutStartUpReady ==
    /\ phase = "down"
    /\ phase' = "recovering"
    /\ toRecover' = {o \in Orders : status[o] \in Active \cup {"ready"}}
    /\ UNCHANGED <<database, kitchen, looping, req, bounds, rolledBack, handed>>

\* recover_orders reads the active orders.
StartUp ==
    /\ phase = "down"
    /\ phase' = "recovering"
    /\ toRecover' = {o \in Orders : status[o] \in Active}
    /\ UNCHANGED <<database, kitchen, looping, req, bounds, rolledBack, handed>>

\* The oldest of them is enqueued, which ticks.
Recover ==
    /\ phase = "recovering"
    /\ toRecover # {}
    /\ EngineEnqueue(Min(toRecover))
    /\ toRecover' = toRecover \ {Min(toRecover)}
    /\ UNCHANGED <<database, phase, looping, req, bounds, rolledBack, handed>>

\* Recovery is over: the loop is started and requests are served.
Open ==
    /\ phase = "recovering"
    /\ toRecover = {}
    /\ phase' = "up"
    /\ loop' = "reconcile"
    /\ UNCHANGED <<database, toRecover, kitchen, batch, changed, persisted, req, bounds,
                   rolledBack, handed>>

-----------------------------------------------------------------------------

Next ==
    \/ \E o \in Orders : Place(o)
    \/ \E r \in Requests, o \in Orders : PayCheck(r, o) \/ PickupCheck(r, o)
    \/ \E r \in Requests :
          \/ PayFlush(r) \/ PayEnqueue(r) \/ PayEstimate(r)
          \/ PayCommit(r) \/ PayRefused(r) \/ PayFails(r) \/ PayDeadlockVictim(r)
          \/ PickupCommit(r)
    \/ \E s \in Slots : BakeElapses(s)
    \/ Reconcile \/ PersistRow \/ PersistCommit \/ PersistFails \/ PersistDeadlockVictim
    \/ Wake
    \/ Crash \/ StartUp \/ Recover \/ Open

Spec == Init /\ [][Next]_vars

\* What the program and the database do when they can: a bake ends, a request
\* that has begun goes on, the loop runs, a deadlock is broken, and a start that
\* has begun goes on.  Customers, errors and crashes are free, and so is
\* starting a process that is down: nothing in the repository does it
\* (docker-compose.yml has no restart policy).
Fairness ==
    /\ \A s \in Slots : WF_vars(BakeElapses(s))
    /\ \A r \in Requests :
          /\ WF_vars(PayFlush(r)) /\ WF_vars(PayEnqueue(r)) /\ WF_vars(PayEstimate(r))
          /\ WF_vars(PayCommit(r) \/ PayRefused(r))
          /\ WF_vars(PickupCommit(r))
    /\ WF_vars(Reconcile) /\ WF_vars(PersistRow) /\ WF_vars(PersistCommit) /\ WF_vars(Wake)
    /\ WF_vars((\E r \in Requests : PayDeadlockVictim(r)) \/ PersistDeadlockVictim)
    /\ WF_vars(Recover) /\ WF_vars(Open)

FairSpec == Spec /\ Fairness

-----------------------------------------------------------------------------
(* Properties.                                                             *)

\* Every variable has its type.
TypeOK ==
    /\ status \in [Orders -> {"none", "pending_payment", "queued", "baking", "ready",
                              "completed"}]
    /\ paid \subseteq Orders
    /\ rowLock \in [Orders -> Actors \cup {NoOne}]
    /\ phase \in {"down", "recovering", "up"}
    /\ toRecover \subseteq Orders
    /\ slots \in [Slots -> Baking \cup {NoTask}]
    /\ queue \in SUBSET BakeTask
    /\ seq \in Nat
    /\ remaining \in [Orders -> Nat]
    /\ readyAt \in Seq(Orders)
    /\ persisted \in [Orders -> {"none", "baking", "ready"}]
    /\ loop \in {"off", "reconcile", "persist", "sleep", "dead"}
    /\ batch \in Seq(Transition)
    /\ changed \subseteq Transition
    /\ req \in [Requests -> ReqStates]
    /\ payments \in 0..MaxPayments /\ faults \in 0..MaxFaults /\ crashes \in 0..MaxCrashes
    /\ baked \in [Orders -> Nat]
    /\ rolledBack \subseteq Orders
    /\ handed \in [Orders -> Nat]

InKitchen == {slots[s].task : s \in BusySlots(slots)} \cup queue

\* No order is lost: an order the database holds as queued or baking has units
\* in the kitchen or is known there to be ready, or recovery has yet to come to
\* it.  This is so across every error, restart and order of steps.
NoLostOrder ==
    phase # "down" =>
        \A o \in Orders :
            status[o] \in Active =>
                remaining[o] > 0 \/ o \in ToSet(readyAt) \/ o \in toRecover

\* Every unit of a paid order has been given to the kitchen once since the
\* kitchen last took the order up, whether its payment or recovery did so: each
\* is either baked since or still to be, unless a payment of that order was
\* rolled back after it had enqueued it.  It does not say that a unit is baked
\* once over restarts: recovery takes up an unfinished order whole
\* (recovery.py:25-33), and units finished before the stop are baked again.
UnitsTakenUpOnce ==
    phase # "down" =>
        \A o \in paid \ (rolledBack \cup toRecover) :
            ~BeingEnqueued(o) => baked[o] + remaining[o] = Units[o]

\* An order is shown as ready, and handed out, only when all its units have
\* been baked since the kitchen last took it up.
ReadyMeansBaked ==
    \A o \in Orders : status[o] \in {"ready", "completed"} => baked[o] >= Units[o]

StatusRank == [none |-> 0, pending_payment |-> 1, queued |-> 2, baking |-> 3, ready |-> 4,
               completed |-> 5]

\* The committed status of an order never goes back, although payments and
\* pickups write it by primary key on what they read several awaits before.
StatusNeverRegresses ==
    [][\A o \in Orders : StatusRank[status'[o]] >= StatusRank[status[o]]]_status

\* _persisted never runs ahead of the table: a transition it holds is not
\* tried again, so one that matched no row must not be in it.
PersistedIsDurable ==
    \A o \in Orders :
        persisted[o] # "none" => StatusRank[status[o]] >= StatusRank[persisted[o]]

\* A unit in the kitchen is paid for or its payment is about to commit, unless
\* a payment of its order was rolled back after it had enqueued it.
UnpaidOnlyAfterRollback ==
    \A t \in InKitchen : t.order \in paid \/ BeingEnqueued(t.order) \/ t.order \in rolledBack

\* A paid order gets ready, across stops and starts, unless the loop has died or
\* a process that is down is never started again.
PaidOrderGetsReady ==
    []<>(phase # "down") =>
      \A o \in Orders :
        status[o] = "queued" ~> (status[o] \in {"ready", "completed"} \/ loop = "dead")

\* Every request that has begun comes to an end: the locks that payments and
\* the loop take on one another's rows never hold one up for ever.
RequestsAnswered == \A r \in Requests : req[r] # Idle ~> req[r] = Idle

\* The orders whose snacks have all been baked since the kitchen took them up.
Made == {o \in Orders : baked[o] >= Units[o]}

LC == INSTANCE Lifecycle WITH made <- Made

\* The bakery implements the lifecycle of an order that its writes follow (see
\* Lifecycle: not the table of state_machine.py): whatever payments, pickups,
\* the loop and restarts do at once, each step of theirs takes every order along
\* it, pays for it once and shows it as ready only when it is made.
FollowsLifecycle == LC!Spec

-----------------------------------------------------------------------------
(* What the documentation or the code's own tables say and the code does   *)
(* not do.                                                                 *)

\* README.md:98 has one engine and one lock so that trays are not double-booked:
\* no order's units are baked more often than they were ordered.
NeverBakedTwice == \A o \in Orders : baked[o] <= Units[o]

\* README.md:101, "Unpaid orders never hold an oven", with the payment that is
\* about to commit counted as paid.
UnpaidNeverHoldsOven ==
    \A s \in BusySlots(slots) :
        slots[s].task.order \in paid \/ BeingEnqueued(slots[s].task.order)

\* README.md:29, "The kitchen persists progress": a paid order gets ready.
EveryPaidOrderGetsReady ==
    \A o \in Orders : status[o] = "queued" ~> status[o] \in {"ready", "completed"}

\* _TRANSITIONS of state_machine.py: where an order may go from each status.
Transitions ==
    [pending_payment |-> {"queued", "cancelled"}, queued |-> {"baking"},
     baking |-> {"ready"}, ready |-> {"completed"}, completed |-> {}]

\* state_machine.py:5 and the diagram of README.md:20 take a queued order to
\* BAKING only, and so on along the table: no status is passed over.
StatusFollowsTransitions ==
    [][\A o \in Orders :
          status'[o] # status[o] /\ status[o] # "none" =>
             status'[o] \in Transitions[status[o]]]_status

\* state_machine.py:8 lets no order leave COMPLETED, and a pickup of an order
\* that is not READY is refused (orders/router.py:70): it is handed out once.
HandedOutOnce == \A o \in Orders : handed[o] <= 1

=============================================================================
