------------------------------ MODULE Estimates ------------------------------
(***************************************************************************)
(* orders.estimated_ready_time: the estimates that a customer reads.       *)
(*                                                                         *)
(* The engine of module KitchenState computes them under its lock; a       *)
(* placement, a payment and the recovery after a restart write them to the *)
(* table later, a row at a time, in a transaction of their own.  Between   *)
(* the two, other payments and the kitchen go on, time passes, and the     *)
(* menu may be given new bake times.                                       *)
(*                                                                         *)
(* Of an order's status the module tells apart what the writes depend on:  *)
(* "queued" stands for QUEUED and BAKING alike.  Each order is of an item  *)
(* of its own.                                                             *)
(***************************************************************************)
EXTENDS KitchenState

CONSTANTS
    Priority,      \* priority_level of each order
    Units,         \* number of snacks in each order
    BakeTimes,     \* the bake times an item may be given
    FirstBake,     \* the bake time of each order's item at the start
    Requests,      \* payments served at the same time
    MaxTime,       \* bound: the clock stops here
    MaxPayments,   \* bound: payments begun over the whole run
    MaxPatches,    \* bound: bake times patched
    MaxFaults,     \* bound: payments failed by the database
    MaxCrashes     \* bound: restarts of the process

NoOne == "no one"  \* the owner of a row that is not locked

ASSUME EstimatesAssumption ==
    /\ Orders \subseteq Nat
    /\ Priority \in [Orders -> PriorityLevel]
    /\ Units \in [Orders -> Nat \ {0}]
    /\ BakeTimes \subseteq Nat \ {0}
    /\ FirstBake \in [Orders -> BakeTimes]
    /\ NoOne \notin Requests

VARIABLES
    menu,        \* effective_bake_seconds of each order's item
    status,      \* orders.status as committed
    stored,      \* orders.estimated_ready_time as committed, NoTime for null
    rowLock,     \* which transaction has updated the order's row
    phase,       \* "down", "recovering" or "up"
    toRecover,   \* the rest of list_active's answer
    answer,      \* recover_orders: what the last enqueue returned
    req,         \* where each payment is
    missed,      \* history: the orders that were done before the recovery that
                 \* enqueued them wrote its estimates
    settled,     \* history: the last payment that wrote estimates did so alone
    payments, patches, faults, crashes

kitchen == <<slots, queue, seq, remaining, readyAt, eta>>
rows    == <<status, stored, rowLock>>
process == <<phase, toRecover, answer, missed>>
bounds  == <<payments, patches, faults, crashes>>
vars == <<now, kitchen, menu, rows, process, req, settled, bounds>>

Idle == [at |-> "idle"]
ReqStates ==
    {Idle}
    \cup [at: {"checked"}, order: Orders]
    \cup [at: {"flushed"}, order: Orders, bake: BakeTimes]
    \cup [at: {"writing"}, order: Orders, etas: [Orders -> Nat \cup {NoTime}],
          others: Seq(Orders), alone: BOOLEAN]

Init ==
    /\ now = 0
    /\ NewEngine
    /\ menu = FirstBake
    /\ status = [o \in Orders |-> "none"]
    /\ stored = NoTimes
    /\ rowLock = [o \in Orders |-> NoOne]
    /\ phase = "up"
    /\ toRecover = {}
    /\ answer = NoTimes
    /\ missed = {}
    /\ req = [r \in Requests |-> Idle]
    /\ settled = TRUE
    /\ payments = 0 /\ patches = 0 /\ faults = 0 /\ crashes = 0

\* build_task_specs: one bake per snack.
OrderSpecs(o, bake) == [i \in 1..Units[o] |-> <<Priority[o], bake>>]

\* What the enqueue of this step returns.
Returned == Project(slots', queue', now)

-----------------------------------------------------------------------------

\* place_order: the provisional estimate.  Order ids are numbered as placed.
Place(o) ==
    /\ phase = "up"
    /\ status[o] = "none"
    /\ \A p \in Orders : p < o => status[p] # "none"
    /\ status' = [status EXCEPT ![o] = "pending_payment"]
    /\ stored' = [stored EXCEPT ![o] = Simulated(o, OrderSpecs(o, menu[o]))]
    /\ UNCHANGED <<now, kitchen, menu, rowLock, process, req, settled, bounds>>

\* An item is given another bake time; no estimate is computed anew.
Patch(o, bake) ==
    /\ phase = "up"
    /\ patches < MaxPatches
    /\ menu[o] # bake
    /\ menu' = [menu EXCEPT ![o] = bake]
    /\ patches' = patches + 1
    /\ UNCHANGED <<now, kitchen, rows, process, req, settled, payments, faults, crashes>>

\* pay reads the order, which must be pending.
PayCheck(r, o) ==
    /\ phase = "up"
    /\ payments < MaxPayments
    /\ req[r] = Idle
    /\ status[o] = "pending_payment"
    /\ req' = [req EXCEPT ![r] = [at |-> "checked", order |-> o]]
    /\ payments' = payments + 1
    /\ UNCHANGED <<now, kitchen, menu, rows, process, settled, patches, faults, crashes>>

\* The new status is flushed, which locks the row, and the bake time is read.
PayFlush(r) ==
    /\ req[r].at = "checked"
    /\ LET o == req[r].order
       IN  /\ rowLock[o] = NoOne
           /\ rowLock' = [rowLock EXCEPT ![o] = r]
           /\ req' = [req EXCEPT ![r] = [at |-> "flushed", order |-> o, bake |-> menu[o]]]
    /\ UNCHANGED <<now, kitchen, menu, status, stored, process, settled, bounds>>

\* engine.enqueue: its answer is kept for the writes that follow.
PayEnqueue(r) ==
    /\ req[r].at = "flushed"
    /\ LET o == req[r].order
           overlapping == {p \in Requests : req[p].at = "writing"}
       IN  /\ EnqueueLocked(o, OrderSpecs(o, req[r].bake))
           /\ req' = [p \in Requests |->
                IF p = r
                THEN [at |-> "writing", order |-> o, etas |-> Returned,
                      others |-> EtaKeysBut(o, slots', queue'),
                      alone |-> overlapping = {}]
                ELSE IF p \in overlapping THEN [req[p] EXCEPT !.alone = FALSE]
                ELSE req[p]]
    /\ UNCHANGED <<now, menu, rows, process, settled, bounds>>

\* Mutant: update_estimates passes over the orders of the other customers.
MutPayWrite(r) ==
    /\ req[r].at = "writing"
    /\ req[r].others # << >>
    /\ req' = [req EXCEPT ![r].others = Tail(@)]
    /\ UNCHANGED <<now, kitchen, menu, rows, process, settled, bounds>>

\* update_estimates: the next row, if its order is queued or baking.
PayWrite(r) ==
    /\ req[r].at = "writing"
    /\ req[r].others # << >>
    /\ LET o == Head(req[r].others)
       IN  IF status[o] = "queued"
           THEN rowLock[o] \in {NoOne, r} /\ rowLock' = [rowLock EXCEPT ![o] = r]
           ELSE UNCHANGED rowLock
    /\ req' = [req EXCEPT ![r].others = Tail(@)]
    /\ UNCHANGED <<now, kitchen, menu, status, stored, process, settled, bounds>>

Released(r) == [o \in Orders |-> IF rowLock[o] = r THEN NoOne ELSE rowLock[o]]

\* Mutant: the order is given the status of its payment.
MutPayCommit(r) ==
    /\ req[r].at = "writing"
    /\ req[r].others = << >>
    /\ status[req[r].order] = "pending_payment"
    /\ status' = [status EXCEPT ![req[r].order] = "confirmed"]
    /\ stored' = [o \in Orders |-> IF rowLock[o] = r THEN req[r].etas[o] ELSE stored[o]]
    /\ rowLock' = Released(r)
    /\ req' = [req EXCEPT ![r] = Idle]
    /\ settled' = req[r].alone
    /\ UNCHANGED <<now, kitchen, menu, process, bounds>>

\* The transaction commits: the rows it has locked get their new estimates.
PayCommit(r) ==
    /\ req[r].at = "writing"
    /\ req[r].others = << >>
    /\ status[req[r].order] = "pending_payment"
    /\ status' = [status EXCEPT ![req[r].order] = "queued"]
    /\ stored' = [o \in Orders |-> IF rowLock[o] = r THEN req[r].etas[o] ELSE stored[o]]
    /\ rowLock' = Released(r)
    /\ req' = [req EXCEPT ![r] = Idle]
    /\ settled' = req[r].alone
    /\ UNCHANGED <<now, kitchen, menu, process, bounds>>

\* The transaction is rolled back; what was enqueued stays.
Rollback(r) ==
    /\ rowLock' = Released(r)
    /\ req' = [req EXCEPT ![r] = Idle]
    /\ settled' = (settled /\ req[r].at # "writing")
    /\ UNCHANGED <<now, kitchen, menu, status, stored, process, payments, patches, crashes>>

\* The order has been paid for in the meantime: UNIQUE(order_id).
PayRefused(r) ==
    /\ req[r].at = "writing"
    /\ req[r].others = << >>
    /\ status[req[r].order] # "pending_payment"
    /\ Rollback(r)
    /\ UNCHANGED faults

\* The database fails a statement or the commit, or breaks a deadlock.
PayFails(r) ==
    /\ req[r].at \in {"flushed", "writing"}
    /\ faults < MaxFaults
    /\ faults' = faults + 1
    /\ Rollback(r)

-----------------------------------------------------------------------------

\* The kitchen's loop ticks, here at any moment.
Tick ==
    /\ phase = "up"
    /\ TickAndAccount(queue, remaining)
    /\ UNCHANGED <<now, seq, eta, menu, rows, process, req, settled, bounds>>

\* ... and writes that an order is ready.
WriteReady(o) ==
    /\ phase = "up"
    /\ status[o] = "queued"
    /\ readyAt[o] # NoTime
    /\ rowLock[o] = NoOne
    /\ status' = [status EXCEPT ![o] = "ready"]
    /\ UNCHANGED <<now, kitchen, menu, stored, rowLock, process, req, settled, bounds>>

AdvanceClock ==
    /\ now < MaxTime
    /\ now' = now + 1
    /\ UNCHANGED <<kitchen, menu, rows, process, req, settled, bounds>>

\* The process ends; open transactions are rolled back.
Crash ==
    /\ phase # "down"
    /\ crashes < MaxCrashes
    /\ crashes' = crashes + 1
    /\ slots' = [s \in Slots |-> NoTask]
    /\ queue' = {}
    /\ seq' = 0
    /\ remaining' = [o \in Orders |-> 0]
    /\ readyAt' = NoTimes
    /\ eta' = NoTimes
    /\ rowLock' = [o \in Orders |-> NoOne]
    /\ phase' = "down"
    /\ toRecover' = {}
    /\ answer' = NoTimes
    /\ missed' = {}
    /\ req' = [r \in Requests |-> Idle]
    /\ UNCHANGED <<now, menu, status, stored, settled, payments, patches, faults>>

StartUp ==
    /\ phase = "down"
    /\ phase' = "recovering"
    /\ toRecover' = {o \in Orders : status[o] = "queued"}
    /\ UNCHANGED <<now, kitchen, menu, rows, answer, missed, req, settled, bounds>>

\* recover_orders enqueues the oldest order that is left, at the bake time its
\* item has now, and keeps what this enqueue returns instead of the last one.
Recover ==
    /\ phase = "recovering"
    /\ toRecover # {}
    /\ LET o == Least(toRecover)
       IN  /\ EnqueueLocked(o, OrderSpecs(o, menu[o]))
           /\ toRecover' = toRecover \ {o}
    /\ answer' = Returned
    /\ UNCHANGED <<now, menu, rows, phase, missed, req, settled, bounds>>

\* A tick of a later enqueue took out the last of these orders' units: the last
\* answer does not have them.
DoneUnwritten ==
    {o \in Orders : status[o] = "queued" /\ remaining[o] = 0 /\ readyAt[o] # NoTime}

\* Mutant: the recomputed estimates are not written.
MutOpen ==
    /\ phase = "recovering"
    /\ toRecover = {}
    /\ settled' = TRUE
    /\ missed' = DoneUnwritten
    /\ phase' = "up"
    /\ UNCHANGED <<now, kitchen, menu, rows, toRecover, answer, req, bounds>>

\* ... then writes them all, commits, and requests are served.
Open ==
    /\ phase = "recovering"
    /\ toRecover = {}
    /\ stored' = [o \in Orders |->
                     IF status[o] = "queued" /\ answer[o] # NoTime THEN answer[o] ELSE stored[o]]
    /\ settled' = TRUE
    /\ missed' = DoneUnwritten
    /\ phase' = "up"
    /\ UNCHANGED <<now, kitchen, menu, status, rowLock, toRecover, answer, req, bounds>>

Next ==
    \/ \E o \in Orders : Place(o) \/ WriteReady(o) \/ \E b \in BakeTimes : Patch(o, b)
    \/ \E r \in Requests :
          \/ \E o \in Orders : PayCheck(r, o)
          \/ PayFlush(r) \/ PayEnqueue(r) \/ PayWrite(r)
          \/ PayCommit(r) \/ PayRefused(r) \/ PayFails(r)
    \/ Tick \/ AdvanceClock
    \/ Crash \/ StartUp \/ Recover \/ Open

Spec == Init /\ [][Next]_vars

-----------------------------------------------------------------------------
(* Properties.                                                             *)

\* Every variable has its type.
TypeOK ==
    /\ now \in Nat
    /\ slots \in [Slots -> Baking \cup {NoTask}]
    /\ queue \in SUBSET BakeTask
    /\ seq \in Nat
    /\ remaining \in [Orders -> Nat]
    /\ {readyAt, eta, stored, answer} \subseteq [Orders -> Nat \cup {NoTime}]
    /\ menu \in [Orders -> BakeTimes]
    /\ status \in [Orders -> {"none", "pending_payment", "queued", "ready"}]
    /\ rowLock \in [Orders -> Requests \cup {NoOne}]
    /\ phase \in {"down", "recovering", "up"}
    /\ toRecover \subseteq Orders
    /\ missed \subseteq Orders
    /\ req \in [Requests -> ReqStates]
    /\ settled \in BOOLEAN

InProgress == {o \in Orders : status[o] = "queued" /\ remaining[o] > 0}

\* A paid order always has an estimate, and the one its customer reads is never
\* later than what the kitchen now expects: whatever the order in which payments
\* write, roll back or restart, the column lags behind in one direction only.
StoredNeverLate ==
    phase = "up" =>
        \A o \in InProgress : stored[o] # NoTime /\ stored[o] <= Project(slots, queue, now)[o]

\* The last estimate that a customer could read before the order was ready was
\* not later than when it was: the kitchen never has it done sooner than it told,
\* and no payment that was under way writes a later time over an order that is
\* done.  Orders that recovery has missed are excepted: it writes what its last
\* enqueue returned (recovery.py:33), and they were done by then.
StoredNotPastReady ==
    phase = "up" =>
        \A o \in Orders \ missed :
            status[o] \in {"queued", "ready"} /\ remaining[o] = 0 /\ readyAt[o] # NoTime =>
                stored[o] # NoTime /\ stored[o] <= readyAt[o]

NoneWriting == \A r \in Requests : req[r].at # "writing"

\* Once a payment or a recovery has written estimates while no other payment
\* did, every order in the kitchen has in the table the last one computed, also
\* when earlier payments had left theirs in disorder.
EstimatesSettle ==
    phase = "up" /\ NoneWriting /\ settled => \A o \in InProgress : stored[o] = eta[o]

\* README.md:27, "other orders' ETAs are recomputed and persisted": with no
\* payment under way, every order in the kitchen has its last estimate.
EstimatesPersisted ==
    phase = "up" /\ NoneWriting => \A o \in InProgress : stored[o] = eta[o]

=============================================================================
