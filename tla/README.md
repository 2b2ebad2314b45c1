# Snack Builders Bakery in TLA+

A verification project for the backend under `src/` of the repository: a menu, orders,
payments, and a kitchen that schedules bakes on a fixed set of trays. Paths below are relative
to `src/app/` unless they say otherwise.

1. [Inventory](#1-inventory)
2. [How the code runs](#2-how-the-code-runs-what-is-one-step)
3. [Modules](#3-modules)
4. [Runs](#4-runs-bounds-fairness)
5. [What the checks found](#5-what-the-checks-found)
6. [Proofs](#6-proofs)
7. [Plan](#7-plan)
8. [Not modelled](#8-not-modelled)

## 1. Inventory

| Component | State | Operations | Talks to |
|---|---|---|---|
| scheduler (`kitchen/scheduler.py`, `kitchen/models.py`) | slots (2 ovens × 3 trays), heap of `(priority, seq, task)` | `enqueue`, `tick`, `estimate`, `simulate` | nothing: pure, time is an argument |
| engine (`kitchen/engine.py`) | a scheduler, `_seq`, `_remaining`, `_ready_at`, `_persisted`, an event, a lock, the loop task | `enqueue`, `simulate`, `status`, `start`, `stop`; the loop `_run` → `_reconcile` → `_persist` | scheduler (under the lock), orders table (outside it) |
| recovery (`kitchen/recovery.py`, `main.py`) | none of its own | at start-up: enqueue every queued or baking order, oldest first, then write the estimates | orders and menu tables, engine |
| orders (`orders/`) | rows of `orders` and `order_item` | place, read, pick up; `advance_status`, `update_estimates`, `list_active` for the kitchen and payments | menu, engine (`simulate`) |
| payments (`payments/`) | rows of `payment`, unique per order | `pay`: check, set QUEUED, enqueue, rewrite the others' estimates, insert, commit | orders, menu, engine |
| session (`core/db.py`) | one transaction per request | commit, or rollback on any exception | PostgreSQL |
| menu (`menu/`) | rows of `menu_item` | list, create, update, delete unless referenced | orders (is it referenced?) |
| clock (`core/clock.py`) | time | `now` | engine, services |
| migrations (`src/migrations/`) | the schema and its version | `upgrade head`, `downgrade -1`, by hand | the tables that the models of all parts declare |
| routers, schemas, configuration, logging, telemetry, dashboards | none the properties are about | | |

What makes each correct, and what is hard about it:

* **scheduler** – a freed tray goes to the first unit by priority and arrival; a bake is never
  interrupted; a unit never waits next to a free tray; an estimate is what really happens if
  nothing else arrives. Hard: trays that are *overdue* because no tick has run since their bake
  ended, several units of an order ending in any order, ties.
* **engine** – no unit is lost, on two trays, or counted wrongly, although both the payments and
  the loop tick; the loop never sleeps through the end of a bake it has not been told about; what
  `_persisted` remembers is really in the table. Hard: the loop gives way in two places only, and
  correctness depends on there being no third one between reading the next finish and clearing the
  event; the database refuses or delays writes.
* **payments** – an order is enqueued once, and only if it is paid. Hard: the enqueue is in
  memory and happens before the commit; two payments of one order race; rows are locked in an
  order that depends on the kitchen, so transactions deadlock.
* **orders** – the stored status only moves forward, along the steps that its writers allow (one
  more than the diagram of the repository's README draws); ready means baked; an order is handed
  out once. Hard: ORM writes are by primary key on what was read
  several awaits before.
* **menu** – no order that was placed loses an item, so it can always be paid for and recovered;
  concurrent updates keep one another's columns. Hard: a delete asks for references some awaits
  before it deletes; updates write objects that were read earlier.
* **estimates** (a column of `orders` that placement, payments and recovery write) – what a customer
  reads is what the kitchen expects. Hard: they are computed under the engine's lock and written
  after it, row by row, by transactions that race.
* **migrations** – the recorded version tells the schema, and at the head the schema is what the
  models declare. Hard: enumerated types outlive the tables that use them, downgrades are never
  tested, a command may be cut short.
* **recovery** – no paid order is lost, at whatever point the process stopped; each start takes an
  unfinished one up whole and once, so units that were finished before the stop are baked again,
  and an order that is finished is not taken up at all. Hard: each enqueue ticks and replaces the
  answer of the one before.

The full list of hazards, each at its line with the properties that cover it, is under `hazards`
in `PROJECT.json`.

## 2. How the code runs: what is one step

The backend is one asyncio process. Tasks interleave only at `await`s. From this follow the steps
of the models:

* No body of `async with self._lock` contains an `await`, so the lock is never contended and each
  locked body is one action, together with the code around it up to the next `await`
  (`Enqueue`: the push, the tick, the accounting, the estimate and the setting of the event).
* `PaymentService.pay` gives way at each statement it sends. Its steps are: read and check
  (`PayCheck`); send the UPDATE to QUEUED, which autoflush puts before the menu is read
  (`PayFlush`); enqueue (`PayEnqueue`); one UPDATE per other order's estimate (`PayEstimate`);
  insert and commit (`PayCommit`), which the unique constraint may refuse (`PayRefused`). Any of
  these may end in a rollback (`PayFails`, `PayDeadlockVictim`).
* `_persist` gives way at each UPDATE and at the commit (`PersistRow`, `PersistCommit`); between
  its return and the loop's wait there is no `await` (`Sleep`).
* PostgreSQL runs at READ COMMITTED. An UPDATE locks the row until commit or rollback; another
  UPDATE of it waits and then looks at the committed row again; one whose WHERE clause asks for a
  status passes over a row whose committed status is another without waiting. Transactions that
  wait in a circle are broken by aborting one of them. This is the external part of the model
  (`Lockable`, `Wants`, `WaitsFor`, `InDeadlock`, `Released`).
* The process may stop at any point (`Crash`: kill, or the orderly `stop` of the lifespan, which
  cancels the loop wherever it is). What is in memory is gone, open transactions are rolled back.

## 3. Modules

`Scheduler` holds what the machines have in common. `KitchenState` adds what the engine keeps in
memory over real time, and what the bodies of its lock do to it; two modules extend it:
`KitchenEngine` with the loop and its timer, `Estimates` with the table that the estimates are
written to. `Bakery` composes the kitchen, without real time, with the database, the requests and
restarts, and implements `Lifecycle`.
`Menu` and `Migrations` are apart, since they share no state with the kitchen.

| Module | Models | State |
|---|---|---|
| `Scheduler` | `scheduler.py`, `models.py`, and `_account` of `engine.py`, as operators | none |
| `KitchenState` | `engine.py`: its memory, the locked parts of `enqueue` and `_reconcile`, and `simulate` | `slots`, `queue` (`Scheduler._slots`, `_queue`), `seq`, `remaining`, `readyAt`, `now`; history `eta` |
| `KitchenEngine` | `engine.py`: the callers of the lock, the loop with its timer, and the status snapshot | those of `KitchenState`, `wakeup`, `deadline`, `loop`; history `late` |
| `Lifecycle` | what the code's writes keep of an order: placement, `pay`, pickup, and `_ALLOWED_PREV` for the kitchen | `status`, `paid`, `made` |
| `Bakery` | `payments/service.py`, `orders/service.py`, `orders/repository.py`, `engine.py`, `recovery.py`, `main.py`, `core/db.py` | tables `status`, `paid`, `rowLock`; process `phase`, `toRecover`, the kitchen, `persisted`, `loop`, `batch`, `changed`, `req`; history `baked`, `rolledBack`, `handed` |
| `Estimates` | the writes of `orders.estimated_ready_time` in `orders/service.py`, `payments/service.py`, `orders/repository.py`, `recovery.py`; `engine.enqueue` is the one of `KitchenState` | those of `KitchenState`, `stored`, `status`, `rowLock`, `menu`, `phase`, `toRecover`, `answer`, `req`; history `settled`, `missed` |
| `Menu` | `menu/service.py`, `menu/repository.py`, and how `orders/service.py` (placement) and `orders/specs.py` (payment, recovery) read items | tables `menu`, `lines`; `req` |
| `Migrations` | `src/migrations/env.py`, the five revisions, and the mapped classes of `orders/`, `payments/`, `menu/` | `version`, `schema`, `filled`, the running command's `work`, `todo`, `target`, `locked` |
| `MCKitchenEngine`, `MCBakery`, `MCEstimates`, `MCMenu`, `MCMigrations` | instances for TLC | |
| `SchedulerProofs` ← `ProjectionProofs` ← `KitchenStateProofs` | lemmas on ticks, on `_project`, and on the locked bodies | |
| `KitchenEngineProofs`, `EstimatesProofs` (over `KitchenStateProofs`), `BakeryKitchenProofs`, `BakeryProofs`, `MenuProofs` | theorems | |

**Scheduler.** A slot is its position in the list. The heap is the set of its entries, and the
k-th pop is the entry of rank k in `(priority, seq)` order. A tick is `Cleared` then
`FilledSlots`: idle slots are served in list order, so the slot of turn k gets the entry of rank
k. `Project` is `_project`: the heap of finish times is a function from slots, and popping it is
`FirstFree` (which of two equal times is popped makes no difference to the result). `Accounted` is
`_account`, with 0 for an absent key; note that it also gives 0 when a count would go below zero,
which is what `remaining <= 0` and the popped key amount to.

**KitchenEngine.** The clock counts `SECOND` units to a second, so that bakes end and ticks come
between whole seconds; bake times are multiples of it. It moves by any amount between any two steps, so the loop may be late,
the database slow and the timer inaccurate; the history variable `late` remembers whether time
ever passed while the loop had something to do. `Snapshot` is what `GET /kitchen/status` answers in
a state; `remaining_seconds` is `int(...total_seconds())` (`engine.py:189`), which drops the part of
a second that is left, so a tray may show 0 before its bake is over. `_ready_at` is overwritten if an order becomes ready a second time (the same order may
be enqueued twice; module `Bakery` shows when). In this module an `Enqueue` may come from any
caller with any spec list of `Specs`; `eta` records what was returned. The module always gives way
between `_reconcile` and the wait, also when there is nothing to persist: that is more behaviour
than the code has.

**Bakery.** Time is reduced to "the bake goes on" and "the bake is over": the scheduler's
operators are used with the clock at 0 and bakes of one tick, and `BakeElapses` ends a bake. The
loop may wake at any time, since its longest sleep is `RECONCILE_SECONDS`. Order ids are numbers
in order of placement, which is what `ORDER BY placed_at` sorts by. `readyAt` keeps the insertion
order of the dictionary, and `EtaKeysBut` and `PendingTransitions` the order of the dictionaries that
`estimate` and `_pending_transitions` build, because that is the order in which rows are locked.
The values of estimates are not in this module but in `Estimates`; the locks their writes take are.

**Lifecycle and the refinement.** `Lifecycle` says what an order may do without saying how: it is
placed; its payment and its being queued are one step; the kitchen writes how far any number of
orders are, along the steps of `_ALLOWED_PREV`, and READY only for orders that are made; a restart
takes orders that are not ready up anew. `Bakery` implements it with `status` and
`paid` mapped to themselves and `made` to the orders of which `baked` counts all units
(`FollowsLifecycle`). Everything else a payment does (flush, enqueue, estimates, rollback) is a
stutter or a `Bake`. It is an abstraction of what the code writes and not of what it declares:
`_ALLOWED_PREV` (`orders/repository.py:12`) lets an order go from QUEUED to READY, when the loop did
not come to write BAKING in between, which `orders/state_machine.py:5` and the diagram of
`README.md:20` do not have. That disagreement is the run `status_steps`.

**Estimates.** `EnqueueLocked`, of `KitchenState`, is the locked part of `enqueue`; here the loop is a tick that may come at any moment. A payment keeps what its
enqueue returned and writes it row by row; its own row was locked by the flush of its new status.
Recovery keeps the answer of its last enqueue only, and writes it at the end (`Open`); `missed` remembers
the orders that it enqueued and that were done before it wrote (`DoneUnwritten`).
`Patch` gives an item another bake time, which payments and recovery read and placed orders do not
follow.

**Migrations.** A revision is the two lists of operations in its file; a command runs one list (or
all lists up to the head) in a transaction (`env.py`), and PostgreSQL takes back what an
interrupted one did. `Accepts` says when the database refuses an operation: a type or table that
is there already, one that is missing, one that another refers to, a column that must not be null
for a table that has rows (`filled`). `AddRow` is the program at work
between and during commands, as far as the tables it needs exist and are not locked.

**Menu.** Requests create, patch and delete items while others read them, line by line, to place
and to pay for orders. That a payment is of a pending order is `Bakery`'s matter: here any placed
order may be paid. A write and its commit are one step here: nothing of it is seen before the
commit, and whoever needs the same row (an UPDATE, a DELETE, the foreign key check of an insert)
waits until then. `PatchWrite` is SQLAlchemy's flush: it writes the columns whose value differs
from the one the object was read with. Whether a request succeeds shows in the
tables only; so a delete that an order overtakes between the check and the DELETE leaves the item,
though its request fails with 500 and not with the 409 of `menu/router.py:61` (nothing turns the
foreign key's IntegrityError into MenuItemInUseError). An order asks for each item once, since for a repeated item the
session may answer with the object it still holds.

In `Bakery`, the history variables are: `baked[o]` counts the units of `o` taken out of the trays
since the kitchen last took the order up: a stop sets it back to zero for an order that is not
ready yet, because recovery takes that order up whole (`recovery.py:25-33`). The count therefore
does not show that units finished before the stop are baked a second time, and no property claims
that they are not;
`rolledBack` holds orders with a payment that enqueued and was then rolled back; `handed` counts
successful pickups.

## 4. Runs, bounds, fairness

The passing runs (each property also has a mutant, a plausible bug under which TLC finds the property
violated in the same run):

| Run | Instance | Shows |
|---|---|---|
| `engine` | 1 oven × 2 trays, 2 orders, up to 4 units, clock 0..6 in half seconds, spec lists VIP 1 s, app 2 s + 1 s, walk-in 2 s, reconcile every 1.5 s | `UnitsConserved`, `WorkConserving`, `NoPriorityInversion`, `NoPreemption`, `NoOversleep`, `EtaNeverLate`, `EtaOnlyMovesBack`, `OthersKeepTheirPlace`, `EtaExact`, `ProvisionalIsAuthoritative`, `StatusForetells` |
| `bakery` | 1 × 2 trays, a walk-in of 2 units and a VIP of 1, 2 concurrent requests, 3 payments, 1 database error, 1 restart | `NoLostOrder`, `UnitsTakenUpOnce`, `ReadyMeansBaked`, `StatusNeverRegresses`, `PersistedIsDurable`, `UnpaidOnlyAfterRollback`, `FollowsLifecycle` |
| `progress` | 1 tray, 2 orders of 1 unit, 2 requests, 3 payments, 1 restart, fairness | `RequestsAnswered`, `PaidOrderGetsReady` |
| `estimates` | 1 tray, 3 orders of 1 unit and 3 priorities, bake times 1 and 2, clock 0..2, 2 requests, 3 payments, 1 patch, 1 error, 1 restart | `StoredNeverLate`, `StoredNotPastReady`, `EstimatesSettle` |
| `menu` | 2 items, 2 prices, 1 order of 1 or 2 items, 2 requests | `ItemsStay`, `NoLostUpdate` |
| `migrations` | as the code is: 5 revisions, 4 tables | `NoOperationRefused`, `VersionTellsSchema`, `HeadServesTheModels` |

*Why the bounds are enough.* Two trays and four units are the least with which a queue forms
behind full trays, two units of an order bake side by side and end apart, a VIP overtakes, and a
tick completes several units. Six half seconds let the loop's cap (3: more than the shortest bake and less than the
longest) and a late wake-up occur, trays be overdue, and a tick come
when a tray has half a second left and shows 0. Two requests are the least that race; three payments
allow a double payment next to another order's; two orders and three payments are the least with
which two transactions lock the same two rows in opposite orders. One error and one restart may fall on
every step. In `estimates`, three orders on one tray are one that bakes, one that waits and a VIP
that pushes it back; the clock lets a bake end between a write and the next, or not. In `menu`, two requests are a reader and a writer, or two writers, of one item, and a
cart of two items lets an item change between the two reads. What does not depend on the size is proved (section 6).

*Deadlock* is checked in the engine, menu and migration runs. In the `Bakery` and `Estimates`
runs it is not: when the loop's task has died, all payments allowed by
the bound are used and all bakes are over, an idle server has nothing to do.

*Fairness* (`FairSpec`): the event loop runs what is ready, and the database answers. So a bake
under way ends, a request that has begun takes its next step, the loop takes its own, the database
breaks a deadlock by aborting one of the transactions in the circle (either), and a start that has
begun goes through recovery to its end. A process that is down need not be started: nothing in the
repository does it (`docker-compose.yml` has no restart policy), so `PaidOrderGetsReady` speaks of
behaviours in which the process is not down for good (`[]<>(phase # "down")`), and
`RequestsAnswered` needs no such condition, since a stop ends all requests. All weak: each of these
steps stays enabled until it is taken, except when a row lock is taken in between, and no property
needs to assume that a lock is won. Customers, errors and crashes are not fair.

*Properties.* Each is stated and explained in its module. The ones that carry most:

* `UnitsConserved` – places and counts agree at every step of both tickers.
* `NoOversleep` – the loop's deadline covers every bake, or the event is set.
* `EtaNeverLate`, `EtaOnlyMovesBack`, `EtaExact` – an estimate is a lower bound under any delay,
  exact as long as the loop has not been late, and only moves back while the order is in the kitchen.
* `OthersKeepTheirPlace` – an enqueue changes the estimates of those it overtakes, and no other: an
  order none of whose waiting units is less urgent than a new one keeps its time.
* `ProvisionalIsAuthoritative` – `simulate` before a tick equals `enqueue`'s estimate after one.
* `NoLostOrder` – an active row always has units in the kitchen, is known to be ready there, or is
  still to be recovered.
* `UnitsTakenUpOnce` – each unit of a paid order is given to the kitchen once per start, with the exact
  exception the code has: an order with a payment that was rolled back after its enqueue.
  `ReadyMeansBaked` – all of them have been baked since, before READY is written.
* `StatusForetells` – what the status shows between two ticks (trays overdue or empty, the queue by
  position) is what the loop's next tick does, up to the second that is cut off: a tray that
  shows 0 may be freed or not, one that is empty is filled, one that shows a second or more stays.
* `ItemsStay` – every item of a placed order, and every item that a payment under way has still to
  read, is on the menu.
* `NoOperationRefused` – no revision meets a leftover of another, nor rows that it cannot alter
  the table under.
* `StoredNeverLate` – the stored estimate lags behind the kitchen's in one direction only, through
  every order of writes, rollback, patch and restart; `EstimatesSettle` – one payment or recovery
  that writes alone sets the whole table right. Together they say how bad the finding
  `stale_estimate` can get.
* `StoredNotPastReady` – the same to the end: the last estimate in the table of an order that is done
  is not later than the moment it was. A payment under way may come to write after that moment; then
  the row is passed over, or what it writes is not later. Orders that a recovery
  has missed (history `missed`) are excepted: `etas` is replaced at each enqueue
  (`kitchen/recovery.py:33`) and each enqueue ticks, so an order whose bakes end while later orders
  are read back is not in the answer that is written, and its row keeps the estimate from before
  the restart, although the docstring (`kitchen/recovery.py:18-19`) has all of them persisted.
  Without the exception TLC finds the property violated.
* `HeadServesTheModels`, `VersionTellsSchema` – the two declarations of every table agree, and
  each downgrade undoes exactly its upgrade, enumerated types included.
* `FollowsLifecycle` – the composition of everything implements the abstract lifecycle (of the writes,
  see section 3).
* `StatusNeverRegresses` – the writes by primary key never undo progress; it holds only because
  the unique constraint aborts a second payment.

## 5. What the checks found

Violation runs: each checks one statement of the documentation or of the code's own tables, and
TLC shows how the code departs from it. Everything else that was checked holds.

| Run | Statement | What happens |
|---|---|---|
| `double_payment` | trays are not double-booked (`README.md:97-99`); a second payment is refused (`tests/payments/test_payments.py:91-100`) | two payments read `pending_payment`, both enqueue; the second then violates the unique constraint, but its units stay: the order is baked twice |
| `ghost_order` | "Unpaid orders never hold an oven" (`README.md:101`) | a payment rolled back after its enqueue (here as deadlock victim, without any fault) leaves its units in the kitchen |
| `dead_loop` | "The kitchen persists progress" (`README.md:29`) | `_persist` is the deadlock victim, the exception ends the loop's task, later payments are never served |
| `stale_estimate` | "other orders' ETAs are recomputed and persisted" (`README.md:27-28`) | two payments of different orders commit in the opposite order of their enqueues, or one passes over the other's row because it is not yet active: the table keeps an estimate that a later enqueue had moved back, until the next payment |
| `status_steps` | a queued order goes to BAKING (`orders/state_machine.py:5`, the diagram of `README.md:20`) | a bake ends before the loop has written that it began: `_ALLOWED_PREV` lets READY be written over QUEUED, and the order never was BAKING |
| `double_pickup` | COMPLETED is final (`orders/state_machine.py:8`), not ready is refused (`orders/router.py:70`) | two pickups read READY before either writes COMPLETED: both succeed |

Two more departures were seen and have no run of their own. Recovery enqueues oldest first and each
enqueue ticks (`recovery.py:25-33`), so an old walk-in takes the tray before a VIP has been read
back, whereas "the highest-priority waiting unit goes in" (`README.md:12-13`); each tick by itself
keeps the order (`NoPriorityInversion`). And recovery does not persist the estimate of an order
that is done before it ends, whereas its docstring has all of them persisted
(`recovery.py:18-19`): the exception `missed` of `StoredNotPastReady`, section 4.

## 6. Proofs

`KitchenEngineProofs` proves, for every number of ovens, trays, orders and units, every spec list
and every time, that `Spec` implies

* `TypeCorrect`: `[]TypeOK`
* `UnitsAreConserved`: `[]UnitsConserved`
* `NoTrayIdle`: `[]WorkConserving`
* `LoopInTime`: `[]NoOversleep`
* `BakesAreFinished`: `NoPreemption`
* `FirstInLineIsLoaded`: `NoPriorityInversion`
* `ReadyNotEarly`: `[]EtaNeverLate`
* `ReadyOnTime`: `[]EtaExact`
* `PromisesMoveBack`: `EtaOnlyMovesBack`
* `OnlyThoseBehindWait`: `OthersKeepTheirPlace`
* `PreviewIsPromise`: `[]ProvisionalIsAuthoritative`
* `StatusIsTrue`: `StatusForetells`

*Assumptions*: `KitchenAssumption` (there is a tray; `NoTask` is not a bake), `EngineAssumption`
(spec lists are not empty and bake times are positive, as the schemas enforce; a second is at
least one unit of the clock; the bounds are numbers). TLC evaluates both in the runs. The bounds `MaxTime` and `MaxUnits` are arbitrary.

*Argument.* The inductive invariant is `KitchenInv`, which is shared with `Estimates`, with
`WorkConserving` and `NoOversleep`. `KitchenInv` adds four facts to the conservation of units.
`SeqsUsed`: numbers in use are below `seq`; without it an enqueue might push a task equal to one in
the kitchen and the set would swallow it. `FinishTimes`: a bake ends its bake time after it began;
without it `NoPreemption` could not be read off `finish_at`. `ReadyPast`: an order that is ready
became so before now, which only `Estimates` needs. And the finiteness of the queue, on
which every count rests. `KitchenStateProofs` has one lemma for each kind of step (`EnqueueStep`,
`ReconcileStep`, `ClockStep`, `NewKitchen`); those that tick apply `TickStep`, and it the lemma
`TickKeeps` of `SchedulerProofs`; `TickReady` says which orders a tick makes ready.

For the estimates a second invariant, `EstimatesInv`, is proved on top of the first
(`NextEstimates`). `EtaNeverLate` speaks of orders that are ready, and says nothing until they are;
so it is joined by `EstimatesHold`: an order in the kitchen was last given an estimate that is not
past the one it would be given now. `EtaExact` is joined by `OnTime`: as long as the loop keeps
time, no bake is overdue and the two are equal. What keeps them is how `_project` moves, below.

`StatusIsTrue` adds to the lemmas on ticks that the status numbers the trays as the scheduler does
(`Place`: the two-dimensional list of ovens and trays against the one list of slots), that the
entries which a fill leaves move up by the number of idle slots (`LeftRanks`), and that the trays a
tick frees are among those that show no seconds, whatever the division has cut off.

`SchedulerProofs` is about one tick. The heart is `FillMoves`: filling moves as many entries as
there are idle slots, each to one slot. It needs that ranks number the heap's entries
(`RankNumbers`) and turns number the idle slots (`TurnNumbers`), both instances of
`CountingBelow`: in a finite set under a strict total order, counting the elements below is a
bijection with an initial segment of the naturals. `ClearCounts` shows that taking out finished
units lowers each order's count by exactly what was there, so `_account` never meets a count that
is too small.

`ProjectionProofs` is about the loop of `_project`. Five facts are used outside it:

* `ProjectBounds`: an estimate is not before the end of a bake of the order, nor before any unit
  of it that waits could be done; an order without units has none.
* `ProjectMovesBack`: time that passes and units that join the queue move every estimate back, or
  leave it, also when trays are overdue and whatever the priority of the new units.
* `ProjectBehind`: units that join the queue behind all those of an order leave its estimate. From
  `ProjectFront`: the first rounds of the loop are those of the entries up to the last of the order's
  own, and the others leave its time alone (`RoundsLeave`).
* `ProjectTick` and `ProjectTicked`: a tick changes no estimate that lies ahead. This is why
  `simulate` may do without the tick that `enqueue` makes, and why it does not matter who ticks.
* `ProjectStays`: while no bake ends, and all trays bake when a unit waits, passing time changes
  no estimate.

The loop is a fold, and the results of two loops are compared by induction over their rounds. The
induction is `IntervalInduction`, over a *set* of numbers instead of a predicate. A round is a relation
between plans (`Round`: some tray that is free first takes the next entry), not a function, since
two kitchens may choose different trays among equals. `RoundsCompare` carries `Ahead` through the
rounds: the trays of the two plans can be paired so that none is free later in the first than its
partner in the second. Plans cannot be compared tray by tray: after a VIP has joined, the units
behind it are on other trays, and each round pairs the trays anew. `RoundOfBoth` and `RoundOfOne` are the two
cases, an entry that both plans have and one that only the later has. That a tick changes nothing
is `FillRounds`: filling the idle trays is a run of such rounds that has been played in advance.

`EstimatesProofs` proves of `Estimates`, for every number of trays, orders, units and requests,
every priority and bake time, and any number of payments, faults, patches and restarts,

* `TypeCorrect`: `[]TypeOK`
* `StoredEarly`: `[]StoredNeverLate`
* `ReadyAsTold`: `[]StoredNotPastReady`
* `AloneSettles`: `[]EstimatesSettle`

from `KitchenAssumption` and `EstimatesAssumption` (order ids are numbers, in order of placement; an
order has a unit, a priority and a bake time; the owner of a free row is no request). All
estimates are compared with `LastDue`: when the order would be ready as the kitchen stands; when it
was, if it is done; now, if the engine does not know it. It never moves forward: `EnqueueStep`, `ReconcileStep` and `ClockStep`
say so, from `ProjectMovesBack` and `ProjectTicked`; only a restart starts it anew. The inductive
invariant `IInv` is `KitchenInv` and

* `Locks`: a payment has the row of its order from its flush to its end, and no other before it
  writes. So no two payments of one order are between the two at once, and the rows that a commit
  changes are those the payment has an estimate for.
* `StoredHolds`: `StoredNeverLate` and `StoredNotPastReady` in one, of every order that the engine
  knows, and of one that is queued in the table and has a second payment under way: that payment
  will enqueue its units again, and then the old estimate counts again. Without this part neither
  is inductive.
* `MissedStayOut`: an order that recovery missed has no unit in the kitchen and no payment under way,
  so it gets no unit again, and leaving it out of `StoredHolds` costs `StoredNeverLate` nothing.
* `AnswersHold`: what a payment keeps to write is late for no order, however long ago it enqueued,
  and there is an estimate in it for every row that it has locked or will lock.
* `RecoveryHolds`: until requests are served no payment runs, and the last answer of recovery has
  the latest estimate of all orders that it has enqueued, not only of the last one.
* `AloneHolds`: a payment that writes alone has the latest estimates, and has locked or will come
  to the row of every order in the kitchen that is active in the table.

`MenuProofs` proves `TypeCorrect` (`[]TypeOK`), `PlacedOrdersKeepTheirItems` (`[]ItemsStay`) and
`UpdatesCompose` (`NoLostUpdate`) of `Menu` for any number of items, orders and requests, from
`MenuAssumption` (what stands for a missing row is no row; carts are not empty and repeat no item;
null is no value). The invariant adds `TakenFromCart`: the lines a placement has taken are its
cart's items in order. Without it the foreign key check, which looks at the cart's items, would
say nothing of the lines that are inserted. What a payment has still to read is lines of a placed
order (`LeftOfOrder`), placed orders keep their lines (`LinesStay`), and so the
second half of `ItemsStay` follows from the first. `PlacesNew`, that a placement is of an order
without lines, keeps a payment's order from getting other lines meanwhile.

`BakeryProofs` proves of `Bakery`, for every number of trays, orders, units and requests, every
assignment of priorities, and any number of payments, database errors and restarts,

* `BakeryTypeCorrect`: `[]TypeOK`
* `OrdersAreNeverLost`: `[]NoLostOrder`
* `PaidUnitsAreTakenUpOnce`: `[]UnitsTakenUpOnce`, per start of the process
* `ReadyOrdersAreBaked`: `[]ReadyMeansBaked`
* `PersistedWasCommitted`: `[]PersistedIsDurable`
* `UnpaidUnitsAreLeftovers`: `[]UnpaidOnlyAfterRollback`
* `BakeryFollowsLifecycle`: `FollowsLifecycle`, the refinement of the lifecycle of the writes
* `StatusOnlyAdvances`: `StatusNeverRegresses`
* `PaidOrdersAreQueued`: `[]LC!PaidAndMade`, what `Lifecycle` is for, of the detailed system

from `KitchenAssumption` and `BakeryAssumption` (order ids are numbers, in order of placement; an
order has a unit and a priority; the loop is no request; the bounds are numbers). The inductive
invariant `IInv` adds four groups of facts to the properties:

* `KitchenInv`: the conservation of units of `KitchenEngine`, for this module's kitchen. Its steps
  are the lemmas of `BakeryKitchenProofs`: `TickStep` and `EnqueueStep` (from `TickKeeps` and
  `PushKeeps` of `SchedulerProofs`) say that what leaves the trays is added to `baked`, so that
  `baked + remaining` changes only by what is pushed, and that an order that runs out of units is
  known to be ready.
* `RowsInv`: the row locks. A payment that has flushed holds its order's row until it ends, so that
  there is one such payment of an order at a time; a row the loop has updated is locked by the
  loop, so that its status is still one that `_ALLOWED_PREV` lists when the loop commits. An order
  is paid exactly when its status is beyond `pending_payment`: from this, and the unique
  constraint, the write of QUEUED by primary key never meets a later status.
* `LedgerInv`: a transition to READY, wherever it is on its way from `_ready_at` through `batch` and
  `changed` to the table, is of an order all of whose units have been baked.
* `OnceInv`: how many units of an order have been pushed before it is paid, while it is being
  enqueued, and while the process is down; without it, recovery might add to what is there.

`NextIInv` has a lemma for each action. `StepFollows` maps each action to a step of `Lifecycle` or a
stutter; `StatusOnlyAdvances` is then read off the abstract steps. The lists that the model builds
in an order (`EtaKeysBut`, `PendingTransitions`, new keys of `_ready_at`) are handled by
`InOrderLists`: the members of a finite set with different places are listed, each once.

*Only model-checked*: `Migrations` (one instance, the code's own, is all there is, and TLC visits
all its states), and everything under fairness (`PaidOrderGetsReady`, `RequestsAnswered`). Every
other property of a passing run is stated by a theorem.

## 7. Plan

Done: the modules of section 3, their runs, and the proofs of section 6. What is left is out of
reach of the tools: liveness of `Bakery` for every value of the constants needs fairness and
`ENABLED`, and stays with TLC.

## 8. Not modelled

* The skipping of an unrecoverable order in `recover_orders` (`MissingMenuItemError`): `ItemsStay`
  shows that there is no such order.
* Routers, schemas, configuration, logging, telemetry, dashboards: no state, or state no property
  is about.
* The times at which an order started to bake, became ready and was handed out (three columns that
  nothing reads but the customer).
* `PaymentStatus.FAILED` and `OrderStatus.CANCELLED`: both strategies confirm every charge, and no
  operation cancels.
* Loss of the database's own data, and several processes: the README says that one process owns
  the queue.
