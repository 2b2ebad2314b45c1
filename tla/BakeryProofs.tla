----------------------------- MODULE BakeryProofs -----------------------------
(***************************************************************************)
(* Safety of Bakery, and that it implements Lifecycle, for any number of   *)
(* trays, orders, units and requests and any number of payments, errors    *)
(* and restarts.                                                           *)
(***************************************************************************)
EXTENDS BakeryKitchenProofs

-----------------------------------------------------------------------------
(* The inductive invariant.                                                *)

\* What requests and the loop rely on is still true of the rows when they come
\* to write them: a payment that has flushed holds its order's row, and nobody
\* but the loop can change the status of a row it has updated.
RowsInv ==
    /\ \A o \in Orders : o \in paid <=> status[o] \notin {"none", "pending_payment"}
    /\ \A r \in Requests :
          /\ req[r].at \in {"pay_flushed", "pay_estimates"} => rowLock[req[r].order] = r
          /\ req[r].at \in {"pay_checked", "pay_flushed", "pay_estimates"} =>
                status[req[r].order] # "none"
          /\ req[r].at = "pickup_checked" => status[req[r].order] \in {"ready", "completed"}
    /\ \A t \in changed :
          rowLock[t.order] = Loop /\ status[t.order] \in AllowedPrev(t.status)
    /\ \A o \in toRecover : status[o] \in Active
    /\ \A o \in rolledBack : status[o] # "none"
    /\ phase # "up" => \A r \in Requests : req[r] = Idle
    /\ phase # "recovering" => toRecover = {}

\* What makes an order ready is that all its units have been baked.
LedgerInv ==
    \A o \in Orders :
        /\ remaining[o] > 0 => baked[o] + remaining[o] >= Units[o] /\ status[o] # "none"
        /\ \/ o \in ToSet(readyAt)
           \/ \E i \in DOMAIN batch : batch[i] = [order |-> o, status |-> "ready"]
           \/ [order |-> o, status |-> "ready"] \in changed
           \/ status[o] \in {"ready", "completed"}
           => baked[o] >= Units[o]

InEngine(o) == remaining[o] > 0 \/ o \in ToSet(readyAt)

BeingEnqueuedInEngine == \A o \in Orders : BeingEnqueued(o) => InEngine(o)

\* How often the units of an order have been put into the kitchen, while no
\* payment of it was rolled back after its enqueue.
OnceInv ==
    /\ \A o \in Orders \ rolledBack :
          /\ o \notin paid /\ ~BeingEnqueued(o) => baked[o] + remaining[o] = 0
          /\ o \notin paid /\ BeingEnqueued(o) => baked[o] + remaining[o] = Units[o]
          /\ phase = "down" /\ status[o] \in {"ready", "completed"} => baked[o] = Units[o]
    /\ \A o \in Orders :
          o \in toRecover \/ (phase = "down" /\ status[o] \notin {"ready", "completed"}) =>
             baked[o] + remaining[o] = 0
    /\ phase = "down" => \A o \in Orders : remaining[o] = 0

IInv ==
    /\ TypeOK
    /\ KitchenInv
    /\ RowsInv
    /\ PersistedIsDurable
    /\ LedgerInv
    /\ BeingEnqueuedInEngine
    /\ NoLostOrder
    /\ UnpaidOnlyAfterRollback
    /\ OnceInv
    /\ UnitsTakenUpOnce

-----------------------------------------------------------------------------
(* Requests.                                                               *)

\* Where a request is, and what it carries there.
LEMMA RequestFields ==
    ASSUME TypeOK, NEW r \in Requests
    PROVE  /\ req[r].at \in {"idle", "pay_checked", "pay_flushed", "pay_estimates",
                             "pickup_checked"}
           /\ req[r].at # "idle" => req[r] # Idle /\ req[r].order \in Orders
           /\ req[r].at = "idle" => req[r] = Idle
           /\ req[r].at = "pay_estimates" => req[r].others \in Seq(Orders)
           /\ r # NoOne /\ r # Loop
<1>1. req[r] \in ReqStates
  BY DEF TypeOK
<1>2. r # NoOne /\ r # Loop
  BY BakeryAssumption
<1> QED BY <1>1, <1>2 DEF ReqStates, Idle

\* An empty kitchen and empty tables.
LEMMA InitIInv == Init => IInv
<1> SUFFICES ASSUME Init PROVE IInv
  OBVIOUS
<1>1. /\ SlotsType(slots) /\ QueueType(queue) /\ BusySlots(slots) = {} /\ TasksOn(slots) = {}
      /\ Distinct(slots, queue) /\ Counted(slots, queue, remaining)
      /\ remaining \in [Orders -> Nat]
  BY EmptyKitchen DEF Init, NewEngine
<1>2. KitchenInv
  BY <1>1 DEF Init, NewEngine, KitchenInv
<1>3. ~(\E o : BeingEnqueued(o))
  BY DEF Init, Idle, BeingEnqueued
<1>4. TypeOK
  <2>1. /\ status \in [Orders -> {"none", "pending_payment", "queued", "baking", "ready",
                                  "completed"}]
        /\ paid \subseteq Orders
        /\ rowLock \in [Orders -> Actors \cup {NoOne}]
        /\ phase \in {"down", "recovering", "up"}
        /\ toRecover \subseteq Orders
    BY DEF Init
  <2>2. /\ slots \in [Slots -> Baking \cup {NoTask}]
        /\ queue \in SUBSET BakeTask
        /\ seq \in Nat
        /\ remaining \in [Orders -> Nat]
        /\ readyAt \in Seq(Orders)
        /\ baked \in [Orders -> Nat]
    BY <1>2 DEF KitchenInv, SlotsType, QueueType
  <2>3. /\ persisted \in [Orders -> {"none", "baking", "ready"}]
        /\ loop \in {"off", "reconcile", "persist", "sleep", "dead"}
        /\ batch \in Seq(Transition)
        /\ changed \subseteq Transition
    BY DEF Init, NewEngine
  <2>4. req \in [Requests -> ReqStates]
    BY DEF Init, ReqStates
  <2>5. payments \in 0..MaxPayments /\ faults \in 0..MaxFaults /\ crashes \in 0..MaxCrashes
    BY BakeryAssumption DEF Init
  <2>6. rolledBack \subseteq Orders /\ handed \in [Orders -> Nat]
    BY DEF Init
  <2> QED BY <2>1, <2>2, <2>3, <2>4, <2>5, <2>6 DEF TypeOK
<1>5. RowsInv
  BY DEF Init, NewEngine, RowsInv, Idle
<1>6. PersistedIsDurable
  BY DEF Init, NewEngine, PersistedIsDurable
<1>7. LedgerInv
  <2>1. ToSet(readyAt) = {}
    BY DEF Init, NewEngine, ToSet
  <2> QED BY <2>1 DEF Init, NewEngine, LedgerInv
<1>8. BeingEnqueuedInEngine /\ NoLostOrder /\ UnitsTakenUpOnce
  BY <1>3 DEF Init, BeingEnqueuedInEngine, NoLostOrder, UnitsTakenUpOnce
<1>9. UnpaidOnlyAfterRollback
  BY <1>1 DEF Init, NewEngine, UnpaidOnlyAfterRollback, InKitchen
<1>10. OnceInv
  BY <1>3 DEF Init, NewEngine, OnceInv
<1> QED BY <1>2, <1>4, <1>5, <1>6, <1>7, <1>8, <1>9, <1>10 DEF IInv

-----------------------------------------------------------------------------
(* Orders and pickups.                                                     *)

LEMMA PlaceStep ==
    ASSUME IInv, NEW o \in Orders, Place(o) PROVE IInv'
<1> USE DEF IInv
<1>1. /\ status[o] = "none" /\ status' = [status EXCEPT ![o] = "pending_payment"]
      /\ UNCHANGED <<paid, rowLock, phase, toRecover, kitchen, looping, req, bounds,
                     rolledBack, handed>>
  BY DEF Place
<1>2. /\ status'[o] = "pending_payment" /\ \A p \in Orders \ {o} : status'[p] = status[p]
  BY <1>1 DEF TypeOK
<1>3. TypeOK' /\ KitchenInv'
  BY <1>1 DEF TypeOK, KitchenInv, kitchen, looping, bounds
<1>4. \A p : BeingEnqueued(p)' <=> BeingEnqueued(p)
  BY <1>1 DEF BeingEnqueued
<1>5. RowsInv'
  <2>1. \A r \in Requests : req[r].at # "idle" => req[r].order \in Orders
    BY RequestFields
  <2>2. \A t \in changed : t.order \in Orders
    BY DEF TypeOK, Transition
  <2> QED BY <1>1, <1>2, <2>1, <2>2 DEF RowsInv, looping, Active, AllowedPrev, TypeOK
<1>6. PersistedIsDurable'
  BY <1>1, <1>2 DEF PersistedIsDurable, StatusRank, looping, TypeOK
<1>7. LedgerInv'
  BY <1>1, <1>2 DEF LedgerInv, kitchen, looping
<1>8. BeingEnqueuedInEngine' /\ NoLostOrder'
  BY <1>1, <1>2, <1>4 DEF BeingEnqueuedInEngine, NoLostOrder, InEngine, kitchen, Active
<1>9. UnpaidOnlyAfterRollback'
  BY <1>1, <1>4 DEF UnpaidOnlyAfterRollback, InKitchen, kitchen
<1>10. OnceInv' /\ UnitsTakenUpOnce'
  BY <1>1, <1>2, <1>4 DEF OnceInv, UnitsTakenUpOnce, kitchen
<1> QED BY <1>3, <1>5, <1>6, <1>7, <1>8, <1>9, <1>10

\* The requests that stand before their first write: only req changes.
LEMMA CheckStep ==
    ASSUME IInv, NEW r \in Requests, NEW o \in Orders, NEW at \in {"pay_checked", "pickup_checked"},
           phase = "up",
           at = "pay_checked" => status[o] # "none",
           at = "pickup_checked" => status[o] = "ready",
           req[r] = Idle,
           req' = [req EXCEPT ![r] = [at |-> at, order |-> o]],
           payments' \in 0..MaxPayments,
           UNCHANGED <<database, phase, toRecover, kitchen, looping, faults, crashes,
                       rolledBack, handed>>
    PROVE  IInv'
<1> USE DEF IInv
<1>1. /\ req'[r] = [at |-> at, order |-> o] /\ req'[r].at = at /\ req'[r].order = o
      /\ \A x \in Requests \ {r} : req'[x] = req[x]
  BY DEF TypeOK
<1>2. TypeOK' /\ KitchenInv'
  <2>1. req' \in [Requests -> ReqStates]
    BY DEF TypeOK, ReqStates
  <2> QED BY <2>1 DEF TypeOK, KitchenInv, kitchen, looping, database
<1>3. \A p : BeingEnqueued(p)' <=> BeingEnqueued(p)
  BY <1>1 DEF BeingEnqueued, Idle
<1>4. RowsInv'
  BY <1>1 DEF RowsInv, looping, database
<1>5. PersistedIsDurable' /\ LedgerInv'
  BY DEF PersistedIsDurable, LedgerInv, kitchen, looping, database
<1>6. BeingEnqueuedInEngine' /\ NoLostOrder'
  BY <1>3 DEF BeingEnqueuedInEngine, NoLostOrder, InEngine, kitchen, database
<1>7. UnpaidOnlyAfterRollback'
  BY <1>3 DEF UnpaidOnlyAfterRollback, InKitchen, kitchen, database
<1>8. OnceInv' /\ UnitsTakenUpOnce'
  BY <1>3 DEF OnceInv, UnitsTakenUpOnce, kitchen, database
<1> QED BY <1>2, <1>4, <1>5, <1>6, <1>7, <1>8

LEMMA PickupCommitStep ==
    ASSUME IInv, NEW r \in Requests, PickupCommit(r) PROVE IInv'
<1> USE DEF IInv
<1> DEFINE o == req[r].order
<1>1. /\ req[r].at = "pickup_checked" /\ Lockable(o, r)
      /\ status' = [status EXCEPT ![o] = "completed"]
      /\ handed' = [handed EXCEPT ![o] = @ + 1]
      /\ req' = [req EXCEPT ![r] = Idle]
      /\ UNCHANGED <<paid, rowLock, phase, toRecover, kitchen, looping, bounds, rolledBack>>
  BY DEF PickupCommit
<1>2. o \in Orders /\ status[o] \in {"ready", "completed"}
  BY <1>1, RequestFields DEF RowsInv
<1>3. status'[o] = "completed" /\ \A p \in Orders \ {o} : status'[p] = status[p]
  BY <1>1, <1>2 DEF TypeOK
<1>4. /\ req'[r] = Idle /\ req'[r].at = "idle" /\ \A x \in Requests \ {r} : req'[x] = req[x]
  BY <1>1 DEF TypeOK, Idle
<1>5. \A x \in Requests : req'[x].at # "idle" => req'[x] = req[x] /\ req[x].order \in Orders
  BY <1>4, RequestFields
<1> HIDE DEF o
<1>6. TypeOK' /\ KitchenInv'
  <2>1. req' \in [Requests -> ReqStates]
    BY <1>1 DEF TypeOK, ReqStates
  <2>2. handed' \in [Orders -> Nat]
    <3>1. handed[o] + 1 \in Nat /\ handed \in [Orders -> Nat]
      BY <1>2 DEF TypeOK
    <3> QED BY <1>1, <3>1
  <2> QED BY <1>1, <1>2, <2>1, <2>2 DEF TypeOK, KitchenInv, kitchen, looping, bounds
<1>7. \A p : BeingEnqueued(p)' <=> BeingEnqueued(p)
  BY <1>1, <1>4 DEF BeingEnqueued
<1>8. RowsInv'
  <2>1. \A t \in changed : t.order \in Orders
    BY DEF TypeOK, Transition
  <2>2. \A x \in Requests : req'[x].at # "idle" => status'[req'[x].order] # "none"
    BY <1>3, <1>5, RequestFields DEF RowsInv
  <2>3. \A p \in Orders : p \in paid' <=> status'[p] \notin {"none", "pending_payment"}
    BY <1>1, <1>2, <1>3 DEF RowsInv
  <2>4. \A x \in Requests :
           /\ req'[x].at \in {"pay_flushed", "pay_estimates"} => rowLock'[req'[x].order] = x
           /\ req'[x].at = "pickup_checked" =>
                 status'[req'[x].order] \in {"ready", "completed"}
           /\ phase' # "up" => req'[x] = Idle
    BY <1>1, <1>2, <1>3, <1>4, <1>5 DEF RowsInv
  <2>5. \A t \in changed' :
           rowLock'[t.order] = Loop /\ status'[t.order] \in AllowedPrev(t.status)
    BY <1>1, <1>2, <1>3, <2>1 DEF RowsInv, AllowedPrev, looping
  <2>6. \A p \in toRecover' : status'[p] \in Active
    BY <1>1, <1>2, <1>3 DEF RowsInv, Active, TypeOK
  <2>7. \A p \in rolledBack' : status'[p] # "none"
    BY <1>1, <1>2, <1>3 DEF RowsInv, TypeOK
  <2> QED BY <1>1, <2>2, <2>3, <2>4, <2>5, <2>6, <2>7 DEF RowsInv
<1>9. PersistedIsDurable'
  BY <1>1, <1>2, <1>3 DEF PersistedIsDurable, StatusRank, looping, TypeOK
<1>10. LedgerInv'
  BY <1>1, <1>2, <1>3 DEF LedgerInv, kitchen, looping
<1>11. BeingEnqueuedInEngine' /\ NoLostOrder'
  BY <1>1, <1>3, <1>7 DEF BeingEnqueuedInEngine, NoLostOrder, InEngine, kitchen, Active
<1>12. UnpaidOnlyAfterRollback'
  BY <1>1, <1>7 DEF UnpaidOnlyAfterRollback, InKitchen, kitchen
<1>13. OnceInv' /\ UnitsTakenUpOnce'
  BY <1>1, <1>2, <1>3, <1>7 DEF OnceInv, UnitsTakenUpOnce, kitchen
<1> QED BY <1>6, <1>8, <1>9, <1>10, <1>11, <1>12, <1>13

-----------------------------------------------------------------------------
(* Payments.                                                               *)

\* A row that a payment locks was free or its own: no other payment's order,
\* and none the loop has updated.
LEMMA LockedByOne ==
    ASSUME TypeOK, RowsInv, NEW r \in Requests, NEW o \in Orders, Lockable(o, r)
    PROVE  /\ \A x \in Requests \ {r} :
                 req[x].at \in {"pay_flushed", "pay_estimates"} => req[x].order # o
           /\ \A t \in changed : t.order # o
<1>1. rowLock[o] \in {NoOne, r} /\ r # Loop /\ Loop # NoOne
  BY RequestFields DEF Lockable, Loop, NoOne
<1>2. \A x \in Requests : x # NoOne
  BY RequestFields
<1> QED BY <1>1, <1>2 DEF RowsInv

LEMMA PayFlushStep ==
    ASSUME IInv, NEW r \in Requests, PayFlush(r) PROVE IInv'
<1> USE DEF IInv
<1> DEFINE o == req[r].order
<1>1. /\ req[r].at = "pay_checked" /\ Lockable(o, r)
      /\ rowLock' = [rowLock EXCEPT ![o] = r]
      /\ req' = [req EXCEPT ![r].at = "pay_flushed"]
      /\ UNCHANGED <<status, paid, phase, toRecover, kitchen, looping, bounds,
                     rolledBack, handed>>
  BY DEF PayFlush
<1>2. o \in Orders /\ req[r] # Idle
  BY <1>1, RequestFields
<1>3. rowLock'[o] = r /\ \A p \in Orders \ {o} : rowLock'[p] = rowLock[p]
  BY <1>1, <1>2 DEF TypeOK
<1>4. /\ req'[r] = [at |-> "pay_flushed", order |-> o]
      /\ \A x \in Requests \ {r} : req'[x] = req[x]
  <2>1. req[r] \in ReqStates
    BY DEF TypeOK
  <2>2. req[r] = [at |-> "pay_checked", order |-> o]
    BY <1>1, <2>1 DEF ReqStates, Idle
  <2>3. [req[r] EXCEPT !.at = "pay_flushed"] = [at |-> "pay_flushed", order |-> o]
    BY <2>2
  <2> QED BY <1>1, <2>3 DEF TypeOK
<1>5. req'[r].at = "pay_flushed" /\ req'[r].order = o
  BY <1>4
<1>6. TypeOK' /\ KitchenInv'
  <2>1. req' \in [Requests -> ReqStates]
    BY <1>1, <1>2, <1>4 DEF TypeOK, ReqStates
  <2>2. rowLock' \in [Orders -> Actors \cup {NoOne}]
    BY <1>1 DEF TypeOK, Actors
  <2> QED BY <1>1, <2>1, <2>2 DEF TypeOK, KitchenInv, kitchen, looping, bounds
<1>7. \A p : BeingEnqueued(p)' <=> BeingEnqueued(p)
  BY <1>1, <1>4, <1>5 DEF BeingEnqueued
<1>8. RowsInv'
  <2>1. /\ \A x \in Requests \ {r} :
              req[x].at \in {"pay_flushed", "pay_estimates"} => req[x].order # o
        /\ \A t \in changed : t.order # o /\ t.order \in Orders
    BY <1>1, <1>2, LockedByOne DEF TypeOK, Transition
  <2>2. \A x \in Requests : req[x].at # "idle" => req[x].order \in Orders
    BY RequestFields
  <2>3. phase = "up"
    BY <1>2 DEF RowsInv
  <2> HIDE DEF o
  <2> QED BY <1>1, <1>2, <1>3, <1>4, <1>5, <2>1, <2>2, <2>3 DEF RowsInv, looping
<1>9. PersistedIsDurable' /\ LedgerInv'
  BY <1>1 DEF PersistedIsDurable, LedgerInv, kitchen, looping
<1>10. BeingEnqueuedInEngine' /\ NoLostOrder'
  BY <1>1, <1>7 DEF BeingEnqueuedInEngine, NoLostOrder, InEngine, kitchen
<1>11. UnpaidOnlyAfterRollback'
  BY <1>1, <1>7 DEF UnpaidOnlyAfterRollback, InKitchen, kitchen
<1>12. OnceInv' /\ UnitsTakenUpOnce'
  BY <1>1, <1>7 DEF OnceInv, UnitsTakenUpOnce, kitchen
<1> QED BY <1>6, <1>8, <1>9, <1>10, <1>11, <1>12

LEMMA PayEstimateStep ==
    ASSUME IInv, NEW r \in Requests, PayEstimate(r) PROVE IInv'
<1> USE DEF IInv
<1> DEFINE o == Head(req[r].others)
<1>1. /\ req[r].at = "pay_estimates" /\ req[r].others # << >>
      /\ rowLock' = rowLock \/ (Lockable(o, r) /\ rowLock' = [rowLock EXCEPT ![o] = r])
      /\ req' = [req EXCEPT ![r].others = Tail(@)]
      /\ UNCHANGED <<status, paid, phase, toRecover, kitchen, looping, bounds,
                     rolledBack, handed>>
  BY DEF PayEstimate
<1>2. /\ req[r].order \in Orders /\ req[r].others \in Seq(Orders) /\ req[r] # Idle
      /\ o \in Orders /\ Tail(req[r].others) \in Seq(Orders)
  BY <1>1, RequestFields
<1>3. /\ req'[r] = [at |-> "pay_estimates", order |-> req[r].order,
                    others |-> Tail(req[r].others)]
      /\ \A x \in Requests \ {r} : req'[x] = req[x]
  <2>1. req[r] \in ReqStates
    BY DEF TypeOK
  <2>2. req[r] = [at |-> "pay_estimates", order |-> req[r].order, others |-> req[r].others]
    BY <1>1, <2>1 DEF ReqStates, Idle
  <2>3. \A tl : [req[r] EXCEPT !.others = tl]
                 = [at |-> "pay_estimates", order |-> req[r].order, others |-> tl]
    BY <2>2
  <2>4. req' = [req EXCEPT ![r] = [req[r] EXCEPT !.others = Tail(req[r].others)]]
    BY <1>1
  <2> QED BY <2>3, <2>4 DEF TypeOK
<1>4. req'[r].at = "pay_estimates" /\ req'[r].order = req[r].order
  BY <1>3
<1>5. TypeOK' /\ KitchenInv'
  <2>0. req'[r] \in ReqStates
    BY <1>2, <1>3 DEF ReqStates
  <2>1. req' \in [Requests -> ReqStates]
    BY <1>1, <1>3, <2>0 DEF TypeOK
  <2>2. rowLock' \in [Orders -> Actors \cup {NoOne}]
    BY <1>1 DEF TypeOK, Actors
  <2> QED BY <1>1, <2>1, <2>2 DEF TypeOK, KitchenInv, kitchen, looping, bounds
<1>6. \A p : BeingEnqueued(p)' <=> BeingEnqueued(p)
  BY <1>1, <1>3, <1>4 DEF BeingEnqueued
<1>7. RowsInv'
  <2>1. /\ \A x \in Requests :
              req[x].at \in {"pay_flushed", "pay_estimates"} =>
                 rowLock'[req[x].order] = rowLock[req[x].order]
        /\ \A t \in changed : rowLock'[t.order] = rowLock[t.order]
    <3>1. CASE rowLock' = rowLock
      BY <3>1
    <3>2. CASE Lockable(o, r) /\ rowLock' = [rowLock EXCEPT ![o] = r]
      <4>1. rowLock'[o] = r /\ \A p \in Orders \ {o} : rowLock'[p] = rowLock[p]
        BY <1>2, <3>2 DEF TypeOK
      <4>2. /\ \A x \in Requests \ {r} :
                  req[x].at \in {"pay_flushed", "pay_estimates"} => req[x].order # o
            /\ \A t \in changed : t.order # o /\ t.order \in Orders
        BY <1>2, <3>2, LockedByOne DEF TypeOK, Transition
      <4>3. \A x \in Requests : req[x].at # "idle" => req[x].order \in Orders
        BY RequestFields
      <4>4. rowLock[req[r].order] = r
        BY <1>1 DEF RowsInv
      <4> HIDE DEF o
      <4> QED BY <1>2, <4>1, <4>2, <4>3, <4>4
    <3> QED BY <1>1, <3>1, <3>2
  <2>2. phase = "up"
    BY <1>2 DEF RowsInv
  <2> QED BY <1>1, <1>3, <1>4, <2>1, <2>2 DEF RowsInv, looping
<1>8. PersistedIsDurable' /\ LedgerInv'
  BY <1>1 DEF PersistedIsDurable, LedgerInv, kitchen, looping
<1>9. BeingEnqueuedInEngine' /\ NoLostOrder'
  BY <1>1, <1>6 DEF BeingEnqueuedInEngine, NoLostOrder, InEngine, kitchen
<1>10. UnpaidOnlyAfterRollback'
  BY <1>1, <1>6 DEF UnpaidOnlyAfterRollback, InKitchen, kitchen
<1>11. OnceInv' /\ UnitsTakenUpOnce'
  BY <1>1, <1>6 DEF OnceInv, UnitsTakenUpOnce, kitchen
<1> QED BY <1>5, <1>7, <1>8, <1>9, <1>10, <1>11

\* What follows for an order when a step ticks after n of its units were pushed.
LEMMA TookKeeps ==
    ASSUME KitchenInv, KitchenInv', NEW p \in Orders, NEW n \in {0, Units[p]}, Took(p, n)
    PROVE  /\ baked'[p] + remaining'[p] = baked[p] + remaining[p] + n
           /\ n = 0 /\ remaining[p] = 0 => baked'[p] = baked[p] /\ remaining'[p] = 0
           /\ n = 0 => baked'[p] + remaining'[p] = baked[p] + remaining[p]
           /\ baked[p] >= Units[p] => baked'[p] >= Units[p]
           /\ InEngine(p) \/ n # 0 => InEngine(p)'
           /\ (remaining[p] > 0 => baked[p] + remaining[p] >= Units[p]) =>
                 /\ remaining'[p] > 0 => baked'[p] + remaining'[p] >= Units[p]
                 /\ p \in ToSet(readyAt') => p \in ToSet(readyAt) \/ baked'[p] >= Units[p]
<1>1. /\ baked[p] \in Nat /\ remaining[p] \in Nat /\ baked'[p] \in Nat /\ remaining'[p] \in Nat
      /\ Units[p] \in Nat \ {0}
  BY BakeryAssumption DEF KitchenInv
<1>2. n \in Nat /\ (n # 0 => n = Units[p])
  BY <1>1
<1> QED BY <1>1, <1>2 DEF Took, InEngine

LEMMA PayEnqueueStep ==
    ASSUME IInv, NEW r \in Requests, PayEnqueue(r) PROVE IInv'
<1> USE DEF IInv
<1> DEFINE o == req[r].order
           keys == EtaKeysBut(o, slots', queue')
           n(p) == IF p = o THEN Units[o] ELSE 0
<1>1. /\ req[r].at = "pay_flushed" /\ EngineEnqueue(o)
      /\ req' = [req EXCEPT ![r] = [at |-> "pay_estimates", order |-> o, others |-> keys]]
      /\ UNCHANGED <<database, phase, toRecover, looping, bounds, rolledBack, handed>>
  BY DEF PayEnqueue
<1>2. o \in Orders /\ req[r] # Idle /\ Units[o] \in Nat \ {0}
  BY <1>1, RequestFields, BakeryAssumption
<1> HIDE DEF o
<1>3. /\ KitchenInv' /\ \A p \in Orders : Took(p, n(p))
      /\ \A t \in InKitchen' : t \in InKitchen \/ t.order = o
  BY <1>1, <1>2, EnqueueStep
<1>4. keys \in Seq(Orders)
  BY <1>3, EtaKeysAreOrders DEF KitchenInv
<1> HIDE DEF keys
<1>5. /\ req'[r] = [at |-> "pay_estimates", order |-> o, others |-> keys]
      /\ req'[r].at = "pay_estimates" /\ req'[r].order = o
      /\ \A x \in Requests \ {r} : req'[x] = req[x]
  BY <1>1 DEF TypeOK
<1>6. /\ ~BeingEnqueued(o)
      /\ \A p : BeingEnqueued(p)' <=> BeingEnqueued(p) \/ p = o
  <2>1. rowLock[o] = r
    BY <1>1 DEF RowsInv, o
  <2>2. ~BeingEnqueued(o)
    BY <1>1, <2>1 DEF RowsInv, BeingEnqueued
  <2> QED BY <1>1, <1>5, <2>2 DEF BeingEnqueued
<1>7. \A p \in Orders : n(p) \in {0, Units[p]}
  OBVIOUS
<1>8. \A p \in Orders :
         /\ baked'[p] + remaining'[p] = baked[p] + remaining[p] + n(p)
         /\ n(p) = 0 => baked'[p] + remaining'[p] = baked[p] + remaining[p]
         /\ baked[p] >= Units[p] => baked'[p] >= Units[p]
         /\ InEngine(p) \/ n(p) # 0 => InEngine(p)'
         /\ (remaining[p] > 0 => baked[p] + remaining[p] >= Units[p]) =>
               /\ remaining'[p] > 0 => baked'[p] + remaining'[p] >= Units[p]
               /\ p \in ToSet(readyAt') => p \in ToSet(readyAt) \/ baked'[p] >= Units[p]
         /\ n(p) = 0 /\ remaining[p] = 0 => remaining'[p] = 0
  <2> HIDE DEF n
  <2> QED BY <1>3, <1>7, TookKeeps
<1>9. n(o) # 0 /\ \A p \in Orders : p # o => n(p) = 0
  BY <1>2
<1>10. baked[o] + remaining[o] = 0 => baked'[o] + remaining'[o] = Units[o]
  BY <1>2, <1>8
<1> HIDE DEF n
<1>11. phase = "up" /\ toRecover = {}
  BY <1>2 DEF RowsInv
<1>12. TypeOK'
  <2>1. req'[r] \in ReqStates
    BY <1>2, <1>4, <1>5 DEF ReqStates
  <2>2. req' \in [Requests -> ReqStates]
    BY <1>1, <1>5, <2>1 DEF TypeOK
  <2>3. /\ slots' \in [Slots -> Baking \cup {NoTask}]
        /\ queue' \in SUBSET BakeTask
        /\ seq' \in Nat
        /\ remaining' \in [Orders -> Nat]
        /\ readyAt' \in Seq(Orders)
        /\ baked' \in [Orders -> Nat]
    BY <1>3 DEF KitchenInv, SlotsType, QueueType
  <2> QED BY <1>1, <2>2, <2>3 DEF TypeOK, database, looping, bounds
<1>13. RowsInv'
  BY <1>1, <1>5, <1>11 DEF RowsInv, database, looping, o
<1>14. PersistedIsDurable'
  BY <1>1 DEF PersistedIsDurable, database, looping
<1>15. status[o] # "none"
  BY <1>1 DEF RowsInv, o
<1>16. LedgerInv'
  <2> SUFFICES ASSUME NEW p \in Orders
               PROVE  /\ remaining'[p] > 0 =>
                            baked'[p] + remaining'[p] >= Units[p] /\ status'[p] # "none"
                      /\ \/ p \in ToSet(readyAt')
                         \/ \E i \in DOMAIN batch' : batch'[i] = [order |-> p, status |-> "ready"]
                         \/ [order |-> p, status |-> "ready"] \in changed'
                         \/ status'[p] \in {"ready", "completed"}
                         => baked'[p] >= Units[p]
    BY DEF LedgerInv
  <2>1. batch' = batch /\ changed' = changed /\ status' = status
    BY <1>1 DEF database, looping
  <2>2. remaining'[p] > 0 => remaining[p] > 0 \/ p = o
    <3>1. remaining[p] \in Nat /\ remaining'[p] \in Nat
      BY <1>3 DEF KitchenInv
    <3> QED BY <1>8, <1>9, <3>1
  <2> QED BY <1>8, <1>15, <2>1, <2>2 DEF LedgerInv
<1>17. BeingEnqueuedInEngine'
  BY <1>6, <1>8, <1>9 DEF BeingEnqueuedInEngine
<1>18. NoLostOrder'
  BY <1>1, <1>8 DEF NoLostOrder, InEngine, database
<1>19. UnpaidOnlyAfterRollback'
  BY <1>1, <1>3, <1>6 DEF UnpaidOnlyAfterRollback, database
<1>20. OnceInv' /\ UnitsTakenUpOnce'
  <2>1. /\ paid' = paid /\ rolledBack' = rolledBack /\ phase' = "up" /\ toRecover' = {}
        /\ paid \subseteq Orders
    BY <1>1, <1>11 DEF database, TypeOK
  <2>2. \A p \in Orders \ {o} : baked'[p] + remaining'[p] = baked[p] + remaining[p]
    BY <1>8, <1>9
  <2>3. o \notin rolledBack /\ o \notin paid => baked'[o] + remaining'[o] = Units[o]
    BY <1>2, <1>6, <1>10 DEF OnceInv
  <2>4. OnceInv'
    BY <1>6, <2>1, <2>2, <2>3 DEF OnceInv
  <2>5. UnitsTakenUpOnce'
    BY <1>6, <1>11, <2>1, <2>2 DEF UnitsTakenUpOnce
  <2> QED BY <2>4, <2>5
<1> QED BY <1>3, <1>12, <1>13, <1>14, <1>16, <1>17, <1>18, <1>19, <1>20

\* A payment that ends gives back its rows and no others.
LEMMA ReleasedRows ==
    ASSUME TypeOK, NEW actor
    PROVE  /\ Released(actor) \in [Orders -> Actors \cup {NoOne}]
           /\ \A o \in Orders : rowLock[o] # actor => Released(actor)[o] = rowLock[o]
  BY DEF TypeOK, Released

LEMMA PayRollbackStep ==
    ASSUME IInv, NEW r \in Requests, req[r].at \in {"pay_flushed", "pay_estimates"},
           PayRollback(r), faults' \in 0..MaxFaults
    PROVE  IInv'
<1> USE DEF IInv
<1> DEFINE o == req[r].order
<1>1. /\ rowLock' = Released(r)
      /\ rolledBack' = IF req[r].at = "pay_estimates" THEN rolledBack \cup {o} ELSE rolledBack
      /\ req' = [req EXCEPT ![r] = Idle]
      /\ UNCHANGED <<status, paid, phase, toRecover, kitchen, looping, payments, crashes, handed>>
  BY DEF PayRollback
<1>2. o \in Orders /\ req[r] # Idle /\ status[o] # "none"
  BY RequestFields DEF RowsInv
<1>3. /\ req'[r] = Idle /\ req'[r].at = "idle" /\ \A x \in Requests \ {r} : req'[x] = req[x]
  BY <1>1 DEF TypeOK, Idle
<1>4. \A x \in Requests : req'[x].at # "idle" => req'[x] = req[x] /\ req[x].order \in Orders
                                                /\ x # r
  BY <1>3, RequestFields
<1>5. /\ rowLock' \in [Orders -> Actors \cup {NoOne}]
      /\ \A p \in Orders : rowLock[p] # r => rowLock'[p] = rowLock[p]
  BY <1>1, ReleasedRows
<1>6. /\ \A p : BeingEnqueued(p)' => BeingEnqueued(p)
      /\ \A p : BeingEnqueued(p) => BeingEnqueued(p)' \/ p \in rolledBack'
      /\ rolledBack \subseteq rolledBack' /\ rolledBack' \subseteq Orders
  <2>1. rolledBack \subseteq Orders
    BY DEF TypeOK
  <2> QED BY <1>1, <1>2, <1>3, <2>1 DEF BeingEnqueued
<1>7. RowsInv'
  <2>1. \A t \in changed : t.order \in Orders /\ r # Loop
    BY RequestFields DEF TypeOK, Transition
  <2>2. \A p \in rolledBack' : status'[p] # "none"
    BY <1>1, <1>2 DEF RowsInv
  <2> HIDE DEF o
  <2>3. \A x \in Requests :
           /\ req'[x].at \in {"pay_flushed", "pay_estimates"} => rowLock'[req'[x].order] = x
           /\ req'[x].at \in {"pay_checked", "pay_flushed", "pay_estimates"} =>
                 status'[req'[x].order] # "none"
           /\ req'[x].at = "pickup_checked" =>
                 status'[req'[x].order] \in {"ready", "completed"}
           /\ phase' # "up" => req'[x] = Idle
    BY <1>1, <1>3, <1>4, <1>5 DEF RowsInv
  <2>4. \A t \in changed' :
           rowLock'[t.order] = Loop /\ status'[t.order] \in AllowedPrev(t.status)
    BY <1>1, <1>5, <2>1 DEF RowsInv, looping
  <2> QED BY <1>1, <2>2, <2>3, <2>4 DEF RowsInv
<1> HIDE DEF o
<1>8. TypeOK' /\ KitchenInv'
  <2>1. req' \in [Requests -> ReqStates]
    BY <1>1 DEF TypeOK, ReqStates
  <2> QED BY <1>1, <1>5, <1>6, <2>1 DEF TypeOK, KitchenInv, kitchen, looping
<1>9. PersistedIsDurable' /\ LedgerInv'
  BY <1>1 DEF PersistedIsDurable, LedgerInv, kitchen, looping
<1>10. BeingEnqueuedInEngine' /\ NoLostOrder'
  BY <1>1, <1>6 DEF BeingEnqueuedInEngine, NoLostOrder, InEngine, kitchen
<1>11. UnpaidOnlyAfterRollback'
  BY <1>1, <1>6 DEF UnpaidOnlyAfterRollback, InKitchen, kitchen
<1>12. OnceInv' /\ UnitsTakenUpOnce'
  BY <1>1, <1>6 DEF OnceInv, UnitsTakenUpOnce, kitchen
<1> QED BY <1>7, <1>8, <1>9, <1>10, <1>11, <1>12

LEMMA PayCommitStep ==
    ASSUME IInv, NEW r \in Requests, PayCommit(r) PROVE IInv'
<1> USE DEF IInv
<1> DEFINE o == req[r].order
<1>1. /\ req[r].at = "pay_estimates" /\ o \notin paid
      /\ status' = [status EXCEPT ![o] = "queued"]
      /\ paid' = paid \cup {o}
      /\ rowLock' = Released(r)
      /\ req' = [req EXCEPT ![r] = Idle]
      /\ UNCHANGED <<phase, toRecover, kitchen, looping, bounds, rolledBack, handed>>
  BY DEF PayCommit
<1>2. /\ o \in Orders /\ req[r] # Idle /\ status[o] = "pending_payment" /\ rowLock[o] = r
      /\ BeingEnqueued(o)
  <2>1. o \in Orders /\ req[r] # Idle
    BY <1>1, RequestFields
  <2>2. status[o] # "none" /\ status[o] \in {"none", "pending_payment"}
    BY <1>1, <2>1 DEF RowsInv
  <2>3. rowLock[o] = r /\ BeingEnqueued(o)
    BY <1>1 DEF RowsInv, BeingEnqueued
  <2> QED BY <2>1, <2>2, <2>3
<1>3. status'[o] = "queued" /\ \A p \in Orders \ {o} : status'[p] = status[p]
  BY <1>1, <1>2 DEF TypeOK
<1>4. /\ req'[r] = Idle /\ req'[r].at = "idle" /\ \A x \in Requests \ {r} : req'[x] = req[x]
  BY <1>1 DEF TypeOK, Idle
<1>5. \A x \in Requests : req'[x].at # "idle" => req'[x] = req[x] /\ req[x].order \in Orders
                                                /\ x # r
  BY <1>4, RequestFields
<1>6. /\ rowLock' \in [Orders -> Actors \cup {NoOne}]
      /\ \A p \in Orders : rowLock[p] # r => rowLock'[p] = rowLock[p]
  BY <1>1, ReleasedRows
<1>7. /\ \A p : p = o => ~BeingEnqueued(p)'
      /\ \A p : p # o => (BeingEnqueued(p)' <=> BeingEnqueued(p))
  <2>1. \A x \in Requests \ {r} : req[x].at = "pay_estimates" => req[x].order # o
    BY <1>2 DEF RowsInv
  <2>2. ASSUME NEW p, p = o PROVE ~BeingEnqueued(p)'
    BY <1>4, <2>1, <2>2 DEF BeingEnqueued
  <2>3. ASSUME NEW p, p # o PROVE BeingEnqueued(p)' <=> BeingEnqueued(p)
    BY <1>4, <2>3 DEF BeingEnqueued
  <2> QED BY <2>2, <2>3
<1> HIDE DEF o
<1>8. TypeOK' /\ KitchenInv'
  <2>1. req' \in [Requests -> ReqStates]
    BY <1>1 DEF TypeOK, ReqStates
  <2> QED BY <1>1, <1>2, <1>6, <2>1 DEF TypeOK, KitchenInv, kitchen, looping, bounds
<1>9. RowsInv'
  <2>1. \A t \in changed : t.order \in Orders /\ r # Loop
    BY RequestFields DEF TypeOK, Transition
  <2>2. \A p \in Orders : p \in paid' <=> status'[p] \notin {"none", "pending_payment"}
    BY <1>1, <1>3 DEF RowsInv
  <2>3. \A x \in Requests :
           /\ req'[x].at \in {"pay_flushed", "pay_estimates"} => rowLock'[req'[x].order] = x
           /\ req'[x].at \in {"pay_checked", "pay_flushed", "pay_estimates"} =>
                 status'[req'[x].order] # "none"
           /\ req'[x].at = "pickup_checked" =>
                 status'[req'[x].order] \in {"ready", "completed"}
           /\ phase' # "up" => req'[x] = Idle
    BY <1>1, <1>2, <1>3, <1>4, <1>5, <1>6 DEF RowsInv
  <2>4. \A t \in changed' :
           rowLock'[t.order] = Loop /\ status'[t.order] \in AllowedPrev(t.status)
    <3>1. \A t \in changed : t.order # o
      BY <1>2, <2>1 DEF RowsInv
    <3> QED BY <1>1, <1>3, <1>6, <2>1, <3>1 DEF RowsInv, looping
  <2>5. \A p \in toRecover' : status'[p] \in Active
    BY <1>1, <1>3 DEF RowsInv, Active, TypeOK
  <2>6. \A p \in rolledBack' : status'[p] # "none"
    BY <1>1, <1>3 DEF RowsInv, TypeOK
  <2> QED BY <1>1, <2>2, <2>3, <2>4, <2>5, <2>6 DEF RowsInv
<1>10. PersistedIsDurable'
  BY <1>1, <1>2, <1>3 DEF PersistedIsDurable, StatusRank, looping, TypeOK
<1>11. LedgerInv'
  BY <1>1, <1>2, <1>3 DEF LedgerInv, kitchen, looping
<1>12. BeingEnqueuedInEngine' /\ NoLostOrder'
  BY <1>1, <1>2, <1>3, <1>7 DEF BeingEnqueuedInEngine, NoLostOrder, InEngine, kitchen, Active
<1>13. UnpaidOnlyAfterRollback'
  BY <1>1, <1>7 DEF UnpaidOnlyAfterRollback, InKitchen, kitchen
<1>14. OnceInv' /\ UnitsTakenUpOnce'
  BY <1>1, <1>2, <1>3, <1>7 DEF OnceInv, UnitsTakenUpOnce, RowsInv, kitchen
<1> QED BY <1>8, <1>9, <1>10, <1>11, <1>12, <1>13, <1>14

-----------------------------------------------------------------------------
(* The loop.                                                               *)

LEMMA BakeElapsesStep ==
    ASSUME IInv, NEW s \in Slots, BakeElapses(s) PROVE IInv'
<1> USE DEF IInv
<1>1. UNCHANGED <<database, phase, toRecover, queue, seq, remaining, readyAt, baked,
                  looping, req, bounds, rolledBack, handed>>
  BY DEF BakeElapses
<1>2. KitchenInv' /\ InKitchen' = InKitchen
  BY ElapseStep
<1>3. TypeOK'
  BY <1>1, <1>2 DEF TypeOK, KitchenInv, SlotsType, database, looping, bounds
<1>4. \A p : BeingEnqueued(p)' <=> BeingEnqueued(p)
  BY <1>1 DEF BeingEnqueued
<1>5. RowsInv' /\ PersistedIsDurable' /\ LedgerInv'
  BY <1>1 DEF RowsInv, PersistedIsDurable, LedgerInv, database, looping
<1>6. BeingEnqueuedInEngine' /\ NoLostOrder'
  BY <1>1, <1>4 DEF BeingEnqueuedInEngine, NoLostOrder, InEngine, database
<1>7. UnpaidOnlyAfterRollback'
  BY <1>1, <1>2, <1>4 DEF UnpaidOnlyAfterRollback, database
<1>8. OnceInv' /\ UnitsTakenUpOnce'
  BY <1>1, <1>4 DEF OnceInv, UnitsTakenUpOnce, database
<1> QED BY <1>2, <1>3, <1>5, <1>6, <1>7, <1>8

LEMMA ReconcileStep == ASSUME IInv, Reconcile PROVE IInv'
<1> USE DEF IInv
<1>1. /\ UNCHANGED <<database, phase, toRecover, seq, persisted, req, bounds, rolledBack, handed>>
      /\ TickAndAccount(queue, remaining)
      /\ batch' = PendingTransitions' /\ changed' = {}
      /\ loop' \in {"sleep", "persist"}
  BY DEF Reconcile
<1>2. KitchenInv' /\ InKitchen' \subseteq InKitchen /\ \A p \in Orders : Took(p, 0)
  BY <1>1, TickStep
<1>3. (KitchenInv => PendingOK)'
  BY PendingAreTransitions, PTL
<1>4. /\ batch' \in Seq(Transition)
      /\ \A i \in DOMAIN batch' : batch'[i].status = "ready" =>
                                     batch'[i].order \in ToSet(readyAt')
  BY <1>1, <1>2, <1>3 DEF PendingOK
<1>5. \A p \in Orders :
         /\ baked'[p] + remaining'[p] = baked[p] + remaining[p]
         /\ remaining[p] = 0 => baked'[p] = baked[p] /\ remaining'[p] = 0
         /\ baked[p] >= Units[p] => baked'[p] >= Units[p]
         /\ InEngine(p) => InEngine(p)'
         /\ (remaining[p] > 0 => baked[p] + remaining[p] >= Units[p]) =>
               /\ remaining'[p] > 0 => baked'[p] + remaining'[p] >= Units[p]
               /\ p \in ToSet(readyAt') => p \in ToSet(readyAt) \/ baked'[p] >= Units[p]
  <2> SUFFICES ASSUME NEW p \in Orders
               PROVE  /\ baked'[p] + remaining'[p] = baked[p] + remaining[p]
                      /\ remaining[p] = 0 => baked'[p] = baked[p] /\ remaining'[p] = 0
                      /\ baked[p] >= Units[p] => baked'[p] >= Units[p]
                      /\ InEngine(p) => InEngine(p)'
                      /\ (remaining[p] > 0 => baked[p] + remaining[p] >= Units[p]) =>
                            /\ remaining'[p] > 0 => baked'[p] + remaining'[p] >= Units[p]
                            /\ p \in ToSet(readyAt') =>
                                  p \in ToSet(readyAt) \/ baked'[p] >= Units[p]
    OBVIOUS
  <2>1. Took(p, 0) /\ 0 \in {0, Units[p]}
    BY <1>2
  <2> QED BY <1>2, <2>1, TookKeeps
<1>6. TypeOK'
  BY <1>1, <1>2, <1>4 DEF TypeOK, KitchenInv, SlotsType, QueueType, database, bounds
<1>7. \A p : BeingEnqueued(p)' <=> BeingEnqueued(p)
  BY <1>1 DEF BeingEnqueued
<1>8. RowsInv' /\ PersistedIsDurable'
  BY <1>1 DEF RowsInv, PersistedIsDurable, database
<1>9. LedgerInv'
  <2> SUFFICES ASSUME NEW p \in Orders
               PROVE  /\ remaining'[p] > 0 =>
                            baked'[p] + remaining'[p] >= Units[p] /\ status'[p] # "none"
                      /\ \/ p \in ToSet(readyAt')
                         \/ \E i \in DOMAIN batch' : batch'[i] = [order |-> p, status |-> "ready"]
                         \/ [order |-> p, status |-> "ready"] \in changed'
                         \/ status'[p] \in {"ready", "completed"}
                         => baked'[p] >= Units[p]
    BY DEF LedgerInv
  <2>1. changed' = {} /\ status' = status
    BY <1>1 DEF database
  <2>2. remaining'[p] > 0 => remaining[p] > 0
    <3>1. remaining[p] \in Nat /\ remaining'[p] \in Nat
      BY <1>2 DEF KitchenInv
    <3> QED BY <1>5, <3>1
  <2>3. p \in ToSet(readyAt') => baked'[p] >= Units[p]
    BY <1>5 DEF LedgerInv
  <2>4. (\E i \in DOMAIN batch' : batch'[i] = [order |-> p, status |-> "ready"]) =>
           p \in ToSet(readyAt')
    BY <1>4
  <2> QED BY <1>5, <2>1, <2>2, <2>3, <2>4 DEF LedgerInv
<1>10. BeingEnqueuedInEngine' /\ NoLostOrder'
  BY <1>1, <1>5, <1>7 DEF BeingEnqueuedInEngine, NoLostOrder, InEngine, database
<1>11. UnpaidOnlyAfterRollback'
  BY <1>1, <1>2, <1>7 DEF UnpaidOnlyAfterRollback, database
<1>12. OnceInv' /\ UnitsTakenUpOnce'
  <2>1. /\ paid' = paid /\ status' = status /\ rolledBack' = rolledBack /\ phase' = phase
        /\ toRecover' = toRecover /\ paid \subseteq Orders
    BY <1>1 DEF database, TypeOK
  <2>2. phase = "down" => \A p \in Orders : remaining'[p] = 0 /\ baked'[p] = baked[p]
    BY <1>5 DEF OnceInv
  <2>3. OnceInv'
    BY <1>5, <1>7, <2>1, <2>2 DEF OnceInv
  <2>4. UnitsTakenUpOnce'
    BY <1>5, <1>7, <2>1 DEF UnitsTakenUpOnce
  <2> QED BY <2>3, <2>4
<1> QED BY <1>2, <1>6, <1>8, <1>9, <1>10, <1>11, <1>12

LEMMA PersistRowStep == ASSUME IInv, PersistRow PROVE IInv'
<1> USE DEF IInv
<1> DEFINE t == Head(batch)
<1>1. /\ batch # << >>
      /\ \/ /\ status[t.order] \in AllowedPrev(t.status)
            /\ Lockable(t.order, Loop)
            /\ rowLock' = [rowLock EXCEPT ![t.order] = Loop]
            /\ changed' = changed \cup {t}
         \/ UNCHANGED <<rowLock, changed>>
      /\ batch' = Tail(batch)
      /\ UNCHANGED <<status, paid, phase, toRecover, kitchen, persisted, loop, req, bounds,
                     rolledBack, handed>>
  BY DEF PersistRow
<1>2. /\ t \in Transition /\ t.order \in Orders /\ batch' \in Seq(Transition)
      /\ t = batch[1] /\ 1 \in DOMAIN batch
      /\ \A i \in DOMAIN batch' : \E j \in DOMAIN batch : batch'[i] = batch[j]
  <2>1. batch \in Seq(Transition) /\ batch # << >>
    BY <1>1 DEF TypeOK
  <2>2. /\ t \in Transition /\ batch' \in Seq(Transition) /\ t = batch[1] /\ 1 \in DOMAIN batch
        /\ Len(batch) \in Nat /\ Len(batch') = Len(batch) - 1
        /\ \A i \in 1..Len(batch') : batch'[i] = batch[i + 1]
    BY <1>1, <2>1
  <2>3. \A i \in DOMAIN batch' : \E j \in DOMAIN batch : batch'[i] = batch[j]
    <3> SUFFICES ASSUME NEW i \in DOMAIN batch' PROVE \E j \in DOMAIN batch : batch'[i] = batch[j]
      OBVIOUS
    <3>1. i \in 1..Len(batch') /\ i + 1 \in DOMAIN batch
      BY <2>1, <2>2
    <3> QED BY <2>2, <3>1
  <2> QED BY <2>2, <2>3 DEF Transition
<1> HIDE DEF t
<1>3. /\ rowLock' \in [Orders -> Actors \cup {NoOne}] /\ changed' \subseteq Transition
      /\ \A u \in changed' : u \in changed \/ u = t
      /\ \A u \in changed' : rowLock'[u.order] = Loop /\ status[u.order] \in AllowedPrev(u.status)
      /\ \A r \in Requests : req[r].at \in {"pay_flushed", "pay_estimates"} =>
            rowLock'[req[r].order] = r
  <2>1. CASE UNCHANGED <<rowLock, changed>>
    BY <2>1 DEF TypeOK, RowsInv
  <2>2. CASE /\ status[t.order] \in AllowedPrev(t.status)
             /\ Lockable(t.order, Loop)
             /\ rowLock' = [rowLock EXCEPT ![t.order] = Loop]
             /\ changed' = changed \cup {t}
    <3>1. /\ rowLock'[t.order] = Loop
          /\ \A p \in Orders \ {t.order} : rowLock'[p] = rowLock[p]
      BY <1>2, <2>2 DEF TypeOK
    <3>2. rowLock' \in [Orders -> Actors \cup {NoOne}] /\ changed' \subseteq Transition
      BY <1>2, <2>2 DEF TypeOK, Actors
    <3>3. \A u \in changed' : u.order \in Orders
      BY <3>2 DEF Transition
    <3>4. \A u \in changed' : rowLock'[u.order] = Loop /\ status[u.order] \in AllowedPrev(u.status)
      <4> SUFFICES ASSUME NEW u \in changed'
                   PROVE  rowLock'[u.order] = Loop /\ status[u.order] \in AllowedPrev(u.status)
        OBVIOUS
      <4>1. CASE u = t
        BY <2>2, <3>1, <4>1
      <4>2. CASE u \in changed
        BY <3>1, <3>3, <4>2 DEF RowsInv
      <4> QED BY <2>2, <4>1, <4>2
    <3>5. ASSUME NEW r \in Requests, req[r].at \in {"pay_flushed", "pay_estimates"}
          PROVE  rowLock'[req[r].order] = r
      <4>1. rowLock[req[r].order] = r /\ req[r].order \in Orders /\ r # Loop /\ r # NoOne
        BY <3>5, RequestFields DEF RowsInv
      <4>2. req[r].order # t.order
        BY <2>2, <4>1 DEF Lockable
      <4> QED BY <3>1, <4>1, <4>2
    <3> QED BY <2>2, <3>2, <3>4, <3>5
  <2> QED BY <1>1, <2>1, <2>2
<1>4. TypeOK' /\ KitchenInv'
  BY <1>1, <1>2, <1>3 DEF TypeOK, KitchenInv, kitchen, bounds
<1>5. \A p : BeingEnqueued(p)' <=> BeingEnqueued(p)
  BY <1>1 DEF BeingEnqueued
<1>6. RowsInv'
  BY <1>1, <1>3 DEF RowsInv
<1>7. PersistedIsDurable'
  BY <1>1 DEF PersistedIsDurable
<1>8. LedgerInv'
  <2> SUFFICES ASSUME NEW p \in Orders,
                      \/ \E i \in DOMAIN batch' : batch'[i] = [order |-> p, status |-> "ready"]
                      \/ [order |-> p, status |-> "ready"] \in changed'
               PROVE  baked'[p] >= Units[p]
    BY <1>1 DEF LedgerInv, kitchen
  <2>1. \/ \E i \in DOMAIN batch : batch[i] = [order |-> p, status |-> "ready"]
        \/ [order |-> p, status |-> "ready"] \in changed
    BY <1>2, <1>3
  <2> QED BY <1>1, <2>1 DEF LedgerInv, kitchen
<1>9. BeingEnqueuedInEngine' /\ NoLostOrder'
  BY <1>1, <1>5 DEF BeingEnqueuedInEngine, NoLostOrder, InEngine, kitchen
<1>10. UnpaidOnlyAfterRollback'
  BY <1>1, <1>5 DEF UnpaidOnlyAfterRollback, InKitchen, kitchen
<1>11. OnceInv' /\ UnitsTakenUpOnce'
  BY <1>1, <1>5 DEF OnceInv, UnitsTakenUpOnce, kitchen
<1> QED BY <1>4, <1>6, <1>7, <1>8, <1>9, <1>10, <1>11

\* What is written was read as allowed, and has not moved since.
LEMMA AdvancedBy ==
    ASSUME RowsInv, NEW o \in Orders
    PROVE  \/ \A map : Advanced(map)[o] = map[o]
           \/ \E t \in changed : /\ t.order = o /\ status[o] \in AllowedPrev(t.status)
                                 /\ \A map : Advanced(map)[o] = t.status
<1>1. CASE \E t \in changed : t.order = o
  <2> DEFINE t == CHOOSE u \in changed : u.order = o
  <2>1. t \in changed /\ t.order = o
    BY <1>1
  <2>2. \A map : Advanced(map)[o] = t.status
    BY <1>1 DEF Advanced
  <2> HIDE DEF t
  <2> QED BY <2>1, <2>2 DEF RowsInv
<1>2. CASE ~(\E t \in changed : t.order = o)
  BY <1>2 DEF Advanced
<1> QED BY <1>1, <1>2

LEMMA PersistCommitStep == ASSUME IInv, PersistCommit PROVE IInv'
<1> USE DEF IInv
<1>1. /\ batch = << >>
      /\ status' = Advanced(status) /\ persisted' = Advanced(persisted)
      /\ rowLock' = Released(Loop) /\ changed' = {} /\ loop' = "sleep"
      /\ UNCHANGED <<paid, phase, toRecover, kitchen, batch, req, bounds, rolledBack, handed>>
  BY DEF PersistCommit
<1>2. ASSUME NEW p \in Orders
      PROVE  \/ status'[p] = status[p] /\ persisted'[p] = persisted[p]
             \/ \E t \in changed :
                   /\ t.order = p /\ t = [order |-> p, status |-> t.status]
                   /\ status'[p] = t.status /\ persisted'[p] = t.status
                   /\ t.status \in {"baking", "ready"} /\ status[p] \in AllowedPrev(t.status)
  <2>1. CASE \A map : Advanced(map)[p] = map[p]
    BY <1>1, <2>1
  <2>2. CASE \E t \in changed : /\ t.order = p /\ status[p] \in AllowedPrev(t.status)
                                /\ \A map : Advanced(map)[p] = t.status
    <3>1. PICK t \in changed : /\ t.order = p /\ status[p] \in AllowedPrev(t.status)
                               /\ \A map : Advanced(map)[p] = t.status
      BY <2>2
    <3>2. t \in Transition
      BY DEF TypeOK
    <3>3. t.status \in {"baking", "ready"} /\ t = [order |-> t.order, status |-> t.status]
      BY <3>2 DEF Transition
    <3>4. status'[p] = t.status /\ persisted'[p] = t.status
      BY <1>1, <3>1
    <3> QED BY <3>1, <3>3, <3>4
  <2> QED BY <2>1, <2>2, AdvancedBy
<1>3. ASSUME NEW p \in Orders
      PROVE  \/ status'[p] = status[p] /\ persisted'[p] = persisted[p]
             \/ /\ status[p] \in {"queued", "baking"}
                /\ status'[p] \in {"baking", "ready"} /\ persisted'[p] = status'[p]
                /\ status'[p] = "baking" => status[p] = "queued"
                /\ status'[p] = "ready" => [order |-> p, status |-> "ready"] \in changed
  BY <1>2 DEF AllowedPrev
<1>4. /\ rowLock' \in [Orders -> Actors \cup {NoOne}]
      /\ \A p \in Orders : rowLock[p] # Loop => rowLock'[p] = rowLock[p]
  BY <1>1, ReleasedRows
<1>5. /\ status' \in [Orders -> {"none", "pending_payment", "queued", "baking", "ready",
                                 "completed"}]
      /\ persisted' \in [Orders -> {"none", "baking", "ready"}]
  <2>1. status' = [p \in Orders |-> status'[p]] /\ persisted' = [p \in Orders |-> persisted'[p]]
    BY <1>1 DEF Advanced
  <2>2. \A p \in Orders :
           /\ status'[p] \in {"none", "pending_payment", "queued", "baking", "ready", "completed"}
           /\ persisted'[p] \in {"none", "baking", "ready"}
    BY <1>3 DEF TypeOK
  <2> QED BY <2>1, <2>2
<1>6. TypeOK' /\ KitchenInv'
  BY <1>1, <1>4, <1>5 DEF TypeOK, KitchenInv, kitchen, bounds
<1>7. \A p : BeingEnqueued(p)' <=> BeingEnqueued(p)
  BY <1>1 DEF BeingEnqueued
<1>8. \A p \in Orders :
         /\ status'[p] # status[p] /\ status'[p] = "ready" => baked[p] >= Units[p]
         /\ baked[p] \in Nat /\ remaining[p] \in Nat /\ Units[p] \in Nat \ {0}
  BY <1>3, BakeryAssumption DEF LedgerInv, KitchenInv
<1>9. RowsInv'
  <2>1. \A p \in Orders : p \in paid' <=> status'[p] \notin {"none", "pending_payment"}
    BY <1>1, <1>3 DEF RowsInv
  <2>2. \A r \in Requests :
           /\ req'[r].at \in {"pay_flushed", "pay_estimates"} => rowLock'[req'[r].order] = r
           /\ req'[r].at \in {"pay_checked", "pay_flushed", "pay_estimates"} =>
                 status'[req'[r].order] # "none"
           /\ req'[r].at = "pickup_checked" => status'[req'[r].order] \in {"ready", "completed"}
           /\ phase' # "up" => req'[r] = Idle
    <3> SUFFICES ASSUME NEW r \in Requests
                 PROVE
           /\ req[r].at \in {"pay_flushed", "pay_estimates"} => rowLock'[req[r].order] = r
           /\ req[r].at \in {"pay_checked", "pay_flushed", "pay_estimates"} =>
                 status'[req[r].order] # "none"
           /\ req[r].at = "pickup_checked" => status'[req[r].order] \in {"ready", "completed"}
           /\ phase # "up" => req[r] = Idle
      BY <1>1
    <3>1. req[r].at # "idle" => req[r].order \in Orders
      BY RequestFields
    <3>2. r # Loop
      BY RequestFields
    <3> QED BY <1>3, <1>4, <3>1, <3>2 DEF RowsInv
  <2>3. \A p \in toRecover' : status'[p] \in Active
    <3> SUFFICES ASSUME NEW p \in toRecover, status'[p] # status[p] PROVE status'[p] \in Active
      BY <1>1 DEF RowsInv
    <3>1. p \in Orders /\ baked[p] + remaining[p] = 0
      BY DEF TypeOK, OnceInv
    <3>2. ~(baked[p] >= Units[p])
      BY <1>8, <3>1
    <3>3. status'[p] \in {"baking", "ready"} /\ status'[p] # "ready"
      BY <1>3, <1>8, <3>1, <3>2
    <3> QED BY <3>3 DEF Active
  <2>4. ASSUME NEW p \in rolledBack' PROVE status'[p] # "none"
    <3>1. p \in Orders /\ status[p] # "none"
      BY <1>1 DEF RowsInv, TypeOK
    <3> QED BY <1>3, <3>1
  <2> QED BY <1>1, <2>1, <2>2, <2>3, <2>4 DEF RowsInv
<1>10. PersistedIsDurable'
  <2> SUFFICES ASSUME NEW p \in Orders, persisted'[p] # "none"
               PROVE  StatusRank[status'[p]] >= StatusRank[persisted'[p]]
    BY DEF PersistedIsDurable
  <2>1. CASE status'[p] = status[p] /\ persisted'[p] = persisted[p]
    BY <2>1 DEF PersistedIsDurable
  <2>2. CASE persisted'[p] = status'[p] /\ status'[p] \in {"baking", "ready"}
    BY <2>2 DEF StatusRank
  <2> QED BY <1>3, <2>1, <2>2
<1>11. LedgerInv'
  BY <1>1, <1>3, <1>8 DEF LedgerInv, kitchen
<1>12. BeingEnqueuedInEngine' /\ NoLostOrder'
  BY <1>1, <1>3, <1>7 DEF BeingEnqueuedInEngine, NoLostOrder, InEngine, kitchen, Active
<1>13. UnpaidOnlyAfterRollback'
  BY <1>1, <1>7 DEF UnpaidOnlyAfterRollback, InKitchen, kitchen
<1>14. OnceInv' /\ UnitsTakenUpOnce'
  <2>1. \A p \in Orders : phase = "down" /\ status'[p] # status[p] =>
           /\ status[p] \notin {"ready", "completed"} /\ status'[p] # "ready"
           /\ status'[p] # "completed"
    <3> SUFFICES ASSUME NEW p \in Orders, phase = "down", status'[p] # status[p]
                 PROVE  /\ status[p] \notin {"ready", "completed"} /\ status'[p] # "ready"
                        /\ status'[p] # "completed"
      OBVIOUS
    <3>1. status[p] \in {"queued", "baking"} /\ status'[p] \in {"baking", "ready"}
      BY <1>3
    <3>2. baked[p] + remaining[p] = 0
      BY <3>1 DEF OnceInv
    <3> QED BY <1>8, <3>1, <3>2
  <2>2. OnceInv'
    BY <1>1, <1>7, <2>1 DEF OnceInv, kitchen
  <2>3. UnitsTakenUpOnce'
    BY <1>1, <1>7 DEF UnitsTakenUpOnce, kitchen
  <2> QED BY <2>2, <2>3
<1> QED BY <1>6, <1>9, <1>10, <1>11, <1>12, <1>13, <1>14

LEMMA PersistRaisesStep ==
    ASSUME IInv, PersistRaises, faults' \in 0..MaxFaults PROVE IInv'
<1> USE DEF IInv
<1>1. /\ rowLock' = Released(Loop) /\ batch' = << >> /\ changed' = {} /\ loop' = "dead"
      /\ UNCHANGED <<status, paid, phase, toRecover, kitchen, persisted, req, payments, crashes,
                     rolledBack, handed>>
  BY DEF PersistRaises
<1>2. /\ rowLock' \in [Orders -> Actors \cup {NoOne}]
      /\ \A p \in Orders : rowLock[p] # Loop => rowLock'[p] = rowLock[p]
  BY <1>1, ReleasedRows
<1>3. TypeOK' /\ KitchenInv'
  BY <1>1, <1>2 DEF TypeOK, KitchenInv, kitchen
<1>4. \A p : BeingEnqueued(p)' <=> BeingEnqueued(p)
  BY <1>1 DEF BeingEnqueued
<1>5. RowsInv'
  <2>1. ASSUME NEW r \in Requests, req[r].at \in {"pay_flushed", "pay_estimates"}
        PROVE  rowLock'[req[r].order] = r
    <3>1. rowLock[req[r].order] = r /\ req[r].order \in Orders /\ r # Loop
      BY <2>1, RequestFields DEF RowsInv
    <3> QED BY <1>2, <3>1
  <2> QED BY <1>1, <2>1 DEF RowsInv
<1>6. PersistedIsDurable' /\ LedgerInv'
  <2>1. DOMAIN batch' = {}
    BY <1>1
  <2> QED BY <1>1, <2>1 DEF PersistedIsDurable, LedgerInv, kitchen
<1>7. BeingEnqueuedInEngine' /\ NoLostOrder'
  BY <1>1, <1>4 DEF BeingEnqueuedInEngine, NoLostOrder, InEngine, kitchen
<1>8. UnpaidOnlyAfterRollback'
  BY <1>1, <1>4 DEF UnpaidOnlyAfterRollback, InKitchen, kitchen
<1>9. OnceInv' /\ UnitsTakenUpOnce'
  BY <1>1, <1>4 DEF OnceInv, UnitsTakenUpOnce, kitchen
<1> QED BY <1>3, <1>5, <1>6, <1>7, <1>8, <1>9

\* Waking changes where the loop stands and nothing else.
LEMMA WakeStep == ASSUME IInv, Wake PROVE IInv'
<1> USE DEF IInv
<1>1. /\ loop' = "reconcile"
      /\ UNCHANGED <<database, phase, toRecover, kitchen, batch, changed, persisted, req,
                     bounds, rolledBack, handed>>
  BY DEF Wake
<1>2. TypeOK' /\ KitchenInv'
  BY <1>1 DEF TypeOK, KitchenInv, kitchen, database, bounds
<1>3. \A p : BeingEnqueued(p)' <=> BeingEnqueued(p)
  BY <1>1 DEF BeingEnqueued
<1>4. RowsInv' /\ PersistedIsDurable' /\ LedgerInv'
  BY <1>1 DEF RowsInv, PersistedIsDurable, LedgerInv, kitchen, database
<1>5. BeingEnqueuedInEngine' /\ NoLostOrder'
  BY <1>1, <1>3 DEF BeingEnqueuedInEngine, NoLostOrder, InEngine, kitchen, database
<1>6. UnpaidOnlyAfterRollback'
  BY <1>1, <1>3 DEF UnpaidOnlyAfterRollback, InKitchen, kitchen, database
<1>7. OnceInv' /\ UnitsTakenUpOnce'
  BY <1>1, <1>3 DEF OnceInv, UnitsTakenUpOnce, kitchen, database
<1> QED BY <1>2, <1>4, <1>5, <1>6, <1>7

-----------------------------------------------------------------------------
(* Stopping and starting.                                                  *)

LEMMA CrashStep == ASSUME IInv, Crash PROVE IInv'
<1> USE DEF IInv
<1>1. /\ phase # "down" /\ crashes < MaxCrashes /\ crashes' = crashes + 1
      /\ phase' = "down" /\ toRecover' = {}
      /\ rowLock' = [o \in Orders |-> NoOne]
      /\ slots' = [s \in Slots |-> NoTask] /\ queue' = {} /\ seq' = 0
      /\ remaining' = [o \in Orders |-> 0] /\ readyAt' = << >>
      /\ persisted' = [o \in Orders |-> "none"]
      /\ loop' = "off" /\ batch' = << >> /\ changed' = {}
      /\ req' = [r \in Requests |-> Idle]
      /\ baked' = [o \in Orders |-> IF status[o] \in {"ready", "completed"} THEN baked[o] ELSE 0]
      /\ rolledBack' = {o \in rolledBack \cup {p \in Orders : BeingEnqueued(p)} :
                           status[o] \in {"ready", "completed"}}
      /\ UNCHANGED <<status, paid, payments, faults, handed>>
  BY DEF Crash
<1>2. /\ SlotsType(slots') /\ QueueType(queue') /\ BusySlots(slots') = {}
      /\ TasksOn(slots') = {} /\ Distinct(slots', queue')
      /\ Counted(slots', queue', remaining') /\ remaining' \in [Orders -> Nat]
  BY <1>1, EmptyKitchen
<1>3. baked' \in [Orders -> Nat]
  BY <1>1 DEF TypeOK
<1>4. KitchenInv'
  BY <1>1, <1>2, <1>3 DEF KitchenInv
<1>5. ~(\E p : BeingEnqueued(p)')
  BY <1>1 DEF BeingEnqueued, Idle
<1>6. TypeOK'
  <2>1. /\ rowLock' \in [Orders -> Actors \cup {NoOne}]
        /\ req' \in [Requests -> ReqStates]
        /\ persisted' \in [Orders -> {"none", "baking", "ready"}]
        /\ batch' \in Seq(Transition) /\ changed' \subseteq Transition
    BY <1>1 DEF ReqStates
  <2>2. crashes' \in 0..MaxCrashes
    BY <1>1, BakeryAssumption DEF TypeOK
  <2>3. rolledBack' \subseteq Orders
    BY <1>1 DEF TypeOK
  <2>4. readyAt' \in Seq(Orders) /\ seq' \in Nat
    BY <1>1
  <2> QED BY <1>1, <1>2, <1>3, <2>1, <2>2, <2>3, <2>4 DEF TypeOK, SlotsType, QueueType
<1>7. RowsInv'
  BY <1>1 DEF RowsInv, Idle
<1>8. PersistedIsDurable'
  BY <1>1 DEF PersistedIsDurable
<1>9. LedgerInv'
  <2>1. ToSet(readyAt') = {} /\ DOMAIN batch' = {}
    BY <1>1 DEF ToSet
  <2>2. \A p \in Orders : remaining'[p] = 0
    BY <1>1
  <2>3. \A p \in Orders : status'[p] \in {"ready", "completed"} => baked'[p] >= Units[p]
    BY <1>1 DEF LedgerInv
  <2>4. changed' = {}
    BY <1>1
  <2> QED BY <2>1, <2>2, <2>3, <2>4 DEF LedgerInv
<1>10. BeingEnqueuedInEngine' /\ NoLostOrder' /\ UnitsTakenUpOnce'
  BY <1>1, <1>5 DEF BeingEnqueuedInEngine, NoLostOrder, UnitsTakenUpOnce
<1>11. UnpaidOnlyAfterRollback'
  BY <1>1, <1>2 DEF UnpaidOnlyAfterRollback, InKitchen
<1>12. OnceInv'
  <2>1. \A p \in Orders : p \notin paid' => baked'[p] + remaining'[p] = 0
    BY <1>1 DEF RowsInv
  <2>2. ASSUME NEW p \in Orders, p \notin rolledBack', status[p] \in {"ready", "completed"}
        PROVE  baked'[p] = Units[p]
    <3>1. p \in paid /\ p \notin toRecover
      BY <2>2 DEF RowsInv, Active
    <3>2. p \notin rolledBack /\ ~BeingEnqueued(p)
      BY <1>1, <2>2
    <3>3. baked[p] + remaining[p] = Units[p] /\ baked[p] >= Units[p]
      BY <1>1, <2>2, <3>1, <3>2 DEF UnitsTakenUpOnce, LedgerInv
    <3>4. baked[p] \in Nat /\ remaining[p] \in Nat /\ Units[p] \in Nat
      BY BakeryAssumption DEF TypeOK
    <3> QED BY <1>1, <2>2, <3>3, <3>4
  <2>3. \A p \in Orders :
           status'[p] \notin {"ready", "completed"} => baked'[p] + remaining'[p] = 0
    BY <1>1
  <2> QED BY <1>1, <1>5, <2>1, <2>2, <2>3 DEF OnceInv
<1> QED BY <1>4, <1>6, <1>7, <1>8, <1>9, <1>10, <1>11, <1>12

LEMMA StartUpStep == ASSUME IInv, StartUp PROVE IInv'
<1> USE DEF IInv
<1>1. /\ phase = "down" /\ phase' = "recovering"
      /\ toRecover' = {o \in Orders : status[o] \in Active}
      /\ UNCHANGED <<database, kitchen, looping, req, bounds, rolledBack, handed>>
  BY DEF StartUp
<1>2. TypeOK' /\ KitchenInv'
  BY <1>1 DEF TypeOK, KitchenInv, kitchen, database, looping, bounds
<1>3. \A p : BeingEnqueued(p)' <=> BeingEnqueued(p)
  BY <1>1 DEF BeingEnqueued
<1>4. RowsInv' /\ PersistedIsDurable' /\ LedgerInv'
  BY <1>1 DEF RowsInv, PersistedIsDurable, LedgerInv, kitchen, database, looping
<1>5. BeingEnqueuedInEngine' /\ NoLostOrder'
  BY <1>1, <1>3 DEF BeingEnqueuedInEngine, NoLostOrder, InEngine, kitchen, database
<1>6. UnpaidOnlyAfterRollback'
  BY <1>1, <1>3 DEF UnpaidOnlyAfterRollback, InKitchen, kitchen, database
<1>7. OnceInv' /\ UnitsTakenUpOnce'
  <2>1. OnceInv'
    BY <1>1, <1>3 DEF OnceInv, Active, kitchen, database
  <2>2. ASSUME NEW p \in paid \ (rolledBack \cup toRecover')
        PROVE  baked[p] + remaining[p] = Units[p]
    <3>1. p \in Orders
      BY DEF TypeOK
    <3>2. status[p] \in {"ready", "completed"}
      BY <1>1, <3>1 DEF RowsInv, TypeOK, Active
    <3>3. baked[p] = Units[p] /\ remaining[p] = 0 /\ baked[p] \in Nat
      BY <1>1, <3>1, <3>2 DEF OnceInv, TypeOK
    <3> QED BY <3>3
  <2> QED BY <1>1, <2>1, <2>2 DEF UnitsTakenUpOnce, kitchen, database
<1> QED BY <1>2, <1>4, <1>5, <1>6, <1>7

LEMMA RecoverStep == ASSUME IInv, Recover PROVE IInv'
<1> USE DEF IInv
<1> DEFINE o == Min(toRecover)
           n(p) == IF p = o THEN Units[o] ELSE 0
<1>1. /\ phase = "recovering" /\ toRecover # {} /\ EngineEnqueue(o)
      /\ toRecover' = toRecover \ {o}
      /\ UNCHANGED <<database, phase, looping, req, bounds, rolledBack, handed>>
  BY DEF Recover
<1>2. o \in toRecover /\ o \in Orders /\ Units[o] \in Nat \ {0}
  <2>1. toRecover \subseteq Nat /\ toRecover \subseteq Orders
    BY BakeryAssumption DEF TypeOK
  <2>2. o \in toRecover
    BY <1>1, <2>1, MinMember
  <2> HIDE DEF o
  <2> QED BY <2>1, <2>2, BakeryAssumption
<1> HIDE DEF o
<1>3. /\ KitchenInv' /\ \A p \in Orders : Took(p, n(p))
      /\ \A t \in InKitchen' : t \in InKitchen \/ t.order = o
  BY <1>1, <1>2, EnqueueStep
<1>4. \A p \in Orders : n(p) \in {0, Units[p]}
  OBVIOUS
<1>5. \A p \in Orders :
         /\ baked'[p] + remaining'[p] = baked[p] + remaining[p] + n(p)
         /\ n(p) = 0 => baked'[p] + remaining'[p] = baked[p] + remaining[p]
         /\ baked[p] >= Units[p] => baked'[p] >= Units[p]
         /\ InEngine(p) \/ n(p) # 0 => InEngine(p)'
         /\ (remaining[p] > 0 => baked[p] + remaining[p] >= Units[p]) =>
               /\ remaining'[p] > 0 => baked'[p] + remaining'[p] >= Units[p]
               /\ p \in ToSet(readyAt') => p \in ToSet(readyAt) \/ baked'[p] >= Units[p]
         /\ n(p) = 0 /\ remaining[p] = 0 => remaining'[p] = 0
  <2> HIDE DEF n
  <2> QED BY <1>3, <1>4, TookKeeps
<1>6. n(o) # 0 /\ \A p \in Orders : p # o => n(p) = 0
  BY <1>2
<1>7. baked'[o] + remaining'[o] = Units[o]
  <2>1. baked[o] + remaining[o] = 0
    BY <1>2 DEF OnceInv
  <2> QED BY <1>2, <1>5, <2>1
<1> HIDE DEF n
<1>8. \A r \in Requests : req[r] = Idle
  BY <1>1 DEF RowsInv
<1>9. /\ \A p : ~BeingEnqueued(p) /\ ~BeingEnqueued(p)'
  BY <1>1, <1>8 DEF BeingEnqueued, Idle
<1>10. status[o] \in Active /\ status[o] # "none" /\ o \in paid
  BY <1>2 DEF RowsInv, Active
<1>11. TypeOK'
  <2>1. /\ slots' \in [Slots -> Baking \cup {NoTask}]
        /\ queue' \in SUBSET BakeTask
        /\ seq' \in Nat
        /\ remaining' \in [Orders -> Nat]
        /\ readyAt' \in Seq(Orders)
        /\ baked' \in [Orders -> Nat]
    BY <1>3 DEF KitchenInv, SlotsType, QueueType
  <2> QED BY <1>1, <2>1 DEF TypeOK, database, looping, bounds
<1>12. RowsInv'
  BY <1>1 DEF RowsInv, database, looping
<1>13. PersistedIsDurable'
  BY <1>1 DEF PersistedIsDurable, database, looping
<1>14. LedgerInv'
  <2> SUFFICES ASSUME NEW p \in Orders
               PROVE  /\ remaining'[p] > 0 =>
                            baked'[p] + remaining'[p] >= Units[p] /\ status'[p] # "none"
                      /\ \/ p \in ToSet(readyAt')
                         \/ \E i \in DOMAIN batch' : batch'[i] = [order |-> p, status |-> "ready"]
                         \/ [order |-> p, status |-> "ready"] \in changed'
                         \/ status'[p] \in {"ready", "completed"}
                         => baked'[p] >= Units[p]
    BY DEF LedgerInv
  <2>1. batch' = batch /\ changed' = changed /\ status' = status
    BY <1>1 DEF database, looping
  <2>2. remaining'[p] > 0 => remaining[p] > 0 \/ p = o
    <3>1. remaining[p] \in Nat /\ remaining'[p] \in Nat
      BY <1>3 DEF KitchenInv
    <3> QED BY <1>5, <1>6, <3>1
  <2> QED BY <1>5, <1>10, <2>1, <2>2 DEF LedgerInv
<1>15. BeingEnqueuedInEngine'
  BY <1>9 DEF BeingEnqueuedInEngine
<1>16. NoLostOrder'
  BY <1>1, <1>2, <1>5, <1>6 DEF NoLostOrder, InEngine, database
<1>17. UnpaidOnlyAfterRollback'
  BY <1>1, <1>3, <1>9, <1>10 DEF UnpaidOnlyAfterRollback, database
<1>18. OnceInv' /\ UnitsTakenUpOnce'
  <2>1. /\ paid' = paid /\ rolledBack' = rolledBack /\ phase' = "recovering"
        /\ paid \subseteq Orders
    BY <1>1 DEF database, TypeOK
  <2>2. \A p \in Orders \ {o} : baked'[p] + remaining'[p] = baked[p] + remaining[p]
    BY <1>5, <1>6
  <2>3. OnceInv'
    BY <1>1, <1>9, <1>10, <2>1, <2>2 DEF OnceInv
  <2>4. UnitsTakenUpOnce'
    BY <1>1, <1>7, <1>9, <2>1, <2>2 DEF UnitsTakenUpOnce
  <2> QED BY <2>3, <2>4
<1> QED BY <1>3, <1>11, <1>12, <1>13, <1>14, <1>15, <1>16, <1>17, <1>18

LEMMA OpenStep == ASSUME IInv, Open PROVE IInv'
<1> USE DEF IInv
<1>1. /\ phase = "recovering" /\ toRecover = {} /\ phase' = "up" /\ loop' = "reconcile"
      /\ UNCHANGED <<database, toRecover, kitchen, batch, changed, persisted, req, bounds,
                     rolledBack, handed>>
  BY DEF Open
<1>2. TypeOK' /\ KitchenInv'
  BY <1>1 DEF TypeOK, KitchenInv, kitchen, database, bounds
<1>3. \A p : BeingEnqueued(p)' <=> BeingEnqueued(p)
  BY <1>1 DEF BeingEnqueued
<1>4. RowsInv' /\ PersistedIsDurable' /\ LedgerInv'
  BY <1>1 DEF RowsInv, PersistedIsDurable, LedgerInv, kitchen, database
<1>5. BeingEnqueuedInEngine' /\ NoLostOrder'
  BY <1>1, <1>3 DEF BeingEnqueuedInEngine, NoLostOrder, InEngine, kitchen, database
<1>6. UnpaidOnlyAfterRollback'
  BY <1>1, <1>3 DEF UnpaidOnlyAfterRollback, InKitchen, kitchen, database
<1>7. OnceInv' /\ UnitsTakenUpOnce'
  BY <1>1, <1>3 DEF OnceInv, UnitsTakenUpOnce, kitchen, database
<1> QED BY <1>2, <1>4, <1>5, <1>6, <1>7
-----------------------------------------------------------------------------
(* Safety.                                                                 *)

\* IInv is inductive.
LEMMA NextIInv == IInv /\ [Next]_vars => IInv'
<1> SUFFICES ASSUME IInv, [Next]_vars PROVE IInv'
  OBVIOUS
<1>0. TypeOK
  BY DEF IInv
<1>1. ASSUME NEW o \in Orders, Place(o) PROVE IInv'
  BY <1>1, PlaceStep
<1>2. ASSUME NEW r \in Requests, NEW o \in Orders, PayCheck(r, o) PROVE IInv'
  <2>1. payments' \in 0..MaxPayments
    BY <1>0, <1>2, BakeryAssumption DEF PayCheck, TypeOK
  <2> QED BY <1>2, <2>1, CheckStep DEF PayCheck
<1>3. ASSUME NEW r \in Requests, NEW o \in Orders, PickupCheck(r, o) PROVE IInv'
  <2>1. payments' \in 0..MaxPayments
    BY <1>0, <1>3 DEF PickupCheck, bounds, TypeOK
  <2> QED BY <1>3, <2>1, CheckStep DEF PickupCheck, bounds
<1>4. ASSUME NEW r \in Requests, PayFlush(r) PROVE IInv'
  BY <1>4, PayFlushStep
<1>5. ASSUME NEW r \in Requests, PayEnqueue(r) PROVE IInv'
  BY <1>5, PayEnqueueStep
<1>6. ASSUME NEW r \in Requests, PayEstimate(r) PROVE IInv'
  BY <1>6, PayEstimateStep
<1>7. ASSUME NEW r \in Requests, PayCommit(r) PROVE IInv'
  BY <1>7, PayCommitStep
<1>8. ASSUME NEW r \in Requests, PayRefused(r) PROVE IInv'
  <2>1. faults' \in 0..MaxFaults
    BY <1>0, <1>8 DEF PayRefused, TypeOK
  <2> QED BY <1>8, <2>1, PayRollbackStep DEF PayRefused
<1>9. ASSUME NEW r \in Requests, PayFails(r) PROVE IInv'
  <2>1. faults' \in 0..MaxFaults
    BY <1>0, <1>9, BakeryAssumption DEF PayFails, TypeOK
  <2> QED BY <1>9, <2>1, PayRollbackStep DEF PayFails
<1>10. ASSUME NEW r \in Requests, PayDeadlockVictim(r) PROVE IInv'
  <2>1. faults' \in 0..MaxFaults
    BY <1>0, <1>10 DEF PayDeadlockVictim, TypeOK
  <2> QED BY <1>10, <2>1, PayRollbackStep DEF PayDeadlockVictim
<1>11. ASSUME NEW r \in Requests, PickupCommit(r) PROVE IInv'
  BY <1>11, PickupCommitStep
<1>12. ASSUME NEW s \in Slots, BakeElapses(s) PROVE IInv'
  BY <1>12, BakeElapsesStep
<1>13. CASE Reconcile
  BY <1>13, ReconcileStep
<1>14. CASE PersistRow
  BY <1>14, PersistRowStep
<1>15. CASE PersistCommit
  BY <1>15, PersistCommitStep
<1>16. CASE PersistFails
  <2>1. faults' \in 0..MaxFaults
    BY <1>0, <1>16, BakeryAssumption DEF PersistFails, TypeOK
  <2> QED BY <1>16, <2>1, PersistRaisesStep DEF PersistFails
<1>17. CASE PersistDeadlockVictim
  <2>1. faults' \in 0..MaxFaults
    BY <1>0, <1>17 DEF PersistDeadlockVictim, TypeOK
  <2> QED BY <1>17, <2>1, PersistRaisesStep DEF PersistDeadlockVictim
<1>18. CASE Wake
  BY <1>18, WakeStep
<1>19. CASE Crash
  BY <1>19, CrashStep
<1>20. CASE StartUp
  BY <1>20, StartUpStep
<1>21. CASE Recover
  BY <1>21, RecoverStep
<1>22. CASE Open
  BY <1>22, OpenStep
<1>23. CASE UNCHANGED vars
  <2>1. TypeOK' /\ KitchenInv'
    BY <1>23 DEF IInv, vars, TypeOK, KitchenInv, database, kitchen, looping, bounds
  <2>2. \A p : BeingEnqueued(p)' <=> BeingEnqueued(p)
    BY <1>23 DEF vars, BeingEnqueued
  <2>3. RowsInv' /\ PersistedIsDurable' /\ LedgerInv'
    BY <1>23 DEF IInv, vars, RowsInv, PersistedIsDurable, LedgerInv, database, kitchen, looping
  <2>4. BeingEnqueuedInEngine' /\ NoLostOrder'
    BY <1>23, <2>2
    DEF IInv, vars, BeingEnqueuedInEngine, NoLostOrder, InEngine, database, kitchen
  <2>5. UnpaidOnlyAfterRollback'
    BY <1>23, <2>2 DEF IInv, vars, UnpaidOnlyAfterRollback, InKitchen, database, kitchen
  <2>6. OnceInv' /\ UnitsTakenUpOnce'
    BY <1>23, <2>2 DEF IInv, vars, OnceInv, UnitsTakenUpOnce, database, kitchen
  <2> QED BY <2>1, <2>3, <2>4, <2>5, <2>6 DEF IInv
<1> QED
  BY <1>1, <1>2, <1>3, <1>4, <1>5, <1>6, <1>7, <1>8, <1>9, <1>10, <1>11, <1>12, <1>13, <1>14,
     <1>15, <1>16, <1>17, <1>18, <1>19, <1>20, <1>21, <1>22, <1>23 DEF Next

\* Every reachable state satisfies the inductive invariant.
LEMMA Inductive == Spec => []IInv
  BY InitIInv, NextIInv, PTL DEF Spec

\* The tables, the process and the requests keep their types in every behaviour.
THEOREM BakeryTypeCorrect == Spec => []TypeOK
<1>1. IInv => TypeOK
  BY DEF IInv
<1> QED BY <1>1, Inductive, PTL

\* recover_orders and the payments lose no order: what the database holds as
\* queued or baking is in the engine, or still to be read back, across every
\* error, restart and interleaving.
THEOREM OrdersAreNeverLost == Spec => []NoLostOrder
<1>1. IInv => NoLostOrder
  BY DEF IInv
<1> QED BY <1>1, Inductive, PTL

\* PaymentService.pay and recover_orders give the engine each unit of a paid
\* order once, unless a payment of it was rolled back after its enqueue.
THEOREM PaidUnitsAreTakenUpOnce == Spec => []UnitsTakenUpOnce
<1>1. IInv => UnitsTakenUpOnce
  BY DEF IInv
<1> QED BY <1>1, Inductive, PTL

\* The loop writes READY, and a pickup COMPLETED, only when every unit of the
\* order has been baked.
THEOREM ReadyOrdersAreBaked == Spec => []ReadyMeansBaked
<1>1. IInv => ReadyMeansBaked
  BY DEF IInv, LedgerInv, ReadyMeansBaked
<1> QED BY <1>1, Inductive, PTL

\* What _persisted holds has been committed.
THEOREM PersistedWasCommitted == Spec => []PersistedIsDurable
<1>1. IInv => PersistedIsDurable
  BY DEF IInv
<1> QED BY <1>1, Inductive, PTL

\* Only a payment that is rolled back after its enqueue leaves unpaid units.
THEOREM UnpaidUnitsAreLeftovers == Spec => []UnpaidOnlyAfterRollback
<1>1. IInv => UnpaidOnlyAfterRollback
  BY DEF IInv
<1> QED BY <1>1, Inductive, PTL

-----------------------------------------------------------------------------
(* The refinement of Lifecycle.                                            *)

\* Baking makes orders that are in the kitchen, and those have been placed.
LEMMA BakingIsBake ==
    ASSUME IInv, KitchenInv', NEW o \in Orders, NEW k \in {0, Units[o]},
           \A p \in Orders : Took(p, IF p = o THEN k ELSE 0),
           k # 0 => status[o] # "none",
           UNCHANGED <<status, paid>>
    PROVE  LC!Bake
<1>1. ASSUME NEW p \in Orders
      PROVE  /\ p \in Made => p \in Made'
             /\ p \in Made' => p \in Made \/ status[p] # "none"
  <2> DEFINE n == IF p = o THEN k ELSE 0
  <2>1. /\ baked[p] \in Nat /\ remaining[p] \in Nat /\ baked'[p] \in Nat /\ remaining'[p] \in Nat
        /\ Units[p] \in Nat
    BY BakeryAssumption DEF IInv, KitchenInv
  <2>2. n \in Nat /\ Took(p, n) /\ (n # 0 => p = o /\ k # 0)
    BY <2>1, BakeryAssumption
  <2>3. remaining[p] > 0 => status[p] # "none"
    BY DEF IInv, LedgerInv
  <2>4. p \in Made <=> baked[p] >= Units[p]
    BY DEF Made
  <2>5. p \in Made' <=> baked'[p] >= Units[p]
    BY DEF Made
  <2> HIDE DEF n
  <2>6. baked'[p] + remaining'[p] = baked[p] + remaining[p] + n /\ baked'[p] >= baked[p]
    BY <2>2 DEF Took
  <2>7. p \in Made => p \in Made'
    BY <2>1, <2>4, <2>5, <2>6
  <2>8. p \in Made' /\ p \notin Made => remaining[p] > 0 \/ n # 0
    BY <2>1, <2>2, <2>4, <2>5, <2>6
  <2> QED BY <2>2, <2>3, <2>7, <2>8
<1>2. Made \subseteq Orders /\ Made' \subseteq Orders
  BY DEF Made
<1> QED BY <1>1, <1>2 DEF LC!Bake

LEMMA NoTableNoKitchen ==
    ASSUME UNCHANGED <<status, paid, kitchen>> PROVE UNCHANGED LC!vars
  BY DEF LC!vars, Made, kitchen

\* Every step of the bakery is a step of the lifecycle or leaves it alone.
LEMMA StepFollows == IInv /\ [Next]_vars => [LC!Next]_(LC!vars)
<1> SUFFICES ASSUME IInv, [Next]_vars PROVE [LC!Next]_(LC!vars)
  OBVIOUS
<1>0. TypeOK /\ KitchenInv /\ RowsInv /\ LedgerInv
  BY DEF IInv
<1>1. ASSUME NEW o \in Orders, Place(o) PROVE LC!Next
  <2>1. LC!Place(o)
    BY <1>1 DEF Place, LC!Place, Made, kitchen
  <2> QED BY <2>1 DEF LC!Next
<1>2. ASSUME NEW r \in Requests, NEW o \in Orders, PayCheck(r, o) \/ PickupCheck(r, o)
      PROVE  UNCHANGED LC!vars
  BY <1>2, NoTableNoKitchen DEF PayCheck, PickupCheck, database
<1>3. ASSUME NEW r \in Requests,
             \/ PayFlush(r) \/ PayEstimate(r)
             \/ PayRefused(r) \/ PayFails(r) \/ PayDeadlockVictim(r)
      PROVE  UNCHANGED LC!vars
  BY <1>3, NoTableNoKitchen
  DEF PayFlush, PayEstimate, PayRefused, PayFails, PayDeadlockVictim, PayRollback
<1>4. ASSUME NEW r \in Requests, PayEnqueue(r) PROVE LC!Next
  <2> DEFINE o == req[r].order
  <2>1. req[r].at = "pay_flushed" /\ EngineEnqueue(o) /\ UNCHANGED <<status, paid>>
    BY <1>4 DEF PayEnqueue, database
  <2>2. o \in Orders /\ status[o] # "none"
    BY <1>0, <2>1, RequestFields DEF RowsInv
  <2> HIDE DEF o
  <2>3. KitchenInv' /\ \A p \in Orders : Took(p, IF p = o THEN Units[o] ELSE 0)
    BY <1>0, <2>1, <2>2, EnqueueStep
  <2>4. LC!Bake
    BY <2>1, <2>2, <2>3, BakingIsBake
  <2> QED BY <2>4 DEF LC!Next
<1>5. ASSUME NEW r \in Requests, PayCommit(r) PROVE LC!Next
  <2> DEFINE o == req[r].order
  <2>1. /\ req[r].at = "pay_estimates" /\ o \notin paid
        /\ status' = [status EXCEPT ![o] = "queued"] /\ paid' = paid \cup {o}
        /\ UNCHANGED kitchen
    BY <1>5 DEF PayCommit
  <2>2. o \in Orders /\ status[o] = "pending_payment"
    <3>1. o \in Orders
      BY <1>0, <2>1, RequestFields
    <3> QED BY <1>0, <2>1, <3>1 DEF RowsInv
  <2> HIDE DEF o
  <2>3. LC!Pay(o)
    BY <2>1, <2>2 DEF LC!Pay, Made, kitchen
  <2> QED BY <2>2, <2>3 DEF LC!Next
<1>6. ASSUME NEW r \in Requests, PickupCommit(r) PROVE LC!Next \/ UNCHANGED LC!vars
  <2> DEFINE o == req[r].order
  <2>1. /\ req[r].at = "pickup_checked"
        /\ status' = [status EXCEPT ![o] = "completed"] /\ UNCHANGED <<paid, kitchen>>
    BY <1>6 DEF PickupCommit
  <2>2. o \in Orders /\ status[o] \in {"ready", "completed"}
    BY <1>0, <2>1, RequestFields DEF RowsInv
  <2> HIDE DEF o
  <2>3. CASE status[o] = "ready"
    <3>1. LC!PickUp(o)
      BY <2>1, <2>3 DEF LC!PickUp, Made, kitchen
    <3> QED BY <2>2, <3>1 DEF LC!Next
  <2>4. CASE status[o] = "completed"
    <3>1. status' = status
      BY <1>0, <2>1, <2>2, <2>4 DEF TypeOK
    <3> QED BY <2>1, <3>1, NoTableNoKitchen
  <2> QED BY <2>2, <2>3, <2>4
<1>7. ASSUME NEW s \in Slots, BakeElapses(s) PROVE UNCHANGED LC!vars
  BY <1>7 DEF BakeElapses, LC!vars, Made, database
<1>8. ASSUME Reconcile PROVE LC!Next \/ UNCHANGED LC!vars
  <2>1. KitchenInv' /\ (\A p \in Orders : Took(p, 0)) /\ UNCHANGED <<status, paid>>
    BY <1>0, <1>8, TickStep DEF Reconcile, database
  <2>2. CASE Orders = {}
    <3>1. UNCHANGED LC!vars
      BY <2>1, <2>2 DEF LC!vars, Made
    <3> QED BY <3>1
  <2>3. CASE Orders # {}
    <3>1. PICK o \in Orders : TRUE
      BY <2>3
    <3>2. \A p \in Orders : Took(p, IF p = o THEN 0 ELSE 0)
      BY <2>1
    <3>3. LC!Bake
      BY <2>1, <3>1, <3>2, BakingIsBake
    <3> QED BY <3>3 DEF LC!Next
  <2> QED BY <2>2, <2>3
<1>9. ASSUME PersistRow \/ PersistFails \/ PersistDeadlockVictim \/ Wake \/ StartUp \/ Open
      PROVE  UNCHANGED LC!vars
  BY <1>9, NoTableNoKitchen
  DEF PersistRow, PersistFails, PersistDeadlockVictim, PersistRaises, Wake, StartUp, Open, database
<1>10. ASSUME PersistCommit PROVE LC!Next
  <2>1. status' = Advanced(status) /\ UNCHANGED <<paid, kitchen>>
    BY <1>10 DEF PersistCommit
  <2>2. DOMAIN status' = Orders
    BY <2>1 DEF Advanced
  <2>3. ASSUME NEW p \in Orders, status'[p] # status[p]
        PROVE  /\ <<status[p], status'[p]>> \in LC!KitchenSteps
               /\ status'[p] = "ready" => p \in Made
    <3>1. PICK t \in changed : /\ t.order = p /\ status[p] \in AllowedPrev(t.status)
                               /\ \A map : Advanced(map)[p] = t.status
      BY <1>0, <2>1, <2>3, AdvancedBy
    <3>2. t \in Transition
      BY <1>0 DEF TypeOK
    <3>3. t.status \in {"baking", "ready"} /\ t = [order |-> p, status |-> t.status]
      BY <3>1, <3>2 DEF Transition
    <3>4. status'[p] = t.status
      BY <2>1, <3>1
    <3>5. t.status = "ready" => p \in Made
      BY <1>0, <3>3 DEF LedgerInv, Made
    <3>6. <<status[p], status'[p]>> \in LC!KitchenSteps
      BY <3>1, <3>3, <3>4, <2>3 DEF AllowedPrev, LC!KitchenSteps
    <3> QED BY <3>4, <3>5, <3>6
  <2>4. LC!Progress
    BY <2>1, <2>2, <2>3 DEF LC!Progress, Made, kitchen
  <2> QED BY <2>4 DEF LC!Next
<1>11. ASSUME Crash PROVE LC!Next
  <2>1. /\ baked' = [o \in Orders |-> IF status[o] \in {"ready", "completed"} THEN baked[o] ELSE 0]
        /\ UNCHANGED <<status, paid>>
    BY <1>11 DEF Crash
  <2>2. \A p \in Orders : Units[p] \in Nat \ {0}
    BY BakeryAssumption
  <2>3. \A p \in Orders : baked'[p] >= Units[p] <=>
                             baked[p] >= Units[p] /\ status[p] \in {"ready", "completed"}
    BY <2>1, <2>2
  <2>4. LC!Restart
    BY <2>1, <2>3 DEF LC!Restart, Made
  <2> QED BY <2>4 DEF LC!Next
<1>12. ASSUME Recover PROVE LC!Next
  <2> DEFINE o == Min(toRecover)
  <2>1. toRecover # {} /\ EngineEnqueue(o) /\ UNCHANGED <<status, paid>>
    BY <1>12 DEF Recover, database
  <2>2. o \in toRecover /\ o \in Orders
    <3>1. toRecover \subseteq Nat /\ toRecover \subseteq Orders
      BY <1>0, BakeryAssumption DEF TypeOK
    <3>2. o \in toRecover
      BY <2>1, <3>1, MinMember
    <3> HIDE DEF o
    <3> QED BY <3>1, <3>2
  <2> HIDE DEF o
  <2>3. status[o] # "none"
    BY <1>0, <2>2 DEF RowsInv, Active
  <2>4. KitchenInv' /\ \A p \in Orders : Took(p, IF p = o THEN Units[o] ELSE 0)
    BY <1>0, <2>1, <2>2, EnqueueStep
  <2>5. LC!Bake
    BY <2>1, <2>2, <2>3, <2>4, BakingIsBake
  <2> QED BY <2>5 DEF LC!Next
<1>13. CASE UNCHANGED vars
  BY <1>13, NoTableNoKitchen DEF vars, database
<1> QED
  BY <1>1, <1>2, <1>3, <1>4, <1>5, <1>6, <1>7, <1>8, <1>9, <1>10, <1>11, <1>12, <1>13 DEF Next

\* Payments, pickups, the loop and restarts together take every order along the
\* lifecycle of state_machine.py and _ALLOWED_PREV.
THEOREM BakeryFollowsLifecycle == Spec => FollowsLifecycle
<1>1. Init => LC!Init
  <2> SUFFICES ASSUME Init PROVE LC!Init
    OBVIOUS
  <2>1. \A o \in Orders : baked[o] = 0 /\ Units[o] \in Nat \ {0}
    BY BakeryAssumption DEF Init
  <2>2. Made = {}
    BY <2>1 DEF Made
  <2> QED BY <2>2 DEF Init, LC!Init
<1> QED BY <1>1, StepFollows, Inductive, PTL DEF Spec, FollowsLifecycle, LC!Spec

\* A step of the lifecycle never takes an order back.
LEMMA StepAdvances ==
    IInv /\ [Next]_vars =>
        [\A o \in Orders : StatusRank[status'[o]] >= StatusRank[status[o]]]_status
<1> SUFFICES ASSUME IInv, [Next]_vars, NEW o \in Orders
             PROVE  StatusRank[status'[o]] >= StatusRank[status[o]]
  OBVIOUS
<1>1. [LC!Next]_(LC!vars)
  BY StepFollows
<1>2. /\ status \in [Orders -> {"none", "pending_payment", "queued", "baking", "ready",
                                "completed"}]
  BY DEF IInv, TypeOK
<1>3. CASE status'[o] = status[o]
  BY <1>2, <1>3 DEF StatusRank
<1>4. ASSUME NEW p \in Orders, LC!Place(p) \/ LC!Pay(p) \/ LC!PickUp(p), status'[o] # status[o]
      PROVE  StatusRank[status'[o]] >= StatusRank[status[o]]
  BY <1>2, <1>4 DEF LC!Place, LC!Pay, LC!PickUp, StatusRank
<1>5. CASE LC!Progress /\ status'[o] # status[o]
  BY <1>2, <1>5 DEF LC!Progress, LC!KitchenSteps, StatusRank
<1>6. CASE LC!Bake \/ LC!Restart \/ UNCHANGED LC!vars
  BY <1>3, <1>6 DEF LC!Bake, LC!Restart, LC!vars
<1> QED BY <1>1, <1>3, <1>4, <1>5, <1>6 DEF LC!Next

\* Neither the writes by primary key of payments and pickups nor advance_status
\* take a committed status back.
THEOREM StatusOnlyAdvances == Spec => StatusNeverRegresses
  BY StepAdvances, Inductive, PTL DEF Spec, StatusNeverRegresses

\* The payment and the step to QUEUED are never seen apart, and what is shown as
\* ready or handed out has been made.
THEOREM PaidOrdersAreQueued == Spec => []LC!PaidAndMade
<1>1. IInv => LC!PaidAndMade
  BY DEF IInv, RowsInv, LedgerInv, Made, LC!PaidAndMade
<1> QED BY <1>1, Inductive, PTL

=============================================================================
