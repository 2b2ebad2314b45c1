---------------------------- MODULE EstimatesProofs ----------------------------
(***************************************************************************)
(* The stored estimates, for any orders, payments, bake times, faults and  *)
(* restarts.                                                               *)
(***************************************************************************)
EXTENDS Estimates, KitchenStateProofs

PaidFor(o) == \E r \in Requests : req[r].at # "idle" /\ req[r].order = o
Writing == {r \in Requests : req[r].at = "writing"}
IsOther(r, o) == \E k \in 1..Len(req[r].others) : req[r].others[k] = o

\* A payment has the row of its order from its flush on, and before it writes
\* the estimates no other.
Locks ==
    /\ \A o \in Orders : rowLock[o] # NoOne => req[rowLock[o]].at \in {"flushed", "writing"}
    /\ \A r \in Requests :
          /\ req[r].at \in {"flushed", "writing"} => rowLock[req[r].order] = r
          /\ req[r].at = "flushed" => \A o \in Orders : rowLock[o] = r => o = req[r].order

\* StoredNeverLate and StoredNotPastReady, also for an order that the engine does
\* not know and a second payment is about to enqueue.
StoredHolds ==
    phase = "up" =>
        \A o \in Orders \ missed :
            status[o] \in {"queued", "ready"} /\ (Known(o) \/ PaidFor(o)) =>
                stored[o] # NoTime /\ stored[o] <= LastDue(o)

\* What recovery missed is done for good.
MissedStayOut ==
    phase = "up" =>
        \A o \in missed : status[o] \in {"queued", "ready"} /\ remaining[o] = 0 /\ ~PaidFor(o)

\* What a payment holds to write is late for no order, and it has something to
\* write in each row that it has locked or will lock.
AnswersHold ==
    \A r \in Writing, o \in Orders :
        /\ req[r].etas[o] # NoTime => req[r].etas[o] <= LastDue(o)
        /\ rowLock[o] = r \/ IsOther(r, o) => req[r].etas[o] # NoTime

\* Until requests are served, the last answer has all that is in the kitchen.
RecoveryHolds ==
    phase # "up" =>
        /\ \A r \in Requests : req[r] = Idle
        /\ toRecover \subseteq {o \in Orders : status[o] = "queued"}
        /\ \A o \in Orders : Known(o) => status[o] = "queued"
        /\ \A o \in Orders :
              remaining[o] > 0 =>
                  answer[o] = eta[o] /\ answer[o] # NoTime /\ answer[o] <= LastDue(o)

\* A payment that writes alone has the last estimates, and will write them to
\* every order in the kitchen.
AloneHolds ==
    \A r \in Writing :
        req[r].alone =>
            /\ Writing \subseteq {r}
            /\ \A o \in Orders :
                  remaining[o] > 0 =>
                      /\ req[r].etas[o] = eta[o]
                      /\ status[o] = "queued" => rowLock[o] = r \/ IsOther(r, o)

IInv ==
    /\ TypeOK
    /\ KitchenInv
    /\ Locks
    /\ StoredHolds
    /\ MissedStayOut
    /\ AnswersHold
    /\ RecoveryHolds
    /\ AloneHolds
    /\ EstimatesSettle

-----------------------------------------------------------------------------
(* Data.                                                                   *)

\* The specs of an order are such as EnqueueStep asks for.
LEMMA SpecsType ==
    ASSUME NEW o \in Orders, NEW bake \in BakeTimes
    PROVE  /\ OrderSpecs(o, bake) \in Seq(PriorityLevel \X (Nat \ {0}))
           /\ OrderSpecs(o, bake) # << >>
<1> DEFINE n == Units[o]
           spec == <<Priority[o], bake>>
<1>1. n \in Nat \ {0} /\ spec \in PriorityLevel \X (Nat \ {0})
  BY EstimatesAssumption
<1>2. OrderSpecs(o, bake) = [i \in 1..n |-> spec]
  BY DEF OrderSpecs
<1> HIDE DEF n, spec
<1>3. [i \in 1..n |-> spec] \in Seq(PriorityLevel \X (Nat \ {0}))
  BY <1>1
<1>4. Len([i \in 1..n |-> spec]) = n
  BY <1>1
<1>5. Len(<< >>) = 0
  OBVIOUS
<1> QED BY <1>1, <1>2, <1>3, <1>4, <1>5

\* The fields that a payment has at each of its places.
LEMMA RequestFields ==
    ASSUME TypeOK, NEW r \in Requests
    PROVE  /\ req[r].at \in {"idle", "checked", "flushed", "writing"}
           /\ req[r].at = "idle" <=> req[r] = Idle
           /\ req[r].at # "idle" => req[r].order \in Orders
           /\ req[r].at = "checked" => req[r] \in [at: {"checked"}, order: Orders]
           /\ req[r].at = "flushed" => req[r].bake \in BakeTimes
           /\ req[r].at = "writing" =>
                 /\ req[r] \in [at: {"writing"}, order: Orders,
                                etas: [Orders -> Nat \cup {NoTime}],
                                others: Seq(Orders), alone: BOOLEAN]
                 /\ req[r].etas \in [Orders -> Nat \cup {NoTime}]
                 /\ req[r].others \in Seq(Orders)
                 /\ req[r].alone \in BOOLEAN
<1>1. req[r] \in ReqStates
  BY DEF TypeOK
<1> QED BY <1>1 DEF ReqStates, Idle

\* When an order is due changes with the kitchen and the time only.
LEMMA DueUnchanged ==
    ASSUME UNCHANGED <<now, slots, queue, remaining, readyAt>>, NEW o
    PROVE  LastDue(o)' = LastDue(o) /\ (Known(o)' <=> Known(o))
BY DEF LastDue, Known

\* What is due is a time.
LEMMA DueType ==
    ASSUME KitchenInv, NEW o \in Orders
    PROVE  LastDue(o) \in Int /\ remaining[o] \in Nat /\ now \in Nat
<1>1. /\ Kitchen(slots, queue) /\ now \in Nat /\ now \in Int /\ remaining[o] \in Nat
      /\ readyAt[o] \in Int
  BY KitchenHolds DEF KitchenInv, KitchenTypes, QueueType, NoTime
<1>2. Project(slots, queue, now)[o] \in Int
  BY <1>1, ProjectBounds
<1> QED BY <1>1, <1>2 DEF LastDue

-----------------------------------------------------------------------------
(* The kitchen, time, and steps of an order on its own: nothing is paid    *)
(* for, and no order is due earlier than it was.                           *)

\* Such a step keeps what is said of the estimates.
LEMMA NothingPaid ==
    ASSUME IInv,
           UNCHANGED <<rowLock, process, req, settled, eta>>,
           \A o \in Orders :
              /\ LastDue(o) \in Int /\ LastDue(o)' \in Int /\ LastDue(o) <= LastDue(o)'
              /\ remaining'[o] \in Nat
              /\ remaining'[o] > 0 => remaining[o] > 0
              /\ Known(o)' => Known(o)
              /\ status'[o] \in {"queued", "ready"} <=> status[o] \in {"queued", "ready"}
              /\ status'[o] = "queued" => status[o] = "queued"
              /\ status'[o] \in {"queued", "ready"} => stored'[o] = stored[o],
           phase = "up" \/ status' = status
    PROVE  /\ Locks' /\ StoredHolds' /\ MissedStayOut' /\ AnswersHold' /\ RecoveryHolds' /\ AloneHolds'
           /\ EstimatesSettle'
<1>1. /\ rowLock' = rowLock /\ phase' = phase /\ answer' = answer /\ req' = req
      /\ settled' = settled /\ eta' = eta /\ missed' = missed /\ toRecover' = toRecover
  BY DEF process
<1>2. /\ \A o \in Orders : stored[o] \in Int /\ answer[o] \in Int
      /\ \A r \in Writing, o \in Orders : req[r].etas[o] \in Int
  <2>1. \A r \in Writing : req[r].etas \in [Orders -> Nat \cup {NoTime}]
    BY RequestFields DEF IInv, Writing
  <2> QED BY <2>1 DEF IInv, TypeOK, NoTime
<1>3. Locks'
  BY <1>1 DEF IInv, Locks
<1>4. StoredHolds'
  <2> SUFFICES ASSUME phase = "up", NEW o \in Orders \ missed,
                      status'[o] \in {"queued", "ready"}, Known(o)' \/ PaidFor(o)
               PROVE  stored'[o] # NoTime /\ stored'[o] <= LastDue(o)'
    BY <1>1 DEF StoredHolds, PaidFor
  <2>1. stored[o] # NoTime /\ stored[o] <= LastDue(o) /\ stored'[o] = stored[o]
    BY DEF IInv, StoredHolds
  <2> QED BY <1>2, <2>1
<1>5. AnswersHold'
  <2> SUFFICES ASSUME NEW r \in Writing, NEW o \in Orders
               PROVE  /\ req[r].etas[o] # NoTime => req[r].etas[o] <= LastDue(o)'
                      /\ rowLock[o] = r \/ IsOther(r, o) => req[r].etas[o] # NoTime
    BY <1>1 DEF AnswersHold, Writing, IsOther
  <2>1. /\ req[r].etas[o] # NoTime => req[r].etas[o] <= LastDue(o)
        /\ rowLock[o] = r \/ IsOther(r, o) => req[r].etas[o] # NoTime
    BY DEF IInv, AnswersHold
  <2> QED BY <1>2, <2>1
<1>6. RecoveryHolds'
  <2> SUFFICES ASSUME phase # "up"
               PROVE  /\ \A r \in Requests : req[r] = Idle
                      /\ toRecover \subseteq {o \in Orders : status'[o] = "queued"}
                      /\ \A o \in Orders : Known(o)' => status'[o] = "queued"
                      /\ \A o \in Orders :
                            remaining'[o] > 0 =>
                               answer[o] = eta[o] /\ answer[o] # NoTime
                               /\ answer[o] <= LastDue(o)'
    BY <1>1 DEF RecoveryHolds
  <2> QED BY <1>2 DEF IInv, RecoveryHolds
<1>7. AloneHolds'
  BY <1>1 DEF IInv, AloneHolds, Writing, IsOther
<1>8. EstimatesSettle'
  BY <1>1 DEF IInv, EstimatesSettle, NoneWriting, InProgress
<1>9. MissedStayOut'
  <2> SUFFICES ASSUME phase = "up", NEW o \in missed
               PROVE  status'[o] \in {"queued", "ready"} /\ remaining'[o] = 0 /\ ~PaidFor(o)
    BY <1>1 DEF MissedStayOut, PaidFor
  <2>1. o \in Orders /\ remaining[o] \in Nat
    BY DEF IInv, TypeOK
  <2> QED BY <2>1 DEF IInv, MissedStayOut
<1> QED BY <1>3, <1>4, <1>5, <1>6, <1>7, <1>8, <1>9

\* A kitchen that nothing touches keeps its invariant.
LEMMA KitchenSame ==
    ASSUME KitchenInv, UNCHANGED <<now, kitchen>>
    PROVE  /\ KitchenInv'
           /\ UNCHANGED <<slots, queue, seq, remaining, readyAt, eta>>
           /\ \A o \in Orders : /\ LastDue(o) \in Int
                                /\ LastDue(o)' = LastDue(o)
                                /\ Known(o)' <=> Known(o)
                                /\ remaining[o] \in Nat
<1>1. /\ UNCHANGED <<slots, queue, seq, remaining, readyAt, eta>>
      /\ now' = now
  BY DEF kitchen
<1>2. now' \in Nat /\ now <= now'
  BY <1>1 DEF KitchenInv, KitchenTypes
<1>3. KitchenInv'
  BY <1>1, <1>2, ClockStep
<1> QED BY <1>1, <1>3, DueType, DueUnchanged

\* An order is placed, or is written as ready, or its item gets a bake time.
LEMMA OrderStep ==
    ASSUME IInv, NEW o \in Orders,
           Place(o) \/ WriteReady(o) \/ \E b \in BakeTimes : Patch(o, b)
    PROVE  IInv'
<1>1. TypeOK /\ KitchenInv
  BY DEF IInv
<1>2. UNCHANGED <<now, kitchen, rowLock, process, req, settled>>
  BY DEF Place, WriteReady, Patch, rows
<1>3. /\ KitchenInv'
      /\ UNCHANGED <<slots, queue, seq, remaining, readyAt, eta>>
      /\ \A p \in Orders : LastDue(p) \in Int /\ LastDue(p)' = LastDue(p)
      /\ \A p \in Orders : Known(p)' <=> Known(p)
  BY <1>1, <1>2, KitchenSame
<1>4. TypeOK'
  <2>1. CASE Place(o)
    <3> DEFINE shown == Simulated(o, OrderSpecs(o, menu[o]))
    <3>1. /\ status' = [status EXCEPT ![o] = "pending_payment"]
          /\ stored' = [stored EXCEPT ![o] = shown]
          /\ menu' = menu
      BY <2>1 DEF Place
    <3>2. shown \in Nat \cup {NoTime}
      <4> DEFINE q == queue \cup NewTasks(o, OrderSpecs(o, menu[o]), seq)
      <4>1. menu[o] \in BakeTimes
        BY <1>1 DEF TypeOK
      <4>2. QueueType(q) /\ Distinct(slots, q)
        BY <1>1, <4>1, SpecsType, EnqueueStart
      <4> HIDE DEF q
      <4>3. Kitchen(slots, q)
        BY <1>1, <4>2, KitchenHolds DEF KitchenInv
      <4>4. now \in Int
        BY <1>1 DEF TypeOK
      <4>5. Project(slots, q, now)[o] \in Nat \cup {NoTime}
        BY <4>3, <4>4, ProjectType
      <4> QED BY <4>5 DEF Simulated, q
    <3> HIDE DEF shown
    <3>3. stored' \in [Orders -> Nat \cup {NoTime}]
      BY <1>1, <3>1, <3>2 DEF TypeOK
    <3> QED BY <1>1, <1>2, <1>3, <3>1, <3>3 DEF TypeOK, process
  <2>2. CASE WriteReady(o)
    BY <1>1, <1>2, <1>3, <2>2 DEF TypeOK, process, WriteReady
  <2>3. CASE \E b \in BakeTimes : Patch(o, b)
    BY <1>1, <1>2, <1>3, <2>3 DEF TypeOK, process, Patch, rows
  <2> QED BY <2>1, <2>2, <2>3
<1>5. \A p \in Orders :
         /\ status'[p] \in {"queued", "ready"} <=> status[p] \in {"queued", "ready"}
         /\ status'[p] = "queued" => status[p] = "queued"
         /\ status'[p] \in {"queued", "ready"} => stored'[p] = stored[p]
  <2>1. status \in [Orders -> {"none", "pending_payment", "queued", "ready"}]
        /\ stored \in [Orders -> Nat \cup {NoTime}]
    BY <1>1 DEF TypeOK
  <2>2. CASE Place(o)
    BY <2>1, <2>2 DEF Place
  <2>3. CASE WriteReady(o)
    BY <2>1, <2>3 DEF WriteReady
  <2>4. CASE \E b \in BakeTimes : Patch(o, b)
    BY <2>4 DEF Patch, rows
  <2> QED BY <2>2, <2>3, <2>4
<1>6. \A p \in Orders :
         /\ LastDue(p) \in Int /\ LastDue(p)' \in Int /\ LastDue(p) <= LastDue(p)'
         /\ remaining'[p] \in Nat
         /\ remaining'[p] > 0 => remaining[p] > 0
         /\ Known(p)' => Known(p)
  BY <1>3 DEF KitchenInv, KitchenTypes
<1>7. phase = "up"
  BY DEF Place, WriteReady, Patch
<1>8. /\ Locks' /\ StoredHolds' /\ MissedStayOut' /\ AnswersHold' /\ RecoveryHolds'
      /\ AloneHolds' /\ EstimatesSettle'
  BY <1>2, <1>3, <1>5, <1>6, <1>7, NothingPaid
<1> QED BY <1>3, <1>4, <1>8 DEF IInv

\* The kitchen ticks, time passes, or nothing happens.
LEMMA KitchenStep ==
    ASSUME IInv, Tick \/ AdvanceClock \/ UNCHANGED vars
    PROVE  IInv'
<1>1. TypeOK /\ KitchenInv
  BY DEF IInv
<1>2. /\ UNCHANGED <<rowLock, process, req, settled, eta>>
      /\ UNCHANGED <<menu, status, stored, phase, missed, toRecover, answer>>
  BY DEF Tick, AdvanceClock, vars, kitchen, rows, process
<1>3. /\ KitchenInv'
      /\ \A o \in Orders :
            /\ LastDue(o) \in Int /\ LastDue(o)' \in Int /\ LastDue(o) <= LastDue(o)'
            /\ remaining'[o] \in Nat
            /\ remaining'[o] > 0 => remaining[o] > 0
            /\ Known(o)' => Known(o)
  <2>1. KitchenInv' => \A o \in Orders : remaining'[o] \in Nat
    BY DEF KitchenInv, KitchenTypes
  <2>2. CASE Tick
    <3>1. TickAndAccount(queue, remaining) /\ UNCHANGED <<now, seq, eta>>
      BY <2>2 DEF Tick
    <3> QED BY <1>1, <2>1, <3>1, ReconcileStep
  <2>3. CASE AdvanceClock
    <3>1. UNCHANGED <<slots, queue, seq, remaining, readyAt, eta>>
      BY <2>3 DEF AdvanceClock, kitchen
    <3>2. now' \in Nat /\ now <= now'
      BY <1>1, <2>3 DEF AdvanceClock, TypeOK
    <3> QED BY <1>1, <2>1, <3>1, <3>2, ClockStep
  <2>4. CASE UNCHANGED vars
    <3>1. UNCHANGED <<now, kitchen>>
      BY <2>4 DEF vars
    <3> QED BY <1>1, <2>1, <3>1, KitchenSame
  <2> QED BY <2>2, <2>3, <2>4
<1>4. TypeOK'
  BY <1>1, <1>2, <1>3 DEF TypeOK, KitchenInv, KitchenTypes
<1>5. /\ Locks' /\ StoredHolds' /\ MissedStayOut' /\ AnswersHold' /\ RecoveryHolds'
      /\ AloneHolds' /\ EstimatesSettle'
  BY <1>2, <1>3, NothingPaid
<1> QED BY <1>3, <1>4, <1>5 DEF IInv

-----------------------------------------------------------------------------
(* A payment before and after its enqueue.                                 *)

\* A payment under way is of a shop that is open.
LEMMA PaidWhenUp ==
    ASSUME IInv, NEW r \in Requests, req[r].at # "idle"
    PROVE  phase = "up"
BY DEF IInv, RecoveryHolds, Idle

\* A payment begins.
LEMMA PayCheckStep ==
    ASSUME IInv, NEW r \in Requests, NEW o \in Orders, PayCheck(r, o)
    PROVE  IInv'
<1>1. TypeOK /\ KitchenInv
  BY DEF IInv
<1>2. /\ UNCHANGED <<now, kitchen>>
      /\ UNCHANGED <<menu, status, stored, rowLock, phase, missed, toRecover, answer>>
      /\ settled' = settled
      /\ phase = "up" /\ req[r] = Idle /\ status[o] = "pending_payment"
      /\ req' = [req EXCEPT ![r] = [at |-> "checked", order |-> o]]
  BY DEF PayCheck, rows, process
<1>3. /\ KitchenInv'
      /\ UNCHANGED <<slots, queue, seq, remaining, readyAt, eta>>
      /\ \A p \in Orders : LastDue(p) \in Int /\ LastDue(p)' = LastDue(p)
      /\ \A p \in Orders : Known(p)' <=> Known(p)
  BY <1>1, <1>2, KitchenSame
<1>4. /\ req'[r] = [at |-> "checked", order |-> o]
      /\ req'[r].at = "checked" /\ req'[r].order = o /\ req[r].at = "idle"
      /\ \A p \in Requests : p # r => req'[p] = req[p]
  BY <1>1, <1>2 DEF TypeOK, Idle
<1>5. TypeOK'
  <2>1. [at |-> "checked", order |-> o] \in ReqStates
    BY DEF ReqStates
  <2>2. req' \in [Requests -> ReqStates]
    BY <1>1, <1>2, <2>1 DEF TypeOK
  <2> QED BY <1>1, <1>2, <1>3, <2>2 DEF TypeOK
<1>6. Writing' = Writing /\ r \notin Writing
  BY <1>4 DEF Writing
<1>7. Locks'
  BY <1>1, <1>2, <1>4 DEF IInv, Locks, TypeOK
<1>8. StoredHolds'
  <2>1. \A x \in Orders : x # o /\ PaidFor(x)' => PaidFor(x)
    BY <1>4 DEF PaidFor
  <2> QED BY <1>2, <1>3, <2>1 DEF IInv, StoredHolds
<1>9. MissedStayOut'
  <2>1. \A x : x # o /\ PaidFor(x)' => PaidFor(x)
    BY <1>4 DEF PaidFor
  <2> QED BY <1>2, <1>3, <2>1 DEF IInv, MissedStayOut
<1>10. \A p \in Writing : req'[p] = req[p] /\ \A x : IsOther(p, x)' <=> IsOther(p, x)
  BY <1>4, <1>6 DEF IsOther, Writing
<1>11. AnswersHold'
  BY <1>2, <1>3, <1>6, <1>10 DEF IInv, AnswersHold
<1>12. RecoveryHolds'
  BY <1>2 DEF RecoveryHolds
<1>13. AloneHolds'
  BY <1>2, <1>3, <1>6, <1>10 DEF IInv, AloneHolds
<1>14. EstimatesSettle'
  <2>1. NoneWriting' <=> NoneWriting
    BY <1>4 DEF NoneWriting
  <2> QED BY <1>2, <1>3, <2>1 DEF IInv, EstimatesSettle, InProgress
<1> QED BY <1>3, <1>5, <1>7, <1>8, <1>9, <1>11, <1>12, <1>13, <1>14 DEF IInv

\* It flushes the order's status and reads the bake time.
LEMMA PayFlushStep ==
    ASSUME IInv, NEW r \in Requests, PayFlush(r)
    PROVE  IInv'
<1> DEFINE o == req[r].order
           flushed == [at |-> "flushed", order |-> o, bake |-> menu[o]]
<1>1. TypeOK /\ KitchenInv
  BY DEF IInv
<1>2. /\ UNCHANGED <<now, kitchen>>
      /\ UNCHANGED <<menu, status, stored, phase, missed, toRecover, answer, settled>>
      /\ req[r].at = "checked" /\ rowLock[o] = NoOne
      /\ rowLock' = [rowLock EXCEPT ![o] = r]
      /\ req' = [req EXCEPT ![r] = flushed]
  BY DEF PayFlush, process
<1>3. /\ KitchenInv'
      /\ UNCHANGED <<slots, queue, seq, remaining, readyAt, eta>>
      /\ \A p \in Orders : LastDue(p) \in Int /\ LastDue(p)' = LastDue(p)
      /\ \A p \in Orders : Known(p)' <=> Known(p)
  BY <1>1, <1>2, KitchenSame
<1>4. o \in Orders /\ phase = "up" /\ NoOne \notin Requests
  BY <1>1, <1>2, RequestFields, PaidWhenUp, EstimatesAssumption
<1>5. /\ req'[r].at = "flushed" /\ req'[r].order = o
      /\ \A p \in Requests : p # r => req'[p] = req[p]
  BY <1>1, <1>2 DEF TypeOK
<1>6. /\ rowLock'[o] = r /\ rowLock[o] = NoOne
      /\ \A x \in Orders : x # o => rowLock'[x] = rowLock[x]
      /\ \A x \in Orders : rowLock[x] \in Requests \cup {NoOne}
  BY <1>1, <1>2, <1>4 DEF TypeOK
<1>7. TypeOK'
  <2>1. menu[o] \in BakeTimes
    BY <1>1, <1>4 DEF TypeOK
  <2>2. flushed \in ReqStates
    BY <1>4, <2>1 DEF ReqStates
  <2> HIDE DEF flushed
  <2>3. /\ req' \in [Requests -> ReqStates]
        /\ rowLock' \in [Orders -> Requests \cup {NoOne}]
    BY <1>1, <1>2, <2>2 DEF TypeOK
  <2> QED BY <1>1, <1>2, <1>3, <2>3 DEF TypeOK
<1> HIDE DEF o, flushed
<1>8. Writing' = Writing /\ r \notin Writing
  BY <1>2, <1>5 DEF Writing
<1>9. Locks'
  <2>1. \A x \in Orders : rowLock[x] # r
    BY <1>2, <1>4 DEF IInv, Locks
  <2>2. \A x \in Orders : rowLock'[x] # NoOne => req'[rowLock'[x]].at \in {"flushed", "writing"}
    BY <1>5, <1>6, <2>1 DEF IInv, Locks
  <2>3. ASSUME NEW p \in Requests
        PROVE  /\ req'[p].at \in {"flushed", "writing"} => rowLock'[req'[p].order] = p
               /\ req'[p].at = "flushed" =>
                     \A x \in Orders : rowLock'[x] = p => x = req'[p].order
    <3>1. CASE p = r
      BY <1>5, <1>6, <2>1, <3>1
    <3>2. CASE p # r
      <4>1. req[p].at # "idle" => req[p].order \in Orders
        BY <1>1, RequestFields
      <4> QED BY <1>4, <1>5, <1>6, <3>2, <4>1 DEF IInv, Locks
    <3> QED BY <3>1, <3>2
  <2> QED BY <2>2, <2>3 DEF Locks
<1>10. StoredHolds' /\ MissedStayOut'
  <2>1. \A x : PaidFor(x)' => PaidFor(x)
    BY <1>2, <1>5 DEF PaidFor, o
  <2> QED BY <1>2, <1>3, <2>1 DEF IInv, StoredHolds, MissedStayOut
<1>11. \A p \in Writing : /\ req'[p] = req[p]
                          /\ \A x : IsOther(p, x)' <=> IsOther(p, x)
                          /\ \A x \in Orders : rowLock'[x] = p <=> rowLock[x] = p
  <2> SUFFICES ASSUME NEW p \in Writing
               PROVE  /\ req'[p] = req[p]
                      /\ \A x : IsOther(p, x)' <=> IsOther(p, x)
                      /\ \A x \in Orders : rowLock'[x] = p <=> rowLock[x] = p
    OBVIOUS
  <2>1. p # r /\ p \in Requests /\ p # NoOne
    BY <1>4, <1>8 DEF Writing
  <2> QED BY <1>5, <1>6, <2>1 DEF IsOther
<1>12. AnswersHold'
  BY <1>2, <1>3, <1>8, <1>11 DEF IInv, AnswersHold
<1>13. RecoveryHolds'
  BY <1>2, <1>4 DEF RecoveryHolds
<1>14. AloneHolds'
  BY <1>2, <1>3, <1>8, <1>11 DEF IInv, AloneHolds
<1>15. EstimatesSettle'
  <2>1. NoneWriting' <=> NoneWriting
    BY <1>2, <1>5 DEF NoneWriting
  <2> QED BY <1>2, <1>3, <2>1 DEF IInv, EstimatesSettle, InProgress
<1> QED BY <1>3, <1>7, <1>9, <1>10, <1>12, <1>13, <1>14, <1>15 DEF IInv

\* It writes the estimate of another order.
LEMMA PayWriteStep ==
    ASSUME IInv, NEW r \in Requests, PayWrite(r)
    PROVE  IInv'
<1> DEFINE others == req[r].others
           o == Head(others)
<1>1. TypeOK /\ KitchenInv
  BY DEF IInv
<1>2. /\ UNCHANGED <<now, kitchen>>
      /\ UNCHANGED <<menu, status, stored, phase, missed, toRecover, answer, settled>>
      /\ req[r].at = "writing" /\ others # << >>
      /\ req' = [req EXCEPT ![r].others = Tail(others)]
      /\ IF status[o] = "queued"
         THEN rowLock[o] \in {NoOne, r} /\ rowLock' = [rowLock EXCEPT ![o] = r]
         ELSE UNCHANGED rowLock
  BY DEF PayWrite, process
<1>3. /\ KitchenInv'
      /\ UNCHANGED <<slots, queue, seq, remaining, readyAt, eta>>
      /\ \A p \in Orders : LastDue(p) \in Int /\ LastDue(p)' = LastDue(p)
      /\ \A p \in Orders : Known(p)' <=> Known(p)
  BY <1>1, <1>2, KitchenSame
<1>4. phase = "up" /\ NoOne \notin Requests
  BY <1>2, PaidWhenUp, EstimatesAssumption
<1>5. /\ req[r] \in [at: {"writing"}, order: Orders, etas: [Orders -> Nat \cup {NoTime}],
                     others: Seq(Orders), alone: BOOLEAN]
      /\ others \in Seq(Orders)
  BY <1>1, <1>2, RequestFields
<1>6. /\ o \in Orders /\ o = others[1] /\ Len(others) \in Nat /\ Len(others) > 0
      /\ Tail(others) \in Seq(Orders) /\ Len(Tail(others)) = Len(others) - 1
      /\ \A k \in 1..(Len(others) - 1) : Tail(others)[k] = others[k + 1]
  <2> HIDE DEF others
  <2> QED BY <1>2, <1>5
<1>7. /\ req'[r] = [req[r] EXCEPT !.others = Tail(others)]
      /\ \A p \in Requests : p # r => req'[p] = req[p]
  BY <1>1, <1>2 DEF TypeOK
<1>8. /\ req'[r].at = "writing" /\ req'[r].order = req[r].order
      /\ req'[r].etas = req[r].etas /\ req'[r].alone = req[r].alone
      /\ req'[r].others = Tail(others)
  <2> HIDE DEF others
  <2> QED BY <1>5, <1>6, <1>7
<1>9. /\ \A x \in Orders : x # o => rowLock'[x] = rowLock[x]
      /\ rowLock'[o] # rowLock[o] => rowLock[o] = NoOne /\ rowLock'[o] = r
      /\ status[o] = "queued" => rowLock'[o] = r
      /\ rowLock' \in [Orders -> Requests \cup {NoOne}]
      /\ \A x \in Orders : rowLock[x] \in Requests \cup {NoOne}
  <2> HIDE DEF o
  <2> QED BY <1>1, <1>2, <1>6 DEF TypeOK
<1>10. TypeOK'
  <2>1. req'[r] \in ReqStates
    <3> HIDE DEF others
    <3> QED BY <1>5, <1>6, <1>7 DEF ReqStates
  <2>2. req' \in [Requests -> ReqStates]
    <3> HIDE DEF others
    <3> QED BY <1>1, <1>2, <1>7, <2>1 DEF TypeOK
  <2> QED BY <1>1, <1>2, <1>3, <1>9, <2>2 DEF TypeOK
<1>11. /\ \A x : IsOther(r, x)' => IsOther(r, x)
       /\ \A x : IsOther(r, x) => IsOther(r, x)' \/ x = o
       /\ IsOther(r, o)
  <2>1. ASSUME NEW x, IsOther(r, x)' PROVE IsOther(r, x)
    <3>1. PICK k \in 1..Len(Tail(others)) : Tail(others)[k] = x
      BY <1>8, <2>1 DEF IsOther
    <3>2. k + 1 \in 1..Len(others) /\ others[k + 1] = x
      BY <1>6, <3>1
    <3> QED BY <3>2 DEF IsOther
  <2>2. ASSUME NEW x, IsOther(r, x), x # o PROVE IsOther(r, x)'
    <3>1. PICK k \in 1..Len(others) : others[k] = x
      BY <2>2 DEF IsOther
    <3>2. k # 1
      BY <1>6, <2>2, <3>1
    <3>3. k - 1 \in 1..Len(Tail(others)) /\ Tail(others)[k - 1] = x
      BY <1>6, <3>1, <3>2
    <3> QED BY <1>8, <3>3 DEF IsOther
  <2>3. IsOther(r, o)
    <3>1. 1 \in 1..Len(others)
      BY <1>6
    <3> QED BY <1>6, <3>1 DEF IsOther
  <2> QED BY <2>1, <2>2, <2>3
<1> HIDE DEF o, others
<1>12. Writing' = Writing /\ r \in Writing
  BY <1>2, <1>7, <1>8 DEF Writing
<1>13. Locks'
  <2>1. \A x \in Orders :
           rowLock'[x] # NoOne => req'[rowLock'[x]].at \in {"flushed", "writing"}
    <3> SUFFICES ASSUME NEW x \in Orders, rowLock'[x] # NoOne
                 PROVE  req'[rowLock'[x]].at \in {"flushed", "writing"}
      OBVIOUS
    <3>1. CASE rowLock'[x] = r
      BY <1>8, <3>1
    <3>2. CASE rowLock'[x] # r
      <4>1. rowLock'[x] = rowLock[x] /\ rowLock[x] \in Requests
        BY <1>9, <3>2
      <4> QED BY <1>7, <3>2, <4>1 DEF IInv, Locks
    <3> QED BY <3>1, <3>2
  <2>2. ASSUME NEW p \in Requests
        PROVE  /\ req'[p].at \in {"flushed", "writing"} => rowLock'[req'[p].order] = p
               /\ req'[p].at = "flushed" =>
                     \A x \in Orders : rowLock'[x] = p => x = req'[p].order
    <3>1. /\ req'[p].at = req[p].at /\ req'[p].order = req[p].order
          /\ req[p].at # "idle" => req[p].order \in Orders
          /\ req[p].at = "flushed" => p # r
      BY <1>1, <1>2, <1>7, <1>8, RequestFields
    <3> QED BY <1>4, <1>9, <3>1 DEF IInv, Locks
  <2> QED BY <2>1, <2>2 DEF Locks
<1>14. StoredHolds' /\ MissedStayOut'
  <2>1. \A x : PaidFor(x)' => PaidFor(x)
    BY <1>2, <1>7, <1>8 DEF PaidFor
  <2> QED BY <1>2, <1>3, <2>1 DEF IInv, StoredHolds, MissedStayOut
<1>15. AnswersHold'
  <2> SUFFICES ASSUME NEW p \in Writing, NEW x \in Orders
               PROVE  /\ req'[p].etas[x] # NoTime => req'[p].etas[x] <= LastDue(x)'
                      /\ rowLock'[x] = p \/ IsOther(p, x)' => req'[p].etas[x] # NoTime
    BY <1>12 DEF AnswersHold
  <2>1. /\ req[p].etas[x] # NoTime => req[p].etas[x] <= LastDue(x)
        /\ rowLock[x] = p \/ IsOther(p, x) => req[p].etas[x] # NoTime
    BY DEF IInv, AnswersHold
  <2>2. req'[p].etas = req[p].etas
    BY <1>7, <1>8 DEF Writing
  <2>3. IsOther(p, x)' => IsOther(p, x)
    <3>1. CASE p = r
      BY <1>11, <3>1
    <3>2. CASE p # r
      BY <1>7, <3>2 DEF IsOther, Writing
    <3> QED BY <3>1, <3>2
  <2>4. rowLock'[x] = p => rowLock[x] = p \/ IsOther(p, x)
    BY <1>9, <1>11 DEF Writing
  <2> QED BY <1>3, <2>1, <2>2, <2>3, <2>4
<1>16. RecoveryHolds'
  BY <1>2, <1>4 DEF RecoveryHolds
<1>17. AloneHolds'
  <2> SUFFICES ASSUME NEW p \in Writing, req'[p].alone
               PROVE  /\ Writing \subseteq {p}
                      /\ \A x \in Orders : remaining[x] > 0 =>
                            /\ req'[p].etas[x] = eta[x]
                            /\ status[x] = "queued" => rowLock'[x] = p \/ IsOther(p, x)'
    BY <1>2, <1>3, <1>12 DEF AloneHolds
  <2>1. req[p].alone
    BY <1>7, <1>8 DEF Writing
  <2>2. /\ Writing \subseteq {p}
        /\ \A x \in Orders : remaining[x] > 0 =>
              /\ req[p].etas[x] = eta[x]
              /\ status[x] = "queued" => rowLock[x] = p \/ IsOther(p, x)
    BY <2>1 DEF IInv, AloneHolds
  <2>3. p = r
    BY <1>12, <2>2
  <2>4. \A x \in Orders : status[x] = "queued" /\ (rowLock[x] = r \/ IsOther(r, x)) =>
           rowLock'[x] = r \/ IsOther(r, x)'
    BY <1>9, <1>11
  <2> QED BY <1>8, <2>2, <2>3, <2>4
<1>18. EstimatesSettle'
  <2>1. ~NoneWriting'
    BY <1>8 DEF NoneWriting
  <2> QED BY <2>1 DEF EstimatesSettle
<1> QED BY <1>3, <1>10, <1>13, <1>14, <1>15, <1>16, <1>17, <1>18 DEF IInv

\* What is listed of the answer of an enqueue has units in the kitchen, and what
\* has units is listed or is the order itself.
LEMMA AnswerLists ==
    ASSUME NEW sl, NEW q, NEW rem, SlotsType(sl), QueueType(q), Distinct(sl, q),
           Counted(sl, q, rem), NEW o \in Orders
    PROVE  LET keys == EtaKeysBut(o, sl, q)
           IN  /\ keys \in Seq(Orders)
               /\ \A k \in 1..Len(keys) : rem[keys[k]] > 0
               /\ \A x \in Orders :
                     rem[x] > 0 => x = o \/ \E k \in 1..Len(keys) : keys[k] = x
<1> DEFINE keys == EtaKeysBut(o, sl, q)
           met == (OrdersOnTrays(sl) \cup OrdersWaiting(q)) \ {o}
<1>1. /\ keys \in Seq(Orders)
      /\ \A k \in 1..Len(keys) : keys[k] \in met
      /\ \A x \in met : \E k \in 1..Len(keys) : keys[k] = x
  BY EtaKeysAreOrders
<1>2. \A x \in Orders : rem[x] > 0 <=> \E t \in TasksOn(sl) \cup q : t.order = x
  BY CountsUnits
<1>3. \A x \in Orders : rem[x] > 0 <=> x \in met \/ (x = o /\ rem[o] > 0)
  BY <1>2 DEF OrdersOnTrays, OrdersWaiting, TasksOn
<1> HIDE DEF keys, met
<1>4. \A k \in 1..Len(keys) : keys[k] \in Orders
  BY <1>1
<1> QED BY <1>1, <1>3, <1>4 DEF keys

\* It enqueues its units.
LEMMA PayEnqueueStep ==
    ASSUME IInv, NEW r \in Requests, PayEnqueue(r)
    PROVE  IInv'
<1> DEFINE o == req[r].order
           keys == EtaKeysBut(o, slots', queue')
           writing == [at |-> "writing", order |-> o, etas |-> Returned,
                       others |-> keys, alone |-> Writing = {}]
<1>1. TypeOK /\ KitchenInv
  BY DEF IInv
<1>2. /\ req[r].at = "flushed" /\ now' = now
      /\ EnqueueLocked(o, OrderSpecs(o, req[r].bake))
      /\ UNCHANGED <<menu, status, stored, rowLock, phase, missed, toRecover, answer>>
      /\ settled' = settled
      /\ req' = [p \in Requests |->
                    IF p = r THEN writing
                    ELSE IF p \in Writing THEN [req[p] EXCEPT !.alone = FALSE]
                    ELSE req[p]]
  BY DEF PayEnqueue, process, rows, Writing
<1>3. o \in Orders /\ req[r].bake \in BakeTimes /\ phase = "up" /\ r \notin Writing
  BY <1>1, <1>2, RequestFields, PaidWhenUp DEF Writing
<1>4. /\ writing.at = "writing" /\ writing.order = o /\ writing.etas = Returned
      /\ writing.others = keys /\ writing.alone = (Writing = {})
  OBVIOUS
<1> HIDE DEF keys
<1>5. KitchenInv' /\ remaining'[o] > 0
  BY <1>1, <1>2, <1>3, SpecsType, EnqueueStep
<1>6. Returned \in [Orders -> Nat \cup {NoTime}]
  BY <1>1, <1>2, <1>3, SpecsType, EnqueueStep DEF Returned
<1>7. \A x \in Orders :
         /\ x # o => (remaining'[x] > 0 => remaining[x] > 0)
         /\ x # o => (Known(x)' => Known(x))
         /\ remaining[x] \in Nat /\ remaining'[x] \in Nat
         /\ LastDue(x) \in Int /\ LastDue(x)' \in Int /\ LastDue(x) <= LastDue(x)'
         /\ remaining'[x] > 0 =>
               Returned[x] = eta'[x] /\ Returned[x] = LastDue(x)' /\ Returned[x] # NoTime
         /\ ~(remaining'[x] > 0) => Returned[x] = NoTime
  <2>1. \A x \in Orders : remaining[x] \in Nat /\ remaining'[x] \in Nat
    BY <1>1, <1>5 DEF KitchenInv, KitchenTypes
  <2>2. \A x \in Orders :
           /\ x # o => (remaining'[x] > 0 => remaining[x] > 0)
           /\ x # o => (Known(x)' => Known(x))
           /\ LastDue(x) \in Int /\ LastDue(x)' \in Int /\ LastDue(x) <= LastDue(x)'
           /\ remaining'[x] > 0 =>
                 Returned[x] = eta'[x] /\ Returned[x] = LastDue(x)' /\ Returned[x] \in Nat
           /\ remaining'[x] = 0 => Returned[x] = NoTime
    BY <1>1, <1>2, <1>3, SpecsType, EnqueueStep DEF Returned
  <2> QED BY <2>1, <2>2 DEF NoTime
<1>8. /\ keys \in Seq(Orders)
      /\ \A k \in 1..Len(keys) : remaining'[keys[k]] > 0
      /\ \A x \in Orders : remaining'[x] > 0 => x = o \/ \E k \in 1..Len(keys) : keys[k] = x
  <2>1. /\ SlotsType(slots') /\ QueueType(queue') /\ Distinct(slots', queue')
        /\ Counted(slots', queue', remaining')
    BY <1>5 DEF KitchenInv, KitchenTypes, SlotsType, QueueType, Distinct, Counted, UnitsOf,
                TasksOn, BusySlots, FreeSlots
  <2> QED BY <1>3, <2>1, AnswerLists DEF keys
<1>9. /\ req'[r] = writing
      /\ \A p \in Requests : p # r => IF p \in Writing THEN req'[p] = [req[p] EXCEPT !.alone = FALSE]
                                      ELSE req'[p] = req[p]
  BY <1>2
<1> HIDE DEF writing
<1>10. ASSUME NEW p \in Requests, p # r
       PROVE  /\ req'[p].at = req[p].at /\ req'[p].order = req[p].order
              /\ req'[p] \in ReqStates
              /\ p \in Writing => /\ req'[p].etas = req[p].etas /\ req'[p].others = req[p].others
                                  /\ req'[p].alone = FALSE
  <2>1. CASE p \in Writing
    <3>1. /\ req[p] \in [at: {"writing"}, order: Orders, etas: [Orders -> Nat \cup {NoTime}],
                         others: Seq(Orders), alone: BOOLEAN]
      BY <1>1, <2>1, RequestFields DEF Writing
    <3>2. req'[p] = [req[p] EXCEPT !.alone = FALSE]
      BY <1>9, <1>10, <2>1
    <3>3. req'[p] \in [at: {"writing"}, order: Orders, etas: [Orders -> Nat \cup {NoTime}],
                       others: Seq(Orders), alone: BOOLEAN]
      BY <3>1, <3>2
    <3>4. req'[p] \in ReqStates
      BY <3>3 DEF ReqStates
    <3> QED BY <3>1, <3>2, <3>4
  <2>2. CASE p \notin Writing
    BY <1>1, <1>9, <1>10, <2>2 DEF TypeOK
  <2> QED BY <2>1, <2>2
<1>11. TypeOK'
  <2>1. writing \in ReqStates
    <3>1. (Writing = {}) \in BOOLEAN
      OBVIOUS
    <3>2. writing \in [at: {"writing"}, order: Orders, etas: [Orders -> Nat \cup {NoTime}],
                       others: Seq(Orders), alone: BOOLEAN]
      BY <1>3, <1>6, <1>8, <3>1 DEF writing
    <3> QED BY <3>2 DEF ReqStates
  <2>2. \A p \in Requests : req'[p] \in ReqStates
    BY <1>9, <1>10, <2>1
  <2>3. req' \in [Requests -> ReqStates]
    BY <1>2, <2>2
  <2> QED BY <1>1, <1>2, <1>5, <2>3 DEF TypeOK, KitchenInv, KitchenTypes
<1>12. /\ \A x \in Orders : rowLock[x] = r => x = o
       /\ rowLock[o] = r
  BY <1>2, <1>3 DEF IInv, Locks
<1>13. /\ Writing' = Writing \cup {r}
       /\ req'[r].at = "writing" /\ req'[r].order = o
  BY <1>3, <1>4, <1>9, <1>10 DEF Writing
<1>14. \A x : IsOther(r, x)' <=> \E k \in 1..Len(keys) : keys[k] = x
  BY <1>4, <1>9 DEF IsOther
<1>15. Locks'
  <2>1. \A p \in Requests : req'[p].order = req[p].order
    BY <1>10, <1>13
  <2>2. \A p \in Requests : /\ req'[p].at \in {"flushed", "writing"}
                                  <=> req[p].at \in {"flushed", "writing"}
                            /\ req'[p].at = "flushed" => req[p].at = "flushed"
    BY <1>2, <1>10, <1>13
  <2>3. \A x \in Orders : rowLock[x] # NoOne => rowLock[x] \in Requests
    BY <1>1 DEF TypeOK
  <2> HIDE DEF o
  <2> QED BY <1>2, <2>1, <2>2, <2>3 DEF IInv, Locks
<1>16. StoredHolds' /\ MissedStayOut'
  <2>1. \A x : PaidFor(x)' => PaidFor(x)
    BY <1>2, <1>10, <1>13 DEF PaidFor
  <2>2. PaidFor(o)
    BY <1>2 DEF PaidFor
  <2> HIDE DEF o
  <2>3. ASSUME NEW x \in Orders \ missed, status[x] \in {"queued", "ready"},
               Known(x)' \/ PaidFor(x)'
        PROVE  stored[x] # NoTime /\ stored[x] <= LastDue(x)'
    <3>1. Known(x) \/ PaidFor(x)
      BY <1>7, <2>1, <2>2, <2>3
    <3>2. stored[x] # NoTime /\ stored[x] <= LastDue(x) /\ stored[x] \in Int
      BY <1>1, <1>3, <2>3, <3>1 DEF IInv, StoredHolds, TypeOK, NoTime
    <3> QED BY <1>7, <3>2
  <2>4. StoredHolds'
    BY <1>2, <2>3 DEF StoredHolds
  <2>5. missed \subseteq Orders
    BY <1>1 DEF TypeOK
  <2>6. \A x \in missed : x # o /\ remaining[x] = 0
    BY <1>3, <2>2 DEF IInv, MissedStayOut
  <2>7. \A x \in missed : remaining'[x] = 0
    BY <1>7, <2>5, <2>6
  <2>8. MissedStayOut'
    BY <1>2, <2>1, <2>7 DEF IInv, MissedStayOut
  <2> QED BY <2>4, <2>8
<1>17. AnswersHold'
  <2> SUFFICES ASSUME NEW p \in Writing', NEW x \in Orders
               PROVE  /\ req'[p].etas[x] # NoTime => req'[p].etas[x] <= LastDue(x)'
                      /\ rowLock[x] = p \/ IsOther(p, x)' => req'[p].etas[x] # NoTime
    BY <1>2 DEF AnswersHold
  <2>1. CASE p = r
    <3>1. req'[p].etas = Returned
      BY <1>4, <1>9, <2>1
    <3>2. Returned[x] # NoTime => Returned[x] <= LastDue(x)'
      BY <1>7
    <3>3. rowLock[x] = r \/ IsOther(r, x)' => remaining'[x] > 0
      BY <1>5, <1>8, <1>12, <1>14
    <3> QED BY <1>7, <2>1, <3>1, <3>2, <3>3
  <2>2. CASE p # r
    <3>1. p \in Writing /\ p \in Requests
      BY <1>13, <2>2 DEF Writing
    <3>2. req'[p].etas = req[p].etas /\ req'[p].others = req[p].others
      BY <1>10, <2>2, <3>1
    <3>3. /\ req[p].etas[x] # NoTime => req[p].etas[x] <= LastDue(x)
          /\ rowLock[x] = p \/ IsOther(p, x) => req[p].etas[x] # NoTime
      BY <3>1 DEF IInv, AnswersHold
    <3>4. req[p].etas[x] \in Int
      <4>1. req[p].etas \in [Orders -> Nat \cup {NoTime}]
        BY <1>1, <3>1, RequestFields DEF Writing
      <4> QED BY <4>1 DEF NoTime
    <3>5. IsOther(p, x)' <=> IsOther(p, x)
      BY <3>2 DEF IsOther
    <3> QED BY <1>7, <3>2, <3>3, <3>4, <3>5
  <2> QED BY <2>1, <2>2
<1>18. RecoveryHolds'
  BY <1>2, <1>3 DEF RecoveryHolds
<1>19. AloneHolds'
  <2> SUFFICES ASSUME NEW p \in Writing', req'[p].alone
               PROVE  /\ Writing' \subseteq {p}
                      /\ \A x \in Orders : remaining'[x] > 0 =>
                            /\ req'[p].etas[x] = eta'[x]
                            /\ status[x] = "queued" => rowLock[x] = p \/ IsOther(p, x)'
    BY <1>2 DEF AloneHolds
  <2>1. p = r
    <3> SUFFICES ASSUME p # r PROVE FALSE
      OBVIOUS
    <3>1. p \in Writing /\ p \in Requests
      BY <1>13 DEF Writing
    <3> QED BY <1>10, <3>1
  <2>2. Writing = {}
    BY <1>4, <1>9, <2>1
  <2>3. req'[p].etas = Returned
    BY <1>4, <1>9, <2>1
  <2> QED BY <1>7, <1>8, <1>12, <1>13, <1>14, <2>1, <2>2, <2>3
<1>20. EstimatesSettle'
  <2>1. ~NoneWriting'
    BY <1>13 DEF NoneWriting
  <2> QED BY <2>1 DEF EstimatesSettle
<1> QED BY <1>5, <1>11, <1>15, <1>16, <1>17, <1>18, <1>19, <1>20 DEF IInv

-----------------------------------------------------------------------------
(* A payment ends.                                                         *)

\* The rows it gives up and the answer it forgets, with a commit or without.
LEMMA ReleaseStep ==
    ASSUME IInv, NEW r \in Requests, req[r].at \in {"flushed", "writing"},
           rowLock' = Released(r), req' = [req EXCEPT ![r] = Idle],
           UNCHANGED <<now, kitchen, menu, process>>
    PROVE  /\ UNCHANGED <<now, slots, queue, seq, remaining, readyAt, eta>>
           /\ phase = "up" /\ UNCHANGED <<phase, missed, toRecover, answer>>
           /\ rowLock' \in [Orders -> Requests \cup {NoOne}] /\ req' \in [Requests -> ReqStates]
           /\ \A x \in Orders : LastDue(x) \in Int /\ LastDue(x)' = LastDue(x)
           /\ \A x \in Orders : Known(x)' <=> Known(x)
           /\ \A x : PaidFor(x)' => PaidFor(x)
           /\ Writing' = Writing \ {r}
           /\ KitchenInv' /\ Locks' /\ AnswersHold' /\ RecoveryHolds'
           /\ (status' = status \/ req[r].at = "writing") => AloneHolds'
<1>1. TypeOK /\ KitchenInv
  BY DEF IInv
<1>2. UNCHANGED <<now, kitchen>> /\ UNCHANGED <<phase, missed, toRecover, answer>>
  BY DEF process
<1>3. /\ KitchenInv'
      /\ UNCHANGED <<now, slots, queue, seq, remaining, readyAt, eta>>
      /\ \A x \in Orders : LastDue(x) \in Int /\ LastDue(x)' = LastDue(x)
      /\ \A x \in Orders : Known(x)' <=> Known(x)
  BY <1>1, <1>2, KitchenSame
<1>4. phase = "up"
  BY PaidWhenUp
<1>5. /\ req'[r] = Idle /\ req'[r].at = "idle"
      /\ \A p \in Requests : p # r => req'[p] = req[p]
      /\ req' \in [Requests -> ReqStates]
  BY <1>1 DEF TypeOK, Idle, ReqStates
<1>6. /\ \A x \in Orders : rowLock'[x] = IF rowLock[x] = r THEN NoOne ELSE rowLock[x]
      /\ \A x \in Orders : rowLock[x] \in Requests \cup {NoOne}
      /\ rowLock' \in [Orders -> Requests \cup {NoOne}]
      /\ r # NoOne
  BY <1>1, EstimatesAssumption DEF TypeOK, Released
<1>7. /\ Writing' = Writing \ {r}
      /\ \A x : PaidFor(x)' => PaidFor(x)
      /\ \A p \in Writing \ {r} : \A x : IsOther(p, x)' <=> IsOther(p, x)
  BY <1>5 DEF Writing, PaidFor, IsOther
<1>8. Locks'
  <2>1. \A x \in Orders :
           rowLock'[x] # NoOne => req'[rowLock'[x]].at \in {"flushed", "writing"}
    BY <1>5, <1>6 DEF IInv, Locks
  <2>2. ASSUME NEW p \in Requests
        PROVE  /\ req'[p].at \in {"flushed", "writing"} => rowLock'[req'[p].order] = p
               /\ req'[p].at = "flushed" =>
                     \A x \in Orders : rowLock'[x] = p => x = req'[p].order
    <3>1. CASE p = r
      BY <1>5, <3>1
    <3>2. CASE p # r
      <4>1. req'[p] = req[p] /\ (req[p].at # "idle" => req[p].order \in Orders) /\ p # NoOne
        BY <1>1, <1>5, <3>2, RequestFields, EstimatesAssumption
      <4> QED BY <1>6, <3>2, <4>1 DEF IInv, Locks
    <3> QED BY <3>1, <3>2
  <2> QED BY <2>1, <2>2 DEF Locks
<1>9. AnswersHold'
  <2> SUFFICES ASSUME NEW p \in Writing \ {r}, NEW x \in Orders
               PROVE  /\ req[p].etas[x] # NoTime => req[p].etas[x] <= LastDue(x)
                      /\ rowLock'[x] = p \/ IsOther(p, x) => req[p].etas[x] # NoTime
    BY <1>3, <1>5, <1>7 DEF AnswersHold, Writing
  <2>1. rowLock'[x] = p => rowLock[x] = p
    BY <1>6, EstimatesAssumption DEF Writing
  <2> QED BY <2>1 DEF IInv, AnswersHold
<1>10. RecoveryHolds'
  BY <1>2, <1>4 DEF RecoveryHolds
<1>11. ASSUME status' = status \/ req[r].at = "writing" PROVE AloneHolds'
  <2> SUFFICES ASSUME NEW p \in Writing \ {r}, req[p].alone
               PROVE  /\ Writing \ {r} \subseteq {p}
                      /\ \A x \in Orders : remaining[x] > 0 =>
                            /\ req[p].etas[x] = eta[x]
                            /\ status'[x] = "queued" => rowLock'[x] = p \/ IsOther(p, x)
    BY <1>3, <1>5, <1>7 DEF AloneHolds, Writing
  <2>1. /\ Writing \subseteq {p}
        /\ \A x \in Orders : remaining[x] > 0 =>
              /\ req[p].etas[x] = eta[x]
              /\ status[x] = "queued" => rowLock[x] = p \/ IsOther(p, x)
    BY DEF IInv, AloneHolds
  <2>2. status' = status
    BY <1>11, <2>1 DEF Writing
  <2>3. \A x \in Orders : rowLock[x] = p => rowLock'[x] = p
    BY <1>6
  <2> QED BY <2>1, <2>2, <2>3
<1> QED BY <1>2, <1>3, <1>4, <1>5, <1>6, <1>7, <1>8, <1>9, <1>10, <1>11

\* It commits the estimates.
LEMMA PayCommitStep ==
    ASSUME IInv, NEW r \in Requests, PayCommit(r)
    PROVE  IInv'
<1> DEFINE o == req[r].order
<1>1. TypeOK /\ KitchenInv
  BY DEF IInv
<1>2. /\ req[r].at = "writing" /\ req[r].others = << >>
      /\ status' = [status EXCEPT ![o] = "queued"]
      /\ stored' = [x \in Orders |-> IF rowLock[x] = r THEN req[r].etas[x] ELSE stored[x]]
      /\ rowLock' = Released(r) /\ req' = [req EXCEPT ![r] = Idle]
      /\ settled' = req[r].alone
      /\ UNCHANGED <<now, kitchen, menu, process>>
  BY DEF PayCommit
<1>3. /\ UNCHANGED <<now, slots, queue, seq, remaining, readyAt, eta>>
      /\ phase = "up" /\ UNCHANGED <<phase, missed, toRecover, answer>>
      /\ rowLock' \in [Orders -> Requests \cup {NoOne}] /\ req' \in [Requests -> ReqStates]
      /\ \A x \in Orders : LastDue(x) \in Int /\ LastDue(x)' = LastDue(x)
      /\ \A x \in Orders : Known(x)' <=> Known(x)
      /\ \A x : PaidFor(x)' => PaidFor(x)
      /\ Writing' = Writing \ {r}
      /\ KitchenInv' /\ Locks' /\ AnswersHold' /\ RecoveryHolds'
      /\ AloneHolds'
  BY <1>2, ReleaseStep
<1>4. /\ o \in Orders /\ req[r].etas \in [Orders -> Nat \cup {NoTime}]
      /\ req[r].alone \in BOOLEAN /\ r \in Writing /\ rowLock[o] = r
  BY <1>1, <1>2, RequestFields DEF Writing, IInv, Locks
<1> HIDE DEF o
<1>5. /\ \A x \in Orders : x # o => status'[x] = status[x]
      /\ status'[o] = "queued"
      /\ \A x \in Orders : stored'[x] = IF rowLock[x] = r THEN req[r].etas[x] ELSE stored[x]
      /\ stored' \in [Orders -> Nat \cup {NoTime}]
      /\ status' \in [Orders -> {"none", "pending_payment", "queued", "ready"}]
  BY <1>1, <1>2, <1>4 DEF TypeOK
<1>6. TypeOK'
  BY <1>1, <1>2, <1>3, <1>4, <1>5 DEF TypeOK, KitchenInv, KitchenTypes
<1>7. StoredHolds'
  <2> SUFFICES ASSUME NEW x \in Orders \ missed, status'[x] \in {"queued", "ready"},
                      Known(x) \/ PaidFor(x)
               PROVE  stored'[x] # NoTime /\ stored'[x] <= LastDue(x)
    BY <1>3 DEF StoredHolds
  <2>1. CASE rowLock[x] = r
    BY <1>4, <1>5, <2>1 DEF IInv, AnswersHold
  <2>2. CASE rowLock[x] # r
    <3>1. status[x] \in {"queued", "ready"}
      BY <1>4, <1>5, <2>2
    <3> QED BY <1>3, <1>5, <2>2, <3>1 DEF IInv, StoredHolds
  <2> QED BY <2>1, <2>2
<1>8. MissedStayOut'
  <2>1. missed \subseteq Orders
    BY <1>1 DEF TypeOK
  <2> QED BY <1>3, <1>5, <2>1 DEF IInv, MissedStayOut
\* The rows it has locked are those of all the orders in the kitchen.
<1>9. EstimatesSettle'
  <2> SUFFICES ASSUME req[r].alone, NEW x \in Orders, status'[x] = "queued", remaining[x] > 0
               PROVE  stored'[x] = eta[x]
    BY <1>2, <1>3 DEF EstimatesSettle, InProgress
  <2>1. /\ req[r].etas[x] = eta[x]
        /\ status[x] = "queued" => rowLock[x] = r \/ IsOther(r, x)
    BY <1>4 DEF IInv, AloneHolds
  <2>2. ~IsOther(r, x)
    <3>1. 1..Len(req[r].others) = {}
      BY <1>2
    <3> QED BY <3>1 DEF IsOther
  <2>3. rowLock[x] = r
    BY <1>4, <1>5, <2>1, <2>2
  <2> QED BY <1>5, <2>1, <2>3
<1> QED BY <1>3, <1>6, <1>7, <1>9, <1>8 DEF IInv

\* It is rolled back: the kitchen has what it enqueued, the table nothing of it.
LEMMA RollbackStep ==
    ASSUME IInv, NEW r \in Requests, PayRefused(r) \/ PayFails(r)
    PROVE  IInv'
<1>1. TypeOK /\ KitchenInv
  BY DEF IInv
<1>2. /\ req[r].at \in {"flushed", "writing"}
      /\ rowLock' = Released(r) /\ req' = [req EXCEPT ![r] = Idle]
      /\ settled' = (settled /\ req[r].at # "writing")
      /\ UNCHANGED <<now, kitchen, menu, process>>
      /\ UNCHANGED <<menu, status, stored>>
  BY DEF PayRefused, PayFails, Rollback
<1>3. /\ UNCHANGED <<now, slots, queue, seq, remaining, readyAt, eta>>
      /\ phase = "up" /\ UNCHANGED <<phase, missed, toRecover, answer>>
      /\ rowLock' \in [Orders -> Requests \cup {NoOne}] /\ req' \in [Requests -> ReqStates]
      /\ \A x \in Orders : LastDue(x) \in Int /\ LastDue(x)' = LastDue(x)
      /\ \A x \in Orders : Known(x)' <=> Known(x)
      /\ \A x : PaidFor(x)' => PaidFor(x)
      /\ Writing' = Writing \ {r}
      /\ KitchenInv' /\ Locks' /\ AnswersHold' /\ RecoveryHolds'
      /\ AloneHolds'
  BY <1>2, ReleaseStep
<1>4. TypeOK'
  <2>1. settled' \in BOOLEAN
    BY <1>1, <1>2 DEF TypeOK
  <2> QED BY <1>1, <1>2, <1>3, <2>1 DEF TypeOK, KitchenInv, KitchenTypes
<1>5. StoredHolds' /\ MissedStayOut'
  BY <1>2, <1>3 DEF IInv, StoredHolds, MissedStayOut
<1>6. EstimatesSettle'
  <2> SUFFICES ASSUME NoneWriting', settled'
               PROVE  \A x \in Orders : status[x] = "queued" /\ remaining[x] > 0 =>
                         stored[x] = eta[x]
    BY <1>2, <1>3 DEF EstimatesSettle, InProgress
  <2>1. settled /\ req[r].at # "writing"
    BY <1>2
  <2>2. Writing' = {}
    BY DEF NoneWriting, Writing
  <2>3. NoneWriting
    BY <1>3, <2>1, <2>2 DEF NoneWriting, Writing
  <2> QED BY <1>3, <2>1, <2>3 DEF IInv, EstimatesSettle, InProgress
<1> QED BY <1>3, <1>4, <1>5, <1>6 DEF IInv

-----------------------------------------------------------------------------
(* A restart, and what it recovers.                                        *)

NobodyPays == \A r \in Requests : req[r] = Idle
NoneLocked == \A o \in Orders : rowLock[o] = NoOne

\* Without payments there is little to say of them.
LEMMA NoPayments == NobodyPays /\ NoneLocked => Locks /\ AnswersHold /\ AloneHolds
BY DEF NobodyPays, NoneLocked, Locks, AnswersHold, AloneHolds, Writing, Idle

\* So it is until requests are served.
LEMMA Recovering ==
    ASSUME IInv, phase # "up"
    PROVE  NobodyPays /\ NoneLocked
BY DEF IInv, TypeOK, RecoveryHolds, NobodyPays, NoneLocked, Locks, Idle

\* The process ends.
LEMMA CrashStep == ASSUME IInv, Crash PROVE IInv'
<1>1. TypeOK /\ now' = now /\ now \in Nat
  BY DEF IInv, TypeOK, Crash
<1>2. (NewEngine /\ now \in Nat)'
  BY <1>1 DEF Crash, NewEngine, NoTimes
<1>3. KitchenInv'
  BY <1>2, NewKitchen, PTL
<1>4. NobodyPays' /\ NoneLocked'
  BY <1>1 DEF TypeOK, Crash, NobodyPays, NoneLocked
<1>5. Locks' /\ AnswersHold' /\ AloneHolds'
  BY <1>4, NoPayments, PTL
<1>6. TypeOK'
  <2>1. req' \in [Requests -> ReqStates] /\ rowLock' \in [Orders -> Requests \cup {NoOne}]
    BY DEF Crash, ReqStates
  <2>2. answer' \in [Orders -> Nat \cup {NoTime}]
    BY DEF Crash, NoTimes
  <2> QED BY <1>1, <1>3, <2>1, <2>2 DEF TypeOK, Crash, KitchenInv, KitchenTypes
<1>7. /\ phase' = "down" /\ toRecover' = {}
      /\ \A o \in Orders : remaining'[o] = 0 /\ ~Known(o)'
  BY DEF Crash, Known, NoTimes
<1>8. RecoveryHolds'
  BY <1>4, <1>7 DEF RecoveryHolds, NobodyPays
<1>9. StoredHolds' /\ MissedStayOut' /\ EstimatesSettle'
  BY <1>7 DEF StoredHolds, MissedStayOut, EstimatesSettle
<1> QED BY <1>3, <1>5, <1>6, <1>8, <1>9 DEF IInv

\* The next process reads the orders to recover.
LEMMA StartUpStep == ASSUME IInv, StartUp PROVE IInv'
<1>1. TypeOK /\ KitchenInv
  BY DEF IInv
<1>2. /\ UNCHANGED <<now, kitchen>>
      /\ UNCHANGED <<menu, status, stored, rowLock, answer, missed, req, settled>>
      /\ phase = "down" /\ phase' = "recovering"
      /\ toRecover' = {o \in Orders : status[o] = "queued"}
  BY DEF StartUp, rows
<1>3. /\ KitchenInv'
      /\ UNCHANGED <<slots, queue, seq, remaining, readyAt, eta>>
      /\ \A p \in Orders : LastDue(p)' = LastDue(p)
      /\ \A p \in Orders : Known(p)' <=> Known(p)
  BY <1>1, <1>2, KitchenSame
<1>4. TypeOK'
  BY <1>1, <1>2, <1>3 DEF TypeOK
<1>5. NobodyPays' /\ NoneLocked'
  BY <1>2, Recovering DEF NobodyPays, NoneLocked
<1>6. Locks' /\ AnswersHold' /\ AloneHolds'
  BY <1>5, NoPayments, PTL
<1>7. RecoveryHolds'
  BY <1>2, <1>3 DEF IInv, RecoveryHolds
<1>8. StoredHolds' /\ MissedStayOut' /\ EstimatesSettle'
  BY <1>2 DEF StoredHolds, MissedStayOut, EstimatesSettle
<1> QED BY <1>3, <1>4, <1>6, <1>7, <1>8 DEF IInv

\* It enqueues the oldest that is left.
LEMMA RecoverStep == ASSUME IInv, Recover PROVE IInv'
<1> DEFINE o == Least(toRecover)
           specs == OrderSpecs(o, menu[o])
<1>1. TypeOK /\ KitchenInv
  BY DEF IInv
<1>2. /\ phase = "recovering" /\ toRecover # {} /\ now' = now
      /\ EnqueueLocked(o, specs)
      /\ toRecover' = toRecover \ {o}
      /\ answer' = Returned
      /\ UNCHANGED <<menu, status, stored, rowLock, phase, missed, req, settled>>
  BY DEF Recover, rows
<1>3. o \in toRecover /\ o \in Orders /\ menu[o] \in BakeTimes
  <2>1. toRecover \subseteq Nat /\ toRecover \subseteq Orders
    BY <1>1, EstimatesAssumption DEF TypeOK
  <2>2. o \in toRecover
    BY <1>2, <2>1, LeastMember
  <2> HIDE DEF o
  <2> QED BY <1>1, <2>1, <2>2 DEF TypeOK
<1> HIDE DEF o
<1>4. specs \in Seq(PriorityLevel \X (Nat \ {0})) /\ specs # << >>
  BY <1>3, SpecsType
<1> HIDE DEF specs
<1>5. KitchenInv'
  BY <1>1, <1>2, <1>3, <1>4, EnqueueStep
<1>6. Returned \in [Orders -> Nat \cup {NoTime}]
  BY <1>1, <1>2, <1>3, <1>4, EnqueueStep DEF Returned
<1>7. \A x \in Orders :
         remaining'[x] > 0 =>
            Returned[x] = eta'[x] /\ Returned[x] # NoTime /\ Returned[x] <= LastDue(x)'
  <2>1. \A x \in Orders :
           /\ LastDue(x)' \in Int
           /\ remaining'[x] > 0 =>
                 Returned[x] = eta'[x] /\ Returned[x] = LastDue(x)' /\ Returned[x] \in Nat
    BY <1>1, <1>2, <1>3, <1>4, EnqueueStep DEF Returned
  <2> QED BY <2>1 DEF NoTime
<1>8. TypeOK'
  BY <1>1, <1>2, <1>5, <1>6 DEF TypeOK, KitchenInv, KitchenTypes
<1>9. NobodyPays' /\ NoneLocked'
  BY <1>2, Recovering DEF NobodyPays, NoneLocked
<1>10. Locks' /\ AnswersHold' /\ AloneHolds'
  BY <1>9, NoPayments, PTL
<1>11. RecoveryHolds'
  <2>1. \A x \in Orders : Known(x)' => x = o \/ Known(x)
    BY <1>1, <1>2, <1>3, <1>4, EnqueueStep
  <2>2. status[o] = "queued"
    BY <1>2, <1>3 DEF IInv, RecoveryHolds
  <2>3. \A x \in Orders : Known(x)' => status[x] = "queued"
    BY <1>2, <2>1, <2>2 DEF IInv, RecoveryHolds
  <2>4. toRecover' \subseteq {x \in Orders : status[x] = "queued"}
    BY <1>2 DEF IInv, RecoveryHolds
  <2> QED BY <1>2, <1>7, <1>9, <2>3, <2>4 DEF RecoveryHolds, NobodyPays
<1>12. StoredHolds' /\ MissedStayOut' /\ EstimatesSettle'
  BY <1>2 DEF StoredHolds, MissedStayOut, EstimatesSettle
<1> QED BY <1>5, <1>8, <1>10, <1>11, <1>12 DEF IInv

\* It writes the last answer and serves requests.
LEMMA OpenStep == ASSUME IInv, Open PROVE IInv'
<1>1. TypeOK /\ KitchenInv
  BY DEF IInv
<1>2. /\ UNCHANGED <<now, kitchen>>
      /\ UNCHANGED <<menu, status, rowLock, toRecover, answer, req>>
      /\ phase = "recovering" /\ phase' = "up" /\ settled' = TRUE
      /\ missed' = DoneUnwritten
      /\ stored' = [o \in Orders |->
                       IF status[o] = "queued" /\ answer[o] # NoTime THEN answer[o] ELSE stored[o]]
  BY DEF Open
<1>3. /\ KitchenInv'
      /\ UNCHANGED <<slots, queue, seq, remaining, readyAt, eta>>
      /\ \A p \in Orders : LastDue(p)' = LastDue(p)
      /\ \A p \in Orders : Known(p)' <=> Known(p)
  BY <1>1, <1>2, KitchenSame
<1>4. TypeOK'
  BY <1>1, <1>2, <1>3 DEF TypeOK, DoneUnwritten
<1>5. NobodyPays' /\ NoneLocked'
  BY <1>2, Recovering DEF NobodyPays, NoneLocked
<1>6. Locks' /\ AnswersHold' /\ AloneHolds'
  BY <1>5, NoPayments, PTL
<1>7. RecoveryHolds'
  BY <1>2 DEF RecoveryHolds
<1>8. \A o \in Orders : ~PaidFor(o)'
  BY <1>5 DEF NobodyPays, PaidFor, Idle
<1>9. \A o \in Orders : status[o] = "queued" /\ remaining[o] > 0 =>
         stored'[o] = eta[o] /\ stored'[o] # NoTime /\ stored'[o] <= LastDue(o)
  BY <1>2 DEF IInv, RecoveryHolds
<1>10. StoredHolds'
  <2> SUFFICES ASSUME NEW o \in Orders \ DoneUnwritten, Known(o)
               PROVE  stored'[o] # NoTime /\ stored'[o] <= LastDue(o)
    BY <1>2, <1>3, <1>8 DEF StoredHolds
  <2>1. status[o] = "queued"
    BY <1>2 DEF IInv, RecoveryHolds
  <2>2. remaining[o] \in Nat
    BY <1>1 DEF TypeOK
  <2>3. remaining[o] > 0
    BY <2>1, <2>2 DEF Known, DoneUnwritten
  <2> QED BY <1>9, <2>1, <2>3
<1>11. EstimatesSettle'
  BY <1>2, <1>3, <1>9 DEF EstimatesSettle, InProgress
<1>12. MissedStayOut'
  BY <1>2, <1>3, <1>8 DEF MissedStayOut, DoneUnwritten
<1> QED BY <1>3, <1>4, <1>6, <1>7, <1>10, <1>11, <1>12 DEF IInv

-----------------------------------------------------------------------------
(* The theorems.                                                           *)

\* Requests are served from the start, by a kitchen without orders.
THEOREM InitIInv == Init => IInv
<1> SUFFICES ASSUME Init PROVE IInv
  OBVIOUS
<1>1. KitchenInv
  BY NewKitchen DEF Init
<1>2. NobodyPays /\ NoneLocked
  BY DEF Init, NobodyPays, NoneLocked
<1>3. TypeOK
  <2>1. req \in [Requests -> ReqStates] /\ rowLock \in [Orders -> Requests \cup {NoOne}]
    BY DEF Init, ReqStates
  <2>2. menu \in [Orders -> BakeTimes]
    BY EstimatesAssumption DEF Init
  <2> QED BY <1>1, <2>1, <2>2 DEF TypeOK, Init, NoTimes, KitchenInv, KitchenTypes
<1>4. \A o \in Orders : status[o] = "none"
  BY DEF Init
<1>5. StoredHolds /\ MissedStayOut /\ EstimatesSettle
  BY <1>4 DEF StoredHolds, MissedStayOut, EstimatesSettle, InProgress, Init
<1>6. RecoveryHolds
  BY DEF Init, RecoveryHolds
<1> QED BY <1>1, <1>2, <1>3, <1>5, <1>6, NoPayments DEF IInv

\* Every step of the engine, the payments and the recovery keeps the invariant.
THEOREM NextIInv == IInv /\ [Next]_vars => IInv'
<1> SUFFICES ASSUME IInv, [Next]_vars PROVE IInv'
  OBVIOUS
<1>1. ASSUME NEW o \in Orders, Place(o) \/ WriteReady(o) \/ \E b \in BakeTimes : Patch(o, b)
      PROVE  IInv'
  BY <1>1, OrderStep
<1>2. ASSUME NEW r \in Requests, NEW o \in Orders, PayCheck(r, o) PROVE IInv'
  BY <1>2, PayCheckStep
<1>3. ASSUME NEW r \in Requests, PayFlush(r) PROVE IInv'
  BY <1>3, PayFlushStep
<1>4. ASSUME NEW r \in Requests, PayEnqueue(r) PROVE IInv'
  BY <1>4, PayEnqueueStep
<1>5. ASSUME NEW r \in Requests, PayWrite(r) PROVE IInv'
  BY <1>5, PayWriteStep
<1>6. ASSUME NEW r \in Requests, PayCommit(r) PROVE IInv'
  BY <1>6, PayCommitStep
<1>7. ASSUME NEW r \in Requests, PayRefused(r) \/ PayFails(r) PROVE IInv'
  BY <1>7, RollbackStep
<1>8. CASE Tick \/ AdvanceClock \/ UNCHANGED vars
  BY <1>8, KitchenStep
<1>9. CASE Crash
  BY <1>9, CrashStep
<1>10. CASE StartUp
  BY <1>10, StartUpStep
<1>11. CASE Recover
  BY <1>11, RecoverStep
<1>12. CASE Open
  BY <1>12, OpenStep
<1> QED BY <1>1, <1>2, <1>3, <1>4, <1>5, <1>6, <1>7, <1>8, <1>9, <1>10, <1>11, <1>12 DEF Next

\* The locks, the answers that payments hold and what recovery keeps are as the
\* invariant says in every reachable state.
THEOREM SpecIInv == Spec => []IInv
BY InitIInv, NextIInv, PTL DEF Spec

\* Every variable of the estimates module has its type, through any payments,
\* faults and restarts: an estimate is a time, and a lock has an owner or none.
THEOREM TypeCorrect == Spec => []TypeOK
<1>1. IInv => TypeOK
  BY DEF IInv
<1> QED BY <1>1, SpecIInv, PTL

\* While requests are served, an order in the kitchen has an estimate in the
\* table, and it is not later than what the kitchen expects now: however payments
\* interleave, fail or are refused, and whatever recovery enqueues at a bake time
\* that has changed, what the customer reads lags behind in one direction only.
THEOREM StoredEarly == Spec => []StoredNeverLate
<1>1. IInv => StoredNeverLate
  <2> SUFFICES ASSUME IInv, phase = "up", NEW o \in InProgress
               PROVE  stored[o] # NoTime /\ stored[o] <= Project(slots, queue, now)[o]
    BY DEF StoredNeverLate
  <2>1. o \in Orders /\ status[o] = "queued" /\ remaining[o] > 0 /\ o \notin missed
    BY DEF IInv, MissedStayOut, InProgress
  <2> QED BY <2>1 DEF IInv, StoredHolds, Known, LastDue
<1> QED BY <1>1, SpecIInv, PTL

\* The last estimate a customer could read before the order was ready is not later
\* than when it was, whatever payments were under way by then, except for orders
\* that were done before the recovery that enqueued them wrote its estimates.
THEOREM ReadyAsTold == Spec => []StoredNotPastReady
<1>1. IInv => StoredNotPastReady
  <2> SUFFICES ASSUME IInv, phase = "up", NEW o \in Orders \ missed,
                      status[o] \in {"queued", "ready"}, remaining[o] = 0, readyAt[o] # NoTime
               PROVE  stored[o] # NoTime /\ stored[o] <= readyAt[o]
    BY DEF StoredNotPastReady
  <2>1. LastDue(o) = readyAt[o] /\ Known(o)
    BY DEF LastDue, Known
  <2> QED BY <2>1 DEF IInv, StoredHolds
<1> QED BY <1>1, SpecIInv, PTL

\* After a payment that wrote while no other did, or a recovery, and until the
\* next payment writes, the table has for every order in the kitchen the last
\* estimate computed, whatever disorder earlier payments had left.
THEOREM AloneSettles == Spec => []EstimatesSettle
<1>1. IInv => EstimatesSettle
  BY DEF IInv
<1> QED BY <1>1, SpecIInv, PTL

=============================================================================
