------------------------- MODULE KitchenEngineProofs -------------------------
(***************************************************************************)
(* Safety of KitchenEngine for any number of ovens, trays, orders, units   *)
(* and any time.                                                           *)
(***************************************************************************)
EXTENDS KitchenEngine, KitchenStateProofs, FunctionTheorems

\* What the lock's bodies keep, and the two facts that take the loop as well.
IInv ==
    /\ TypeOK
    /\ KitchenInv
    /\ WorkConserving
    /\ NoOversleep

\* UnitsConserved is the two facts about a tick's data that are proved apart: no
\* unit is in two places, and every order's count is right.
LEMMA ConservedAsParts ==
    UnitsConserved <=> Distinct(slots, queue) /\ Counted(slots, queue, remaining)
BY DEF UnitsConserved, Distinct, Counted, UnitsOf, OnTray, TasksOn

\* Of the busy trays, one finishes first.
LEMMA FirstFinish ==
    ASSUME TypeOK, BusySlots(slots) # {}
    PROVE  /\ NextFinish \in Int
           /\ \A s \in BusySlots(slots) : NextFinish <= slots[s].finish_at
<1> DEFINE B == BusySlots(slots)
           R == {p \in B \X B : \/ slots[p[1]].finish_at < slots[p[2]].finish_at
                                \/ /\ slots[p[1]].finish_at = slots[p[2]].finish_at
                                   /\ p[1] < p[2]}
<1>1. IsFiniteSet(B)
  BY TasksFinite
<1>2. \A s \in B : s \in Int /\ slots[s].finish_at \in Int
  BY KitchenAssumption DEF TypeOK, BusySlots, FreeSlots, Slots, Baking
<1>3. \A s, r \in B : <<s, r>> \in R <=>
         \/ slots[s].finish_at < slots[r].finish_at
         \/ slots[s].finish_at = slots[r].finish_at /\ s < r
  OBVIOUS
<1> HIDE DEF R
<1>4. StrictOrder(B, R)
  BY <1>2, <1>3 DEF StrictOrder
<1>5. Numbers(B, CountBelow(B, R))
  BY <1>1, <1>4, CountingBelow
<1>6. 0 \in 0..(Cardinality(B) - 1)
  <2>1. Cardinality(B) # 0
    BY <1>1, FS_EmptySet
  <2> QED BY <2>1, <1>5 DEF Numbers
<1>7. PICK s \in B : CountBelow(B, R)[s] = 0
  BY <1>5, <1>6 DEF Numbers
<1>8. {r \in B : <<r, s>> \in R} = {}
  <2>1. Cardinality({r \in B : <<r, s>> \in R}) = 0
    BY <1>7 DEF CountBelow
  <2>2. IsFiniteSet({r \in B : <<r, s>> \in R})
    BY <1>1, FS_Subset
  <2> QED BY <2>1, <2>2, FS_EmptySet
<1>9. \A r \in B : slots[s].finish_at <= slots[r].finish_at
  <2>1. \A r \in B : <<r, s>> \notin R
    BY <1>8
  <2> HIDE DEF B
  <2> TAKE r \in B
  <2>2. ~(slots[r].finish_at < slots[s].finish_at)
    BY <1>3, <2>1
  <2>3. slots[r].finish_at \in Int /\ slots[s].finish_at \in Int
    BY <1>2
  <2> QED BY <2>2, <2>3
<1>10. \E b \in B : \A r \in B : slots[b].finish_at <= slots[r].finish_at
  BY <1>9
<1>11. PICK b \in B : /\ \A r \in B : slots[b].finish_at <= slots[r].finish_at
                      /\ NextFinish = slots[b].finish_at
  BY <1>10 DEF NextFinish
<1> QED BY <1>2, <1>11

\* A sleep is never longer than the first bake to end.
LEMMA TimeoutBound ==
    ASSUME TypeOK
    PROVE  /\ Timeout \in Nat
           /\ \A s \in BusySlots(slots) : now + Timeout <= Later(now, slots[s].finish_at)
<1>0. RECONCILE_SECONDS \in Nat /\ now \in Nat
  BY EngineAssumption DEF TypeOK
<1>1. CASE BusySlots(slots) = {}
  BY <1>0, <1>1 DEF Timeout
<1>2. CASE BusySlots(slots) # {}
  <2>1. /\ NextFinish \in Int
        /\ \A s \in BusySlots(slots) : NextFinish <= slots[s].finish_at
    BY <1>2, FirstFinish
  <2>2. \A s \in BusySlots(slots) : slots[s].finish_at \in Int
    BY DEF TypeOK, BusySlots, FreeSlots, Baking
  <2>3. /\ Timeout \in Nat
        /\ Timeout <= Later(0, NextFinish - now)
    BY <1>0, <1>2, <2>1 DEF Timeout, Capped, Later
  <2> QED BY <1>0, <2>1, <2>2, <2>3 DEF Later
<1> QED BY <1>1, <1>2

-----------------------------------------------------------------------------
(* The steps.                                                              *)

\* What EnqueueStart and EnqueueStep ask of an order's specs.
LEMMA SpecsType ==
    \A specs \in Specs : specs \in Seq(PriorityLevel \X (Nat \ {0})) /\ specs # << >>
BY EngineAssumption

\* The empty kitchen satisfies the inductive invariant.
THEOREM InitIInv == Init => IInv
<1> SUFFICES ASSUME Init PROVE IInv
  OBVIOUS
<1>1. KitchenInv
  BY NewKitchen DEF Init
<1>2. TypeOK
  BY <1>1 DEF Init, TypeOK, KitchenInv, KitchenTypes
<1>3. WorkConserving /\ NoOversleep
  BY DEF Init, NewEngine, WorkConserving, NoOversleep
<1> QED BY <1>1, <1>2, <1>3 DEF IInv

\* Every step preserves the inductive invariant.
THEOREM NextIInv == IInv /\ [Next]_vars => IInv'
<1> SUFFICES ASSUME IInv, [Next]_vars PROVE IInv'
  OBVIOUS
<1> USE DEF IInv
<1>1. ASSUME NEW o \in Orders, NEW specs \in Specs, Enqueue(o, specs)
      PROVE  IInv'
  <2>1. /\ EnqueueLocked(o, specs) /\ wakeup' = TRUE
        /\ UNCHANGED <<now, loop, deadline, late>>
    BY <1>1 DEF Enqueue
  <2>2. KitchenInv' /\ (queue' # {} => FreeSlots(slots') = {})
    BY <2>1, SpecsType, EnqueueStep
  <2>3. TypeOK'
    BY <2>1, <2>2 DEF TypeOK, KitchenInv, KitchenTypes
  <2>4. WorkConserving' /\ NoOversleep'
    BY <2>1, <2>2 DEF WorkConserving, NoOversleep, FreeSlots
  <2> QED BY <2>2, <2>3, <2>4
<1>2. CASE Reconcile
  <2>1. /\ TickAndAccount(queue, remaining) /\ loop' = "persist"
        /\ UNCHANGED <<now, seq, wakeup, deadline, eta, late>>
    BY <1>2 DEF Reconcile
  <2>2. KitchenInv' /\ (queue' # {} => FreeSlots(slots') = {})
    BY <2>1, ReconcileStep
  <2>3. TypeOK'
    BY <2>1, <2>2 DEF TypeOK, KitchenInv, KitchenTypes
  <2>4. WorkConserving' /\ NoOversleep'
    BY <2>1, <2>2 DEF WorkConserving, NoOversleep, FreeSlots
  <2> QED BY <2>2, <2>3, <2>4
<1>3. ASSUME UNCHANGED <<slots, queue, seq, remaining, readyAt, eta>>,
             now' \in Nat, now <= now'
      PROVE  KitchenInv' /\ WorkConserving'
  <2>1. KitchenInv'
    BY <1>3, ClockStep
  <2> QED BY <1>3, <2>1 DEF WorkConserving, FreeSlots
<1>4. now \in Nat /\ now <= now
  BY DEF TypeOK
<1>5. CASE Sleep
  <2>1. KitchenInv' /\ WorkConserving'
    BY <1>3, <1>4, <1>5 DEF Sleep, kitchen
  <2>2. Timeout \in Nat
        /\ \A s \in BusySlots(slots) : now + Timeout <= Later(now, slots[s].finish_at)
    BY TimeoutBound
  <2>3. TypeOK'
    <3>1. now + Timeout \in Nat
      BY <1>4, <2>2
    <3>2. deadline' \in Nat /\ loop' = "wait" /\ wakeup' = FALSE /\ UNCHANGED late
      BY <1>5, <3>1 DEF Sleep
    <3> QED BY <2>1, <3>2 DEF TypeOK, KitchenInv, KitchenTypes
  <2>4. NoOversleep'
    BY <1>5, <2>2 DEF Sleep, NoOversleep, kitchen, BusySlots, FreeSlots
  <2> QED BY <2>1, <2>3, <2>4
<1>6. CASE Wake
  <2>1. KitchenInv' /\ WorkConserving'
    BY <1>3, <1>4, <1>6 DEF Wake, kitchen
  <2>2. TypeOK' /\ NoOversleep'
    BY <1>6 DEF Wake, TypeOK, NoOversleep, kitchen
  <2> QED BY <2>1, <2>2
<1>7. CASE AdvanceClock
  <2>1. now \in Nat /\ now' \in Nat /\ now < now'
    BY <1>4, <1>7, EngineAssumption DEF AdvanceClock
  <2>2. /\ UNCHANGED <<slots, queue, seq, remaining, readyAt, eta>>
        /\ UNCHANGED <<loop, wakeup, deadline>> /\ late' \in BOOLEAN
    BY <1>7 DEF AdvanceClock, kitchen, TypeOK
  <2>3. KitchenInv' /\ WorkConserving'
    <3>1. now <= now'
      BY <2>1
    <3> QED BY <1>3, <2>1, <2>2, <3>1
  <2>4. TypeOK'
    BY <2>2, <2>3 DEF TypeOK, KitchenInv, KitchenTypes
  <2>5. NoOversleep'
    <3> SUFFICES ASSUME loop = "wait", ~wakeup, NEW s \in BusySlots(slots)
                 PROVE  deadline <= Later(now', slots[s].finish_at)
      BY <2>2 DEF NoOversleep, BusySlots, FreeSlots
    <3>1. deadline <= Later(now, slots[s].finish_at)
      BY DEF NoOversleep
    <3>2. slots[s].finish_at \in Int /\ deadline \in Nat
      BY DEF TypeOK, BusySlots, FreeSlots, Baking
    <3> QED BY <2>1, <3>1, <3>2 DEF Later
  <2> QED BY <2>3, <2>4, <2>5
<1>8. CASE UNCHANGED vars
  <2>1. KitchenInv' /\ WorkConserving'
    BY <1>3, <1>4, <1>8 DEF vars
  <2>2. TypeOK' /\ NoOversleep'
    BY <1>8 DEF vars, TypeOK, NoOversleep, BusySlots, FreeSlots
  <2> QED BY <2>1, <2>2
<1> QED BY <1>1, <1>2, <1>5, <1>6, <1>7, <1>8 DEF Next

\* The inductive invariant holds of every state of every behaviour.
THEOREM SpecIInv == Spec => []IInv
BY InitIInv, NextIInv, PTL DEF Spec

-----------------------------------------------------------------------------
(* The properties of the runs.                                             *)

\* The variables of the engine keep their types.
THEOREM TypeCorrect == Spec => []TypeOK
<1>1. IInv => TypeOK
  BY DEF IInv
<1> QED BY <1>1, SpecIInv, PTL

\* No unit is lost, double-booked or miscounted, however enqueues and the loop
\* interleave.
THEOREM UnitsAreConserved == Spec => []UnitsConserved
<1>1. IInv => UnitsConserved
  BY ConservedAsParts DEF IInv, KitchenInv
<1> QED BY <1>1, SpecIInv, PTL

\* No unit waits while a tray is free.
THEOREM NoTrayIdle == Spec => []WorkConserving
<1>1. IInv => WorkConserving
  BY DEF IInv
<1> QED BY <1>1, SpecIInv, PTL

\* The loop's sleep never outlasts a bake it has not been told about.
THEOREM LoopInTime == Spec => []NoOversleep
<1>1. IInv => NoOversleep
  BY DEF IInv
<1> QED BY <1>1, SpecIInv, PTL

\* The two kinds of step that tick, and what all the others leave alone.
LEMMA TickOrNot ==
    ASSUME IInv, [Next]_vars
    PROVE  \/ UNCHANGED <<slots, queue>>
           \/ \E q, rem :
                 /\ rem \in [Orders -> Nat]
                 /\ QueueType(q) /\ Distinct(slots, q) /\ Counted(slots, q, rem)
                 /\ TickAndAccount(q, rem)
<1>1. ASSUME NEW o \in Orders, NEW specs \in Specs, Enqueue(o, specs)
      PROVE  \E q, rem :
                 /\ rem \in [Orders -> Nat]
                 /\ QueueType(q) /\ Distinct(slots, q) /\ Counted(slots, q, rem)
                 /\ TickAndAccount(q, rem)
  <2> DEFINE q == queue \cup NewTasks(o, specs, seq)
             rem == [remaining EXCEPT ![o] = @ + Len(specs)]
  <2>1. /\ QueueType(q) /\ Distinct(slots, q) /\ rem \in [Orders -> Nat]
        /\ Counted(slots, q, rem)
    BY SpecsType, EnqueueStart DEF IInv
  <2>2. TickAndAccount(q, rem)
    BY <1>1 DEF Enqueue, EnqueueLocked
  <2> HIDE DEF q, rem
  <2> QED BY <2>1, <2>2
<1>2. CASE Reconcile
  <2>1. TickAndAccount(queue, remaining)
    BY <1>2 DEF Reconcile
  <2>2. /\ QueueType(queue) /\ Distinct(slots, queue)
        /\ remaining \in [Orders -> Nat] /\ Counted(slots, queue, remaining)
    BY DEF IInv, KitchenInv, KitchenTypes, QueueType
  <2> QED BY <2>1, <2>2
<1>3. CASE Sleep \/ Wake \/ AdvanceClock \/ UNCHANGED vars
  BY <1>3 DEF Sleep, Wake, AdvanceClock, kitchen, vars
<1> QED BY <1>1, <1>2, <1>3 DEF Next

\* A unit that is baking keeps its tray for its whole bake time.
THEOREM BakesAreFinished == Spec => NoPreemption
<1>1. IInv /\ [Next]_vars => [LetsFinish]_vars
  <2> SUFFICES ASSUME IInv, [Next]_vars PROVE LetsFinish
    OBVIOUS
  <2>1. CASE UNCHANGED <<slots, queue>>
    BY <2>1 DEF LetsFinish
  <2>2. ASSUME NEW q, NEW rem,
               rem \in [Orders -> Nat],
               QueueType(q), Distinct(slots, q), Counted(slots, q, rem),
               TickAndAccount(q, rem)
        PROVE  LetsFinish
    <3>1. KitchenTypes /\ FinishTimes
      BY DEF IInv, KitchenInv
    <3>2. \A s \in BusySlots(slots) : slots'[s] # slots[s] => slots[s].finish_at <= now
      BY <2>2, <3>1, TickStep
    <3> QED BY <3>1, <3>2 DEF LetsFinish, FinishTimes, BusySlots, FreeSlots
  <2> QED BY <2>1, <2>2, TickOrNot
<1> QED BY <1>1, SpecIInv, PTL DEF Spec, NoPreemption

\* A tray that frees goes to the unit that is first in line.
THEOREM FirstInLineIsLoaded == Spec => NoPriorityInversion
<1>1. IInv /\ [Next]_vars => [LoadsFirst]_vars
  <2> SUFFICES ASSUME IInv, [Next]_vars PROVE LoadsFirst
    OBVIOUS
  <2>1. CASE UNCHANGED <<slots, queue>>
    BY <2>1 DEF LoadsFirst
  <2>2. ASSUME NEW q, NEW rem,
               rem \in [Orders -> Nat],
               QueueType(q), Distinct(slots, q), Counted(slots, q, rem),
               TickAndAccount(q, rem)
        PROVE  LoadsFirst
    <3> SUFFICES ASSUME NEW s \in Slots, NEW u \in queue',
                        slots'[s] # NoTask, slots'[s] # slots[s]
                 PROVE  Precedes(slots'[s].task, u)
      BY DEF LoadsFirst, Precedes
    <3>1. KitchenTypes /\ FinishTimes
      BY DEF IInv, KitchenInv
    <3>2. s \in BusySlots(slots')
      BY DEF BusySlots, FreeSlots
    <3>3. /\ slots'[s].task \in q
          /\ u \in q
          /\ Rank(q, slots'[s].task) < Rank(q, u)
      BY <2>2, <3>1, <3>2, TickStep
    <3>4. \A t, v \in q : t.seq = v.seq => t = v
      BY <2>2 DEF Distinct
    <3> QED BY <2>2, <3>3, <3>4, LowerRankPrecedes
  <2> QED BY <2>1, <2>2, TickOrNot
<1> QED BY <1>1, SpecIInv, PTL DEF Spec, NoPriorityInversion

-----------------------------------------------------------------------------
(* The estimates.                                                          *)

\* The estimate an order was last given is not past the one it would be given
\* now, when something in the kitchen is its own.
EstimatesHold == \A o \in Orders : remaining[o] > 0 => eta[o] <= Project(slots, queue, now)[o]

\* While the loop has kept time no bake is overdue, and an estimate is the one
\* that would be given now.
OnTime ==
    ~late =>
        /\ \A s \in BusySlots(slots) : slots[s].finish_at >= now
        /\ \A o \in Orders : remaining[o] > 0 => eta[o] = Project(slots, queue, now)[o]

EstimatesInv == EstimatesHold /\ EtaNeverLate /\ OnTime /\ EtaExact

\* An order that has left the kitchen became ready no earlier than it was told,
\* and just then when nothing was overdue.
LEMMA TickMakesReady ==
    ASSUME NEW q, NEW rem \in [Orders -> Nat],
           IInv, EstimatesInv,
           QueueType(q), queue \subseteq q, Distinct(slots, q), Counted(slots, q, rem),
           TickAndAccount(q, rem), NEW o \in Orders,
           rem[o] = remaining[o], remaining'[o] = 0, readyAt'[o] # NoTime
    PROVE  readyAt'[o] >= eta[o] /\ (~late => readyAt'[o] = eta[o])
<1> DEFINE first == Project(slots, queue, now)[o]
           before == Project(slots, q, now)[o]
<1>1. now \in Int /\ eta[o] \in Int /\ TypeOK /\ KitchenInv
  BY DEF IInv, TypeOK, NoTime
<1>2. first \in Int /\ before \in Int /\ first <= before /\ before <= now
  BY <1>1, TickEstimates
<1>3. /\ rem[o] \in Nat
      /\ readyAt'[o] = IF o \in MadeReady(slots, rem, now) THEN now ELSE readyAt[o]
      /\ remaining'[o] = IF DoneUnits(slots, now, o) >= rem[o]
                         THEN 0 ELSE rem[o] - DoneUnits(slots, now, o)
  BY DEF TickAndAccount, Accounted
<1>4. DoneUnits(slots, now, o) \in 0..rem[o]
  <2>1. SlotsType(slots)
    BY <1>1 DEF TypeOK, SlotsType
  <2> QED BY <1>1, <2>1, ClearCounts
<1>5. CASE o \in MadeReady(slots, rem, now)
  <2>1. remaining[o] > 0 /\ readyAt'[o] = now
    BY <1>3, <1>5 DEF MadeReady
  <2>2. eta[o] <= first
    BY <2>1 DEF EstimatesInv, EstimatesHold
  <2>3. ASSUME ~late PROVE eta[o] = now
    <3>1. eta[o] = first /\ \A s \in BusySlots(slots) : slots[s].finish_at >= now
      BY <2>1, <2>3 DEF EstimatesInv, OnTime
    <3>2. first >= now
      <4>1. Kitchen(slots, queue) /\ Counted(slots, queue, remaining)
        BY KitchenHolds DEF IInv, KitchenInv, KitchenTypes, QueueType
      <4> QED BY <1>1, <2>1, <3>1, <4>1, NotOver
    <3> HIDE DEF first, before
    <3> QED BY <1>1, <1>2, <3>1, <3>2
  <2> HIDE DEF first, before
  <2> QED BY <1>1, <1>2, <2>1, <2>2, <2>3
<1>6. CASE o \notin MadeReady(slots, rem, now)
  <2>1. rem[o] = 0
    BY <1>3, <1>4, <1>6 DEF MadeReady
  <2>2. remaining[o] = 0 /\ readyAt'[o] = readyAt[o] /\ readyAt[o] # NoTime
    BY <1>3, <1>6, <2>1
  <2> QED BY <2>2 DEF EstimatesInv, EtaNeverLate, EtaExact
<1> QED BY <1>5, <1>6

\* The estimates hold of the empty kitchen.
THEOREM InitEstimates == Init => EstimatesInv
<1> SUFFICES ASSUME Init PROVE EstimatesInv
  OBVIOUS
<1>1. BusySlots(slots) = {}
  BY DEF Init, NewEngine, BusySlots, FreeSlots
<1>2. \A o \in Orders : ~(remaining[o] > 0) /\ readyAt[o] = NoTime
  BY DEF Init, NewEngine, NoTimes
<1> QED BY <1>1, <1>2 DEF EstimatesInv, EstimatesHold, EtaNeverLate, OnTime, EtaExact

\* Every step keeps the estimates.
THEOREM NextEstimates == IInv /\ EstimatesInv /\ [Next]_vars => EstimatesInv'
<1> SUFFICES ASSUME IInv, EstimatesInv, [Next]_vars PROVE EstimatesInv'
  OBVIOUS
<1>1. /\ TypeOK /\ KitchenInv /\ now \in Nat /\ late \in BOOLEAN
      /\ \A o \in Orders : eta[o] \in Int
      /\ QueueType(queue) /\ Distinct(slots, queue) /\ Counted(slots, queue, remaining)
      /\ remaining \in [Orders -> Nat]
  BY DEF IInv, KitchenInv, TypeOK, QueueType, NoTime
<1>2. Kitchen(slots, queue)
  BY KitchenHolds DEF IInv, KitchenInv, KitchenTypes, QueueType
<1>3. ASSUME NEW o \in Orders, NEW specs \in Specs, Enqueue(o, specs)
      PROVE  EstimatesInv'
  <2> DEFINE q == queue \cup NewTasks(o, specs, seq)
             rem == [remaining EXCEPT ![o] = @ + Len(specs)]
             after == Project(slots', queue', now)
  <2>1. /\ QueueType(q) /\ Distinct(slots, q) /\ rem \in [Orders -> Nat]
        /\ Counted(slots, q, rem) /\ queue \subseteq q
    BY <1>1, SpecsType, EnqueueStart
  <2>2. /\ EnqueueLocked(o, specs) /\ TickAndAccount(q, rem)
        /\ now' = now /\ late' = late
    BY <1>3 DEF Enqueue, EnqueueLocked
  <2>3. \A x \in Orders : x # o => rem[x] = remaining[x]
    BY <1>1
  <2>4. /\ remaining'[o] > 0
        /\ \A s \in BusySlots(slots') : slots'[s].finish_at >= now
        /\ \A x \in Orders :
              /\ remaining'[x] > 0 => after[x] = eta'[x] /\ after[x] \in Nat
              /\ remaining'[x] = 0 => eta'[x] = eta[x]
    BY <1>1, <2>2, SpecsType, EnqueueStep
  <2>5. \A x \in Orders : remaining'[x] = 0 /\ readyAt'[x] # NoTime =>
           readyAt'[x] >= eta'[x] /\ (~late => readyAt'[x] = eta'[x])
    <3> SUFFICES ASSUME NEW x \in Orders, remaining'[x] = 0, readyAt'[x] # NoTime
                 PROVE  readyAt'[x] >= eta'[x] /\ (~late => readyAt'[x] = eta'[x])
      OBVIOUS
    <3>1. rem[x] = remaining[x]
      BY <2>3, <2>4
    <3> HIDE DEF q, rem
    <3>2. readyAt'[x] >= eta[x] /\ (~late => readyAt'[x] = eta[x])
      BY <2>1, <2>2, <3>1, TickMakesReady
    <3> QED BY <2>4, <3>2
  <2>6. after = Project(slots', queue', now')
    BY <2>2
  <2> HIDE DEF q, rem, after
  <2>7. EstimatesHold'
    BY <2>4, <2>6 DEF EstimatesHold
  <2>8. OnTime'
    BY <2>2, <2>4, <2>6 DEF OnTime, BusySlots, FreeSlots
  <2>9. EtaNeverLate' /\ EtaExact'
    BY <2>2, <2>5 DEF EtaNeverLate, EtaExact
  <2> QED BY <2>7, <2>8, <2>9 DEF EstimatesInv
<1>4. CASE Reconcile
  <2> DEFINE before == Project(slots, queue, now)
             after == Project(slots', queue', now)
  <2>1. /\ TickAndAccount(queue, remaining)
        /\ UNCHANGED <<now, seq, eta>> /\ now' = now /\ late' = late /\ eta' = eta
    BY <1>4 DEF Reconcile
  <2>2. /\ \A x \in Orders : remaining'[x] > 0 => remaining[x] > 0 /\ after[x] = before[x]
        /\ \A s \in BusySlots(slots') : slots'[s].finish_at >= now
    BY <1>1, <2>1, ReconcileStep
  <2>3. \A x \in Orders : remaining'[x] = 0 /\ readyAt'[x] # NoTime =>
           readyAt'[x] >= eta[x] /\ (~late => readyAt'[x] = eta[x])
    BY <1>1, <2>1, TickMakesReady
  <2>4. after = Project(slots', queue', now')
    BY <2>1
  <2>5. EstimatesHold'
    <3>1. \A x \in Orders : remaining[x] > 0 => eta[x] <= before[x]
      BY DEF EstimatesInv, EstimatesHold
    <3> HIDE DEF before, after
    <3> QED BY <2>1, <2>2, <2>4, <3>1 DEF EstimatesHold
  <2>6. OnTime'
    <3>1. ~late => \A x \in Orders : remaining[x] > 0 => eta[x] = before[x]
      BY DEF EstimatesInv, OnTime
    <3> HIDE DEF before, after
    <3> QED BY <2>1, <2>2, <2>4, <3>1 DEF OnTime, BusySlots, FreeSlots
  <2>7. EtaNeverLate' /\ EtaExact'
    BY <2>1, <2>3 DEF EtaNeverLate, EtaExact
  <2> QED BY <2>5, <2>6, <2>7 DEF EstimatesInv
<1>5. CASE AdvanceClock
  <2>1. now' \in Nat /\ now < now' /\ now <= now' /\ now \in Int /\ now' \in Int
    BY <1>1, <1>5, EngineAssumption DEF AdvanceClock
  <2>2. /\ UNCHANGED <<slots, queue, seq, remaining, readyAt, eta>>
        /\ slots' = slots /\ queue' = queue /\ remaining' = remaining
        /\ readyAt' = readyAt /\ eta' = eta
        /\ late' = (late \/ ~(loop = "wait" /\ ~wakeup /\ now' <= deadline))
    BY <1>5 DEF AdvanceClock, kitchen
  <2>3. EstimatesHold'
    <3> DEFINE a == Project(slots, queue, now)
               b == Project(slots, queue, now')
    <3>1. \A x \in Orders : remaining[x] > 0 => eta[x] <= a[x]
      BY DEF EstimatesInv, EstimatesHold
    <3>2. \A x \in Orders : a[x] \in Int /\ b[x] \in Int /\ a[x] <= b[x]
      BY <1>1, <2>1, <2>2, ClockStep
    <3>3. b = Project(slots', queue', now')
      BY <2>2
    <3> HIDE DEF a, b
    <3>4. \A x \in Orders : remaining[x] > 0 => eta[x] <= b[x]
      BY <1>1, <3>1, <3>2
    <3> QED BY <2>2, <3>3, <3>4 DEF EstimatesHold
  \* A loop that sleeps, and was not told otherwise, sleeps no longer than to the
  \* end of the first bake.
  <2>4. OnTime'
    <3>1. CASE late'
      BY <3>1 DEF OnTime
    <3>2. CASE ~late'
      <4>1. ~late /\ loop = "wait" /\ ~wakeup /\ now' <= deadline
        BY <1>1, <2>2, <3>2
      <4>2. ASSUME NEW s \in BusySlots(slots) PROVE slots[s].finish_at >= now'
        <5>1. deadline <= Later(now, slots[s].finish_at)
          BY <4>1 DEF IInv, NoOversleep
        <5>2. slots[s].finish_at \in Int /\ deadline \in Int
          BY <1>1 DEF TypeOK, BusySlots, FreeSlots, Baking
        <5> QED BY <1>1, <2>1, <4>1, <5>1, <5>2 DEF Later
      <4>3. ASSUME NEW x \in Orders, remaining[x] > 0
            PROVE  eta[x] = Project(slots, queue, now')[x]
        <5>1. eta[x] = Project(slots, queue, now)[x]
          BY <4>1, <4>3 DEF EstimatesInv, OnTime
        <5>2. now \in Int /\ now' \in Int /\ now <= now'
          BY <1>1, <2>1
        <5>3. queue # {} => FreeSlots(slots) = {}
          BY DEF IInv, WorkConserving
        <5>4. Project(slots, queue, now')[x] = Project(slots, queue, now)[x]
          BY <1>2, <4>2, <5>2, <5>3, ProjectStays
        <5> QED BY <5>1, <5>4
      <4> QED BY <2>2, <4>2, <4>3 DEF OnTime, BusySlots, FreeSlots
    <3> QED BY <3>1, <3>2
  <2>5. EtaNeverLate'
    BY <2>2 DEF EstimatesInv, EtaNeverLate
  <2>6. EtaExact'
    BY <1>1, <2>2 DEF EstimatesInv, EtaExact
  <2> QED BY <2>3, <2>4, <2>5, <2>6 DEF EstimatesInv
<1>6. CASE UNCHANGED <<now, slots, queue, remaining, readyAt, eta, late>>
  BY <1>6 DEF EstimatesInv, EstimatesHold, EtaNeverLate, OnTime, EtaExact, BusySlots, FreeSlots
<1>7. CASE Sleep \/ Wake \/ UNCHANGED vars
  BY <1>6, <1>7 DEF Sleep, Wake, vars, kitchen
<1> QED BY <1>3, <1>4, <1>5, <1>7 DEF Next

\* What the estimates promise holds of every state of every behaviour.
THEOREM SpecEstimates == Spec => []EstimatesInv
BY InitEstimates, NextEstimates, SpecIInv, PTL DEF Spec

\* No order is ready before the time it was last promised, in any run.
THEOREM ReadyNotEarly == Spec => []EtaNeverLate
<1>1. EstimatesInv => EtaNeverLate
  BY DEF EstimatesInv
<1> QED BY <1>1, SpecEstimates, PTL

\* An order is ready when it was last promised, while the loop keeps time.
THEOREM ReadyOnTime == Spec => []EtaExact
<1>1. EstimatesInv => EtaExact
  BY DEF EstimatesInv
<1> QED BY <1>1, SpecEstimates, PTL

\* The estimates that an order in the kitchen is given only move back.
THEOREM PromisesMoveBack == Spec => EtaOnlyMovesBack
<1>1. IInv /\ EstimatesInv /\ [Next]_vars => [MovesBack]_vars
  <2> SUFFICES ASSUME IInv, EstimatesInv, [Next]_vars, NEW x \in Orders, remaining[x] > 0
               PROVE  eta'[x] >= eta[x]
    BY DEF MovesBack
  <2>1. now \in Nat /\ eta[x] \in Int /\ remaining \in [Orders -> Nat]
    BY DEF IInv, TypeOK, NoTime
  <2>2. ASSUME NEW o \in Orders, NEW specs \in Specs, Enqueue(o, specs)
        PROVE  eta'[x] >= eta[x]
    <3>1. EnqueueLocked(o, specs) /\ now' = now
      BY <2>2 DEF Enqueue
    <3>2. /\ LastDue(x) \in Int /\ LastDue(x) <= LastDue(x)'
          /\ remaining'[x] > 0 => eta'[x] = LastDue(x)'
          /\ remaining'[x] = 0 => eta'[x] = eta[x]
          /\ LastDue(x)' \in Int /\ remaining'[x] \in Nat
      <4>1. KitchenInv'
        BY <3>1, SpecsType, EnqueueStep DEF IInv
      <4>2. remaining'[x] \in Nat
        BY <4>1 DEF KitchenInv, KitchenTypes
      <4> QED BY <3>1, <4>2, SpecsType, EnqueueStep DEF IInv
    <3>3. eta[x] <= LastDue(x)
      BY DEF EstimatesInv, EstimatesHold, LastDue
    <3> QED BY <2>1, <3>2, <3>3
  <2>3. CASE Reconcile \/ Sleep \/ Wake \/ AdvanceClock \/ UNCHANGED vars
    <3>1. eta' = eta
      BY <2>3 DEF Reconcile, Sleep, Wake, AdvanceClock, vars
    <3> QED BY <2>1, <3>1
  <2> QED BY <2>2, <2>3 DEF Next
<1> QED BY <1>1, SpecIInv, SpecEstimates, PTL DEF Spec, EtaOnlyMovesBack

\* An enqueue leaves the estimates of the orders that none of its units overtakes.
THEOREM OnlyThoseBehindWait == Spec => OthersKeepTheirPlace
<1>1. IInv /\ EstimatesInv /\ [Next]_vars => [DelaysOnlyBehind]_vars
  <2> SUFFICES ASSUME IInv, EstimatesInv, [Next]_vars, seq' > seq,
                      NEW x \in Orders, remaining[x] > 0, remaining'[x] > 0,
                      \A t \in OnTray' \cup queue' :
                         t.seq >= seq =>
                            /\ t.order # x
                            /\ \A u \in queue : u.order = x => u.priority <= t.priority
               PROVE  eta'[x] = Project(slots, queue, now)[x] /\ (~late => eta'[x] = eta[x])
    BY DEF DelaysOnlyBehind
  <2>1. /\ now \in Int /\ now >= NoTime /\ seq \in Nat
        /\ KitchenInv /\ KitchenTypes /\ FinishTimes /\ SeqsUsed /\ QueueType(queue)
    BY DEF IInv, KitchenInv, KitchenTypes, NoTime, QueueType
  <2>2. ASSUME NEW o \in Orders, NEW specs \in Specs, Enqueue(o, specs)
        PROVE  eta'[x] = Project(slots, queue, now)[x]
    <3> DEFINE N == NewTasks(o, specs, seq)
               q == queue \cup N
               rem == [remaining EXCEPT ![o] = @ + Len(specs)]
    <3>1. /\ specs \in Seq(PriorityLevel \X (Nat \ {0})) /\ specs # << >>
          /\ EnqueueLocked(o, specs) /\ now' = now
      BY <2>2, SpecsType DEF Enqueue
    <3>2. /\ QueueType(q) /\ Distinct(slots, q)
          /\ rem \in [Orders -> Nat] /\ Counted(slots, q, rem)
      BY <2>1, <3>1, EnqueueStart
    <3>3. TickAndAccount(q, rem)
      BY <3>1 DEF EnqueueLocked
    <3>4. queue \subseteq q
      OBVIOUS
    <3>5. \A t \in N : t.seq >= seq
      BY <2>1, <3>1, NewTasksAreNew
    <3>6. \A t \in q \ queue : t \in N
      OBVIOUS
    <3> HIDE DEF q, N, rem
    <3>7. Kitchen(slots, q)
      BY <2>1, <3>2, KitchenHolds
    <3>8. q \subseteq OnTray' \cup queue'
      <4>1. TasksOn(TickSlots(slots, q, now)) \cup TickQueue(slots, q, now)
               = TasksOn(Cleared(slots, now)) \cup q
        BY <2>1, <3>7, TickKitchen
      <4>2. slots' = TickSlots(slots, q, now) /\ queue' = TickQueue(slots, q, now)
        BY <3>3 DEF TickAndAccount
      <4>3. OnTray' = TasksOn(slots')
        BY DEF OnTray, TasksOn, BusySlots, FreeSlots
      <4> QED BY <4>1, <4>2, <4>3
    <3>9. ASSUME NEW t \in q \ queue
          PROVE  t.order # x /\ \A u \in queue : u.order = x => Precedes(u, t)
      <4>1. /\ t.seq >= seq /\ t.order # x
            /\ \A u \in queue : u.order = x => u.priority <= t.priority
        BY <3>5, <3>6, <3>8
      <4>2. ASSUME NEW u \in queue, u.order = x PROVE Precedes(u, t)
        <5>1. u.seq < seq /\ u.priority <= t.priority
          BY <2>1, <4>1, <4>2 DEF SeqsUsed
        <5>2. /\ u.seq \in Int /\ t.seq \in Int
              /\ u.priority \in Int /\ t.priority \in Int
          BY <2>1, <3>2 DEF QueueType, BakeTask, PriorityLevel, VIP, APP, WALK_IN
        <5> QED BY <2>1, <4>1, <5>1, <5>2 DEF Precedes
      <4> QED BY <4>1, <4>2
    <3>10. Project(slots, q, now)[x] = Project(slots, queue, now)[x]
      BY <2>1, <3>4, <3>7, <3>9, ProjectBehind
    <3>11. Project(slots', queue', now)[x] = Project(slots, q, now)[x]
      BY <2>1, <3>2, <3>3, <3>4, TickEstimates
    <3>12. eta'[x] = Project(slots', queue', now)[x]
      BY <2>1, <3>1, EnqueueStep
    <3> QED BY <3>10, <3>11, <3>12
  <2>3. ~late => eta[x] = Project(slots, queue, now)[x]
    BY DEF EstimatesInv, OnTime
  <2>4. CASE Reconcile \/ Sleep \/ Wake \/ AdvanceClock \/ UNCHANGED vars
    <3>1. seq' = seq
      BY <2>4 DEF Reconcile, Sleep, Wake, AdvanceClock, vars
    <3> QED BY <2>1, <3>1
  <2> QED BY <2>2, <2>3, <2>4 DEF Next
<1> QED BY <1>1, SpecIInv, SpecEstimates, PTL DEF Spec, OthersKeepTheirPlace

\* A placed order is shown the time it will be promised if it is paid at once.
THEOREM PreviewIsPromise == Spec => []ProvisionalIsAuthoritative
<1>1. IInv => ProvisionalIsAuthoritative
  <2> SUFFICES ASSUME IInv, NEW o \in Orders, NEW specs \in Specs
               PROVE  Simulated(o, specs) = Authoritative(o, specs)
    BY DEF ProvisionalIsAuthoritative
  <2> DEFINE N == NewTasks(o, specs, seq)
             q == queue \cup N
  <2>1. now \in Int /\ now >= NoTime /\ KitchenTypes /\ FinishTimes /\ seq \in Nat
    BY DEF IInv, KitchenInv, KitchenTypes, NoTime
  <2>2. Kitchen(slots, q)
    <3>1. QueueType(q) /\ Distinct(slots, q)
      BY SpecsType, EnqueueStart DEF IInv
    <3> HIDE DEF q
    <3> QED BY <2>1, <3>1, KitchenHolds
  <2>3. PICK t \in N : t.order = o
    <3> DEFINE unit == [order |-> o, priority |-> specs[1][1], bake_seconds |-> specs[1][2],
                        seq |-> seq + 1 - 1]
    <3>1. specs \in Seq(PriorityLevel \X (Nat \ {0})) /\ specs # << >>
      BY EngineAssumption
    <3>2. 1 \in 1..Len(specs)
      BY <3>1
    <3>3. unit \in N
      BY <3>2 DEF NewTasks
    <3>4. unit.order = o
      OBVIOUS
    <3> HIDE DEF unit, N
    <3> QED BY <3>3, <3>4
  <2>4. t \in TasksOn(TickSlots(slots, q, now)) \cup TickQueue(slots, q, now)
    <3>1. t \in q
      BY <2>3
    <3> HIDE DEF q
    <3>2. TasksOn(TickSlots(slots, q, now)) \cup TickQueue(slots, q, now)
             = TasksOn(Cleared(slots, now)) \cup q
      BY <2>1, <2>2, TickKitchen
    <3> QED BY <3>1, <3>2
  <2>5. Project(slots, q, now)[o]
           = Project(TickSlots(slots, q, now), TickQueue(slots, q, now), now)[o]
    <3> HIDE DEF q
    <3> QED BY <2>1, <2>2, <2>3, <2>4, ProjectTicked
  <2> QED BY <2>5 DEF Simulated, Authoritative
<1> QED BY <1>1, SpecIInv, PTL

-----------------------------------------------------------------------------
(* The status.                                                             *)

\* The place of a tray in the list of slots.
Place(p) == (p[1] - 1) * TRAYS_PER_OVEN + p[2]
TrayGrid == (1..OVENS) \X (1..TRAYS_PER_OVEN)

\* The trays of the ovens that are shown are the slots of the list, each once.
LEMMA GridPlaces ==
    /\ \A p \in TrayGrid : Place(p) \in Slots
    /\ \A p, r \in TrayGrid : Place(p) = Place(r) => p = r
    /\ \A s \in Slots : \E p \in TrayGrid : Place(p) = s
<1> DEFINE T == TRAYS_PER_OVEN
           V == OVENS
<1>1. T \in Nat /\ V \in Nat
  BY KitchenAssumption
<1>2. Slots = 1..(V * T)
  BY DEF Slots
<1>3. ASSUME NEW v \in 1..V, NEW t \in 1..T
      PROVE  Place(<<v, t>>) = (v - 1) * T + t /\ <<v, t>> \in TrayGrid
  BY DEF Place, TrayGrid
<1>4. \A p \in TrayGrid : p[1] \in 1..V /\ p[2] \in 1..T /\ p = <<p[1], p[2]>>
  BY DEF TrayGrid
<1> HIDE DEF T, V
<1>5. \A a, b \in Nat : a <= b => a * T <= b * T /\ a * T \in Nat /\ b * T \in Nat
  <2> TAKE a, b \in Nat
  <2> HAVE a <= b
  <2>1. \A x, y \in Nat : x * y \in Nat /\ (a + x) * y = a * y + x * y
    OBVIOUS
  <2>2. b - a \in Nat /\ a + (b - a) = b
    OBVIOUS
  <2>3. (a + (b - a)) * T = a * T + (b - a) * T /\ (b - a) * T \in Nat
    BY <1>1, <2>1, <2>2
  <2>4. a * T \in Nat /\ b * T \in Nat
    BY <1>1, <2>1
  <2> QED BY <2>2, <2>3, <2>4
<1>6. \A a \in Nat : (a + 1) * T = a * T + T
  BY <1>1
<1>7. ASSUME NEW v \in 1..V, NEW t \in 1..T
      PROVE  /\ (v - 1) * T \in Nat
             /\ (v - 1) * T + t \in 1..(V * T)
             /\ (v - 1) * T + t <= v * T
  <2>1. v - 1 \in Nat /\ v \in Nat /\ (v - 1) + 1 = v /\ v <= V
    BY <1>1
  <2>2. v * T = (v - 1) * T + T
    BY <1>6, <2>1
  <2>3. v * T <= V * T /\ V * T \in Nat /\ (v - 1) * T \in Nat
    <3>1. v - 1 <= v
      BY <2>1
    <3> QED BY <1>1, <1>5, <2>1, <3>1
  <2> QED BY <1>1, <2>2, <2>3
<1>8. ASSUME NEW v \in 1..V, NEW t \in 1..T, NEW w \in 1..V, NEW u \in 1..T, v < w
      PROVE  (v - 1) * T + t # (w - 1) * T + u
  <2>1. v \in Nat /\ w - 1 \in Nat /\ v <= w - 1
    BY <1>1, <1>8
  <2>2. v * T <= (w - 1) * T /\ v * T \in Nat /\ (w - 1) * T \in Nat
    BY <1>5, <2>1
  <2>3. (v - 1) * T + t <= v * T /\ (v - 1) * T \in Nat
    BY <1>7
  <2> QED BY <1>1, <2>2, <2>3
<1>9. \A p \in TrayGrid : Place(p) \in Slots
  BY <1>2, <1>3, <1>4, <1>7
<1>10. \A p, r \in TrayGrid : Place(p) = Place(r) => p = r
  <2> SUFFICES ASSUME NEW p \in TrayGrid, NEW r \in TrayGrid, Place(p) = Place(r)
               PROVE  p = r
    OBVIOUS
  <2> DEFINE v == p[1]  t == p[2]  w == r[1]  u == r[2]
  <2>1. v \in 1..V /\ t \in 1..T /\ w \in 1..V /\ u \in 1..T /\ p = <<v, t>> /\ r = <<w, u>>
    BY <1>4
  <2> HIDE DEF v, t, w, u
  <2>2. (v - 1) * T + t = (w - 1) * T + u
    BY <1>3, <2>1
  <2>3. ~(v < w) /\ ~(w < v)
    BY <1>8, <2>1, <2>2
  <2>4. v = w
    BY <1>1, <2>1, <2>3
  <2>5. (v - 1) * T \in Nat
    BY <1>7, <2>1
  <2>6. t = u
    BY <1>1, <2>1, <2>2, <2>4, <2>5
  <2> QED BY <2>1, <2>4, <2>6
\* The places of the first k ovens are the first ones.
<1>11. \A s \in Slots : \E p \in TrayGrid : Place(p) = s
  <2> DEFINE Covered(k) == \A s \in 1..(k * T) : \E p \in TrayGrid : Place(p) = s
             S == {k \in 0..V : Covered(k)}
  <2>1. 0 \in S
    <3>1. 0 * T = 0 /\ 0 \in 0..V
      BY <1>1
    <3> QED BY <3>1
  <2>2. ASSUME NEW k \in 0..(V - 1), k \in S PROVE k + 1 \in S
    <3>1. k \in Nat /\ k + 1 \in 1..V /\ k + 1 \in 0..V /\ (k + 1) - 1 = k
      BY <1>1
    <3>2. (k + 1) * T = k * T + T /\ k * T \in Nat
      <4>1. k <= k
        BY <3>1
      <4> QED BY <1>5, <1>6, <3>1, <4>1
    <3>3. ASSUME NEW s \in 1..((k + 1) * T) PROVE \E p \in TrayGrid : Place(p) = s
      <4>1. CASE s <= k * T
        <5>1. s \in 1..(k * T)
          BY <1>1, <3>2, <4>1
        <5>2. Covered(k)
          BY <2>2
        <5> QED BY <5>1, <5>2
      <4>2. CASE ~(s <= k * T)
        <5>1. s - k * T \in 1..T /\ k * T + (s - k * T) = s
          BY <1>1, <3>2, <4>2
        <5>2. /\ Place(<<k + 1, s - k * T>>) = ((k + 1) - 1) * T + (s - k * T)
              /\ <<k + 1, s - k * T>> \in TrayGrid
          BY <1>3, <3>1, <5>1
        <5> QED BY <3>1, <5>1, <5>2
      <4> QED BY <4>1, <4>2
    <3> QED BY <3>1, <3>3
  <2> HIDE DEF S
  <2>3. V \in S
    <3>1. \A k \in 0..V : k \in S
      BY <1>1, <2>1, <2>2, IntervalInduction
    <3> QED BY <1>1, <3>1
  <2> QED BY <1>2, <2>3 DEF S
<1> QED BY <1>9, <1>10, <1>11

\* A tray that a tick at this instant clears or finds idle is shown as empty or
\* with no seconds left, and one that is shown as empty is idle.
LEMMA OpenTrays ==
    ASSUME TypeOK, NEW p \in TrayGrid
    PROVE  /\ Snapshot.ovens[p[1]][p[2]] = TrayStatus(Place(p))
           /\ Place(p) \in FreeSlots(Cleared(slots, now)) =>
                 Snapshot.ovens[p[1]][p[2]].remaining_seconds <= 0
           /\ Snapshot.ovens[p[1]][p[2]].remaining_seconds = NoTime =>
                 Place(p) \in FreeSlots(Cleared(slots, now))
<1> DEFINE s == Place(p)
<1>1. s \in Slots /\ p[1] \in 1..OVENS /\ p[2] \in 1..TRAYS_PER_OVEN
  BY GridPlaces DEF TrayGrid
<1>2. Snapshot.ovens[p[1]][p[2]] = TrayStatus(s)
  BY <1>1 DEF Snapshot, Place
<1> HIDE DEF s
<1>3. s \in FreeSlots(Cleared(slots, now)) <=> slots[s] = NoTask \/ s \in Finished(slots, now)
  BY <1>1 DEF FreeSlots, Cleared
<1>4. CASE slots[s] = NoTask
  <2>1. TrayStatus(s).remaining_seconds = NoTime
    BY <1>4 DEF TrayStatus
  <2> QED BY <1>2, <1>3, <1>4, <2>1 DEF NoTime, s
<1>5. CASE slots[s] # NoTask
  <2>1. TrayStatus(s).remaining_seconds = Later(0, slots[s].finish_at - now) \div SECOND
    BY <1>5 DEF TrayStatus
  <2>2. slots[s].finish_at \in Int /\ now \in Int
    BY <1>1, <1>5 DEF TypeOK, Baking
  <2>3. slots[s].finish_at <= now => TrayStatus(s).remaining_seconds <= 0
    <3>1. \A d \in Nat \ {0} : 0 \div d = 0
      OBVIOUS
    <3>2. slots[s].finish_at <= now => Later(0, slots[s].finish_at - now) = 0
      BY <2>2 DEF Later
    <3> QED BY <2>1, <3>1, <3>2, EngineAssumption
  <2>4. s \in Finished(slots, now) <=> slots[s].finish_at <= now
    BY <1>1, <1>5 DEF Finished, BusySlots, FreeSlots
  <2>5. TrayStatus(s).remaining_seconds # NoTime
    <3>1. \A n \in Nat, d \in Nat \ {0} : n \div d \in Nat
      OBVIOUS
    <3>2. Later(0, slots[s].finish_at - now) \in Nat
      BY <2>2 DEF Later
    <3> QED BY <2>1, <3>1, <3>2, EngineAssumption DEF NoTime
  <2> QED BY <1>2, <1>3, <1>5, <2>3, <2>4, <2>5 DEF s
<1> QED BY <1>4, <1>5

\* The loop's tick does what the status showed.
LEMMA ReconcileForetold ==
    ASSUME IInv, Reconcile
    PROVE  Foretold
<1> DEFINE sl1 == Cleared(slots, now)
           F == FreeSlots(sl1)
           f == Cardinality(F)
           c == Cardinality(queue)
           c2 == Cardinality(queue')
           line == Snapshot.queue
           shown(p) == Snapshot.ovens[p[1]][p[2]]
           Opened == {p \in TrayGrid : Place(p) \in F}
           open == Cardinality(Opened)
<1>1. /\ TypeOK /\ TypeOK' /\ now \in Int
      /\ QueueType(queue) /\ Distinct(slots, queue)
      /\ \A t, u \in queue : t.seq = u.seq => t = u
  <2>1. TypeOK'
    <3>1. [Next]_vars
      BY DEF Next
    <3> QED BY <3>1, NextIInv DEF IInv
  <2> QED BY <2>1 DEF IInv, KitchenInv, TypeOK, QueueType, Distinct
<1>2. slots' = FilledSlots(sl1, queue, now) /\ queue' = LeftInQueue(sl1, queue)
  BY DEF Reconcile, TickAndAccount, TickSlots, TickQueue
<1> HIDE DEF sl1
\* As many trays are free as the fill finds idle.
<1>3. open = f /\ f \in Nat
  <2> DEFINE g == [p \in Opened |-> Place(p)]
  <2>1. \A p \in TrayGrid : p \in Opened <=> Place(p) \in F
    OBVIOUS
  <2>2. Opened \subseteq TrayGrid
    OBVIOUS
  <2>3. F \subseteq Slots
    BY DEF FreeSlots
  <2>4. IsFiniteSet(F) /\ f \in Nat
    BY TurnNumbers
  <2> HIDE DEF Opened, F
  <2>5. g \in Bijection(Opened, F)
    <3>1. \A p \in Opened : g[p] \in F
      BY <2>1, <2>2
    <3>2. \A p, r \in Opened : g[p] = g[r] => p = r
      BY <2>2, GridPlaces
    <3>3. \A s \in F : \E p \in Opened : g[p] = s
      <4> TAKE s \in F
      <4>1. PICK p \in TrayGrid : Place(p) = s
        BY <2>3, GridPlaces
      <4>2. p \in Opened
        BY <2>1, <4>1
      <4> QED BY <4>1, <4>2
    <3> QED BY <3>1, <3>2, <3>3 DEF Bijection, Injection, Surjection, IsInjective
  <2>6. ExistsBijection(F, Opened)
    BY <2>5, Fun_ExistsBijSymmetric DEF ExistsBijection
  <2> QED BY <2>4, <2>6, FS_Bijection
<1>4. /\ c \in Nat
      /\ \A k \in 0..(c - 1) : Ranked(queue, k) \in queue
  BY <1>1, RankNumbers
<1>5. /\ c2 \in Nat
      /\ c2 = IF f <= c THEN c - f ELSE 0
      /\ \A k \in 0..(c2 - 1) : Ranked(queue', k) = Ranked(queue, f + k)
  BY <1>1, <1>2, LeftRanks
<1>6. line = [p \in 1..c |-> Ranked(queue, p - 1).order]
  BY DEF Snapshot, QueueStatus
<1>7. Snapshot'.queue = [p \in 1..c2 |-> Ranked(queue', p - 1).order]
  BY DEF Snapshot, QueueStatus
<1> HIDE DEF line
<1>8. /\ Len(line) = c
      /\ line \in Seq(Orders)
      /\ \A p \in 1..c : line[p] = Ranked(queue, p - 1).order
  <2>1. \A p \in 1..c : Ranked(queue, p - 1).order \in Orders
    <3> TAKE p \in 1..c
    <3>1. p - 1 \in 0..(c - 1)
      BY <1>4
    <3>2. Ranked(queue, p - 1) \in BakeTask
      BY <1>1, <1>4, <3>1 DEF QueueType
    <3> QED BY <3>2 DEF BakeTask
  <2> HIDE DEF c
  <2> QED BY <1>4, <1>6, <2>1
<1> HIDE DEF c, c2, f, F, Opened, shown
<1>9. Snapshot'.queue = SubSeq(line, open + 1, Len(line))
  <2>1. SubSeq(line, f + 1, c) = [i \in 1..(1 + c - (f + 1)) |-> line[i + (f + 1) - 1]]
    BY <1>3, <1>4, <1>8
  <2>2. 1..(1 + c - (f + 1)) = 1..c2
    BY <1>3, <1>4, <1>5
  <2>3. \A i \in 1..c2 : line[i + (f + 1) - 1] = Ranked(queue', i - 1).order
    <3> TAKE i \in 1..c2
    <3>1. /\ i + (f + 1) - 1 \in 1..c /\ i - 1 \in 0..(c2 - 1)
          /\ (i + (f + 1) - 1) - 1 = f + (i - 1)
      BY <1>3, <1>4, <1>5
    <3>2. line[i + (f + 1) - 1] = Ranked(queue, (i + (f + 1) - 1) - 1).order
      BY <1>8, <3>1
    <3> QED BY <1>5, <3>1, <3>2
  <2>4. SubSeq(line, f + 1, c) = [i \in 1..c2 |-> Ranked(queue', i - 1).order]
    BY <2>1, <2>2, <2>3
  <2>5. SubSeq(line, open + 1, Len(line)) = SubSeq(line, f + 1, c)
    <3> HIDE DEF open
    <3> QED BY <1>3, <1>8
  <2> QED BY <1>7, <2>4, <2>5
<1>10. ASSUME NEW k \in 1..Len(line), k <= open
       PROVE  \E p \in Opened : Snapshot'.ovens[p[1]][p[2]].order_id = line[k]
  <2>1. k - 1 \in 0..(f - 1) /\ k - 1 < c /\ k \in 1..c
    BY <1>3, <1>4, <1>8, <1>10
  <2>2. PICK s \in F : Turn(sl1, s) = k - 1
    BY <2>1, TurnNumbers DEF F, f
  <2>3. s \in Slots /\ s \in FreeSlots(sl1)
    BY <2>2 DEF F, FreeSlots
  <2> DEFINE t == Ranked(queue, k - 1)
  <2>4. slots'[s] = StartBaking(t, now)
    BY <1>2, <2>1, <2>2, <2>3 DEF FilledSlots, c
  <2>5. t.order = line[k]
    BY <1>8, <2>1
  <2>6. t \in BakeTask
    <3>1. k - 1 \in 0..(c - 1)
      BY <1>4, <2>1
    <3> QED BY <1>1, <1>4, <3>1 DEF QueueType
  <2> HIDE DEF t
  <2>7. StartBaking(t, now) # NoTask /\ StartBaking(t, now).task = t
    <3>1. StartBaking(t, now) \in Baking
      BY <1>1, <2>6 DEF StartBaking, Baking, BakeTask
    <3> QED BY <3>1, KitchenAssumption DEF StartBaking
  <2>8. PICK p \in TrayGrid : Place(p) = s
    BY <2>3, GridPlaces
  <2>9. Snapshot'.ovens[p[1]][p[2]] = TrayStatus(s)'
    <3>1. p[1] \in 1..OVENS /\ p[2] \in 1..TRAYS_PER_OVEN
      BY DEF TrayGrid
    <3> QED BY <2>8, <3>1 DEF Snapshot, Place, TrayStatus
  <2>10. TrayStatus(s)'.order_id = t.order
    BY <2>4, <2>7 DEF TrayStatus
  <2>11. p \in Opened
    BY <2>2, <2>8 DEF Opened
  <2> QED BY <2>5, <2>9, <2>10, <2>11
\* The free trays are among those shown as empty or with no seconds left.
<1>11. /\ Opened \subseteq {p \in TrayGrid : shown(p).remaining_seconds <= 0}
       /\ {p \in TrayGrid : shown(p).remaining_seconds = NoTime} \subseteq Opened
  BY <1>1, OpenTrays DEF sl1, F, Opened, shown
\* The other trays are left alone.
<1>12. ASSUME NEW p \in TrayGrid \ Opened
       PROVE  Snapshot'.ovens[p[1]][p[2]].order_id = shown(p).order_id
  <2> DEFINE s == Place(p)
  <2>1. s \in Slots /\ p[1] \in 1..OVENS /\ p[2] \in 1..TRAYS_PER_OVEN
    BY GridPlaces DEF TrayGrid
  <2>2. s \notin FreeSlots(sl1)
    BY <1>12 DEF Opened, F
  <2>3. Snapshot'.ovens[p[1]][p[2]] = TrayStatus(s)' /\ shown(p) = TrayStatus(s)
    BY <2>1 DEF Snapshot, Place, TrayStatus, shown
  <2> HIDE DEF s
  <2>4. slots'[s] = slots[s]
    <3>1. slots'[s] = sl1[s]
      BY <1>2, <2>1, <2>2 DEF FilledSlots
    <3>2. sl1[s] # NoTask
      BY <2>1, <2>2 DEF FreeSlots
    <3> QED BY <2>1, <3>1, <3>2 DEF sl1, Cleared
  <2> QED BY <2>3, <2>4 DEF TrayStatus
<1> QED BY <1>9, <1>10, <1>11, <1>12 DEF Foretold, line, open, shown, TrayGrid

\* What GET /kitchen/status shows is what the next tick of the loop does.
THEOREM StatusIsTrue == Spec => StatusForetells
<1>1. IInv /\ [Next]_vars => [loop = "reconcile" /\ loop' = "persist" => Foretold]_vars
  <2> SUFFICES ASSUME IInv, [Next]_vars, loop = "reconcile", loop' = "persist"
               PROVE  Foretold
    OBVIOUS
  <2>1. CASE Reconcile
    BY <2>1, ReconcileForetold
  <2>2. ASSUME NEW o \in Orders, NEW specs \in Specs, Enqueue(o, specs)
        PROVE  FALSE
    BY <2>2 DEF Enqueue
  <2>3. CASE Sleep \/ Wake \/ AdvanceClock \/ UNCHANGED vars
    BY <2>3 DEF Sleep, Wake, AdvanceClock, vars
  <2> QED BY <2>1, <2>2, <2>3 DEF Next
<1> QED BY <1>1, SpecIInv, PTL DEF Spec, StatusForetells

=============================================================================
