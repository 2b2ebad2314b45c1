-------------------------- MODULE KitchenStateProofs --------------------------
(***************************************************************************)
(* What the steps of KitchenState keep, and what they do to the estimates, *)
(* whatever the module around them does with the answers.                  *)
(***************************************************************************)
EXTENDS KitchenState, ProjectionProofs

\* The bake on a tray began when the clock was on, and ends its bake time later.
FinishTimes ==
    \A s \in BusySlots(slots) :
        /\ slots[s].started_at \in Nat
        /\ slots[s].finish_at = slots[s].started_at + slots[s].task.bake_seconds

\* Sequence numbers in use are below the next one, so that the tasks an enqueue
\* pushes are new.
SeqsUsed == \A t \in TasksOn(slots) \cup queue : t.seq < seq

KitchenTypes ==
    /\ now \in Nat
    /\ slots \in [Slots -> Baking \cup {NoTask}]
    /\ queue \in SUBSET BakeTask
    /\ seq \in Nat
    /\ remaining \in [Orders -> Nat]
    /\ readyAt \in [Orders -> Nat \cup {NoTime}]
    /\ eta \in [Orders -> Nat \cup {NoTime}]

\* An order that is ready became so before now.
ReadyPast == \A o \in Orders : readyAt[o] <= now

\* No unit is in two places, every order's count is right, and the three facts
\* above.
KitchenInv ==
    /\ KitchenTypes
    /\ IsFiniteSet(queue)
    /\ Distinct(slots, queue)
    /\ Counted(slots, queue, remaining)
    /\ SeqsUsed
    /\ FinishTimes
    /\ ReadyPast

\* The trays with a queue that numbers each unit make a kitchen.
LEMMA KitchenHolds ==
    ASSUME KitchenTypes, FinishTimes, NEW q, QueueType(q), Distinct(slots, q)
    PROVE  Kitchen(slots, q)
<1>1. SlotsType(slots)
  BY DEF KitchenTypes, SlotsType
<1>2. ASSUME NEW s \in BusySlots(slots) PROVE slots[s].finish_at >= NoTime
  <2>1. slots[s].task.bake_seconds \in Nat
    BY <1>1 DEF SlotsType, BusySlots, FreeSlots, Baking, BakeTask
  <2>2. /\ slots[s].started_at \in Nat
        /\ slots[s].finish_at = slots[s].started_at + slots[s].task.bake_seconds
    BY DEF FinishTimes
  <2> QED BY <2>1, <2>2 DEF NoTime
<1> QED BY <1>1, <1>2 DEF Kitchen

\* What TickAndAccount does, on the queue and counts it starts from.
LEMMA TickStep ==
    ASSUME NEW q, NEW rem \in [Orders -> Nat],
           KitchenTypes, QueueType(q), Distinct(slots, q), Counted(slots, q, rem), FinishTimes,
           TickAndAccount(q, rem)
    PROVE  /\ slots' \in [Slots -> Baking \cup {NoTask}]
           /\ queue' \in SUBSET BakeTask
           /\ remaining' \in [Orders -> Nat]
           /\ readyAt' \in [Orders -> Nat \cup {NoTime}]
           /\ IsFiniteSet(queue')
           /\ Distinct(slots', queue')
           /\ Counted(slots', queue', remaining')
           /\ TasksOn(slots') \cup queue' \subseteq TasksOn(slots) \cup q
           /\ FinishTimes'
           /\ queue' # {} => FreeSlots(slots') = {}
           /\ \A s \in BusySlots(slots) : slots'[s] # slots[s] => slots[s].finish_at <= now
           /\ \A s \in BusySlots(slots') :
                 slots'[s] # slots[s] =>
                    /\ slots'[s].task \in q
                    /\ \A u \in queue' : u \in q /\ Rank(q, slots'[s].task) < Rank(q, u)
<1>1. SlotsType(slots) /\ now \in Int /\ now \in Nat
  BY DEF KitchenTypes, SlotsType
<1>2. /\ slots' = TickSlots(slots, q, now)
      /\ queue' = TickQueue(slots, q, now)
      /\ remaining' = Accounted(slots, rem, now)
  BY DEF TickAndAccount
<1>3. /\ SlotsType(slots')
      /\ QueueType(queue')
      /\ Distinct(slots', queue')
      /\ Counted(slots', queue', remaining')
      /\ remaining' \in [Orders -> Nat]
      /\ TasksOn(slots') \cup queue' \subseteq TasksOn(slots) \cup q
      /\ queue' # {} => FreeSlots(slots') = {}
      /\ \A s \in BusySlots(slots) : slots'[s] # slots[s] => slots[s].finish_at <= now
      /\ \A s \in BusySlots(slots') :
            \/ s \in BusySlots(slots) /\ slots'[s] = slots[s]
            \/ /\ slots'[s] = StartBaking(slots'[s].task, now)
               /\ slots'[s].task \in q
               /\ \A u \in queue' : u \in q /\ Rank(q, slots'[s].task) < Rank(q, u)
  BY <1>1, <1>2, TickKeeps
<1>4. FinishTimes'
  <2> SUFFICES ASSUME NEW s \in BusySlots(slots')
               PROVE  /\ slots'[s].started_at \in Nat
                      /\ slots'[s].finish_at
                            = slots'[s].started_at + slots'[s].task.bake_seconds
    BY DEF FinishTimes, BusySlots, FreeSlots
  <2>1. CASE s \in BusySlots(slots) /\ slots'[s] = slots[s]
    BY <2>1 DEF FinishTimes
  <2>2. CASE slots'[s] = StartBaking(slots'[s].task, now)
    <3> DEFINE t == slots'[s].task
    <3>1. /\ slots'[s].finish_at = now + t.bake_seconds
          /\ slots'[s].started_at = now
      BY <2>2 DEF StartBaking
    <3> QED BY <1>1, <3>1
  <2> QED BY <1>3, <2>1, <2>2
<1>5. readyAt' \in [Orders -> Nat \cup {NoTime}]
  <2>1. readyAt \in [Orders -> Nat \cup {NoTime}]
    BY DEF KitchenTypes
  <2>2. readyAt' = [o \in Orders |->
                       IF o \in MadeReady(slots, rem, now) THEN now ELSE readyAt[o]]
    BY DEF TickAndAccount
  <2> QED BY <1>1, <2>1, <2>2
<1> QED BY <1>3, <1>4, <1>5 DEF SlotsType, QueueType

\* The queue and counts that an enqueue's tick starts from.
LEMMA EnqueueStart ==
    ASSUME KitchenInv, NEW o \in Orders, NEW specs \in Seq(PriorityLevel \X (Nat \ {0}))
    PROVE  LET q == queue \cup NewTasks(o, specs, seq)
               rem == [remaining EXCEPT ![o] = @ + Len(specs)]
           IN  /\ QueueType(q)
               /\ Distinct(slots, q)
               /\ rem \in [Orders -> Nat]
               /\ Counted(slots, q, rem)
               /\ seq + Len(specs) \in Nat
               /\ \A t \in TasksOn(slots) \cup q : t.seq < seq + Len(specs)
<1>1. /\ SlotsType(slots) /\ QueueType(queue) /\ seq \in Nat
      /\ remaining \in [Orders -> Nat]
      /\ Distinct(slots, queue) /\ Counted(slots, queue, remaining)
      /\ \A t \in TasksOn(slots) \cup queue : t.seq < seq
  BY DEF KitchenInv, KitchenTypes, SlotsType, QueueType, SeqsUsed
<1> QED BY <1>1, PushKeeps

\* An order has a count when it has a unit in the kitchen.
LEMMA CountsUnits ==
    ASSUME NEW sl, NEW q, NEW rem, QueueType(q), Counted(sl, q, rem), NEW o \in Orders
    PROVE  rem[o] \in Nat /\ (rem[o] > 0 <=> \E t \in TasksOn(sl) \cup q : t.order = o)
<1>1. IsFiniteSet(TasksOn(sl) \cup q)
  BY TasksFinite, FS_Union DEF QueueType
<1>2. IsFiniteSet(UnitsOf(o, sl, q))
  BY <1>1, FS_Subset DEF UnitsOf
<1>3. rem[o] = Cardinality(UnitsOf(o, sl, q))
  BY DEF Counted
<1>4. rem[o] \in Nat /\ (rem[o] = 0 <=> UnitsOf(o, sl, q) = {})
  BY <1>2, <1>3, FS_CardinalityType, FS_EmptySet
<1>5. UnitsOf(o, sl, q) # {} <=> \E t \in TasksOn(sl) \cup q : t.order = o
  BY DEF UnitsOf
<1> QED BY <1>4, <1>5

\* While no bake is overdue, the estimate of an order in the kitchen is not over.
LEMMA NotOver ==
    ASSUME NEW sl, NEW q, NEW rem, Kitchen(sl, q), Counted(sl, q, rem), NEW n \in Int,
           \A s \in BusySlots(sl) : sl[s].finish_at >= n,
           NEW o \in Orders, rem[o] > 0
    PROVE  Project(sl, q, n)[o] >= n
<1> DEFINE a == Project(sl, q, n)[o]
<1>1. SlotsType(sl) /\ QueueType(q)
  BY DEF Kitchen
<1>2. PICK t \in TasksOn(sl) \cup q : t.order = o
  BY <1>1, CountsUnits
<1>3. /\ a \in Int
      /\ \A s \in BusySlots(sl) : sl[s].task.order = o => sl[s].finish_at <= a
      /\ \A u \in q : u.order = o => n + u.bake_seconds <= a
  BY ProjectBounds
<1> HIDE DEF a
<1>4. CASE t \in q
  <2>1. t.bake_seconds \in Nat
    BY <1>1, <1>4 DEF QueueType, BakeTask
  <2>2. n + t.bake_seconds <= a
    BY <1>2, <1>3, <1>4
  <2>3. a >= n
    BY <1>3, <2>1, <2>2
  <2> QED BY <2>3 DEF a
<1>5. CASE t \in TasksOn(sl)
  <2>1. PICK s \in BusySlots(sl) : t = sl[s].task
    BY <1>5 DEF TasksOn
  <2>2. sl[s].finish_at \in Int
    BY <1>1, <2>1 DEF SlotsType, BusySlots, FreeSlots, Baking
  <2>3. sl[s].finish_at <= a /\ sl[s].finish_at >= n
    BY <1>2, <1>3, <2>1
  <2>4. a >= n
    BY <1>3, <2>2, <2>3
  <2> QED BY <2>4 DEF a
<1> QED BY <1>2, <1>4, <1>5

\* What a tick means for the estimate of an order: one that stays has the same
\* estimate before and after, one that goes had none that lies ahead.
LEMMA TickEstimates ==
    ASSUME NEW q, NEW rem \in [Orders -> Nat],
           KitchenInv, QueueType(q), queue \subseteq q, Distinct(slots, q), Counted(slots, q, rem),
           TickAndAccount(q, rem), NEW o \in Orders
    PROVE  LET before == Project(slots, q, now)[o]
               after == Project(slots', queue', now)[o]
           IN  /\ before \in Int /\ after \in Int
               /\ Project(slots, queue, now)[o] \in Int
               /\ Project(slots, queue, now)[o] <= before
               /\ remaining'[o] \in Nat
               /\ \A s \in BusySlots(slots') : slots'[s].finish_at >= now
               /\ remaining'[o] > 0 => after = before /\ after >= now
               /\ remaining'[o] = 0 => after = NoTime /\ before <= now
<1> DEFINE before == Project(slots, q, now)[o]
           after == Project(slots', queue', now)[o]
<1>1. now \in Int /\ now >= NoTime /\ now \in Nat
  BY DEF KitchenInv, KitchenTypes, NoTime
<1>2. KitchenTypes /\ FinishTimes
  BY DEF KitchenInv
<1>3. Kitchen(slots, q)
  BY <1>2, KitchenHolds
<1>4. slots' = TickSlots(slots, q, now) /\ queue' = TickQueue(slots, q, now)
  BY DEF TickAndAccount
<1>5. /\ Kitchen(slots', queue')
      /\ \A s \in BusySlots(slots') : slots'[s].finish_at >= now
  BY <1>1, <1>3, <1>4, TickKitchen
<1>6. Counted(slots', queue', remaining')
  BY <1>2, TickStep
<1>7. /\ remaining'[o] \in Nat
      /\ remaining'[o] > 0 <=> \E t \in TasksOn(slots') \cup queue' : t.order = o
  BY <1>5, <1>6, CountsUnits DEF Kitchen
<1>8. /\ before \in Int
      /\ \A s \in BusySlots(slots) : slots[s].task.order = o => slots[s].finish_at <= before
      /\ \A t \in q : t.order = o => now + t.bake_seconds <= before
  BY <1>1, <1>3, ProjectBounds
<1>9. /\ after \in Int
      /\ (\A t \in TasksOn(slots') \cup queue' : t.order # o) => after = NoTime
  BY <1>1, <1>5, ProjectBounds
<1>10. /\ Project(slots, queue, now)[o] \in Int
       /\ Project(slots, queue, now)[o] <= before
  <2>1. Kitchen(slots, queue)
    BY <1>2, KitchenHolds DEF KitchenInv, QueueType, KitchenTypes
  <2>2. Project(slots, queue, now)[o] \in Int
    BY <1>1, <2>1, ProjectBounds
  <2>3. now <= now
    BY <1>1
  <2> QED BY <1>1, <1>3, <2>2, <2>3, ProjectMovesBack
<1>11. remaining'[o] > 0 => after = before /\ after >= now
  <2> SUFFICES ASSUME remaining'[o] > 0 PROVE after = before /\ after >= now
    OBVIOUS
  <2>1. PICK t \in TasksOn(slots') \cup queue' : t.order = o
    BY <1>7
  <2>2. t \in TasksOn(TickSlots(slots, q, now)) \cup TickQueue(slots, q, now)
    BY <1>4, <2>1
  <2> QED BY <1>1, <1>3, <1>4, <2>1, <2>2, ProjectTicked
<1>12. remaining'[o] = 0 => after = NoTime /\ before <= now
  <2>1. Later(before, now) = Later(after, now)
    BY <1>1, <1>3, <1>4, ProjectTick
  <2> HIDE DEF before, after
  <2> QED BY <1>1, <1>7, <1>8, <1>9, <2>1 DEF Later, NoTime
<1> HIDE DEF before, after
<1> QED BY <1>5, <1>7, <1>8, <1>9, <1>10, <1>11, <1>12 DEF before, after


-----------------------------------------------------------------------------
(* The three kinds of step: an enqueue, a tick of the loop, and time.      *)

\* A new engine satisfies the invariant.
LEMMA NewKitchen == NewEngine /\ now \in Nat => KitchenInv
<1> SUFFICES ASSUME NewEngine, now \in Nat PROVE KitchenInv
  OBVIOUS
<1>1. BusySlots(slots) = {} /\ TasksOn(slots) = {} /\ queue = {}
  BY DEF NewEngine, BusySlots, FreeSlots, TasksOn
<1>2. KitchenTypes
  BY DEF NewEngine, NoTimes, KitchenTypes
<1>3. IsFiniteSet(queue) /\ Cardinality({}) = 0
  BY <1>1, FS_EmptySet
<1>4. Distinct(slots, queue) /\ SeqsUsed /\ FinishTimes
  BY <1>1 DEF Distinct, SeqsUsed, FinishTimes
<1>5. Counted(slots, queue, remaining)
  <2>1. \A o \in Orders : UnitsOf(o, slots, queue) = {}
    BY <1>1 DEF UnitsOf
  <2> QED BY <2>1, <1>3 DEF Counted, NewEngine
<1>6. ReadyPast
  BY DEF NewEngine, NoTimes, NoTime, ReadyPast
<1> QED BY <1>2, <1>3, <1>4, <1>5, <1>6 DEF KitchenInv

\* The engine has the order, or has had it ready.
Known(o) == remaining[o] > 0 \/ readyAt[o] # NoTime

\* The latest that an estimate of the order may be without being late: the one it
\* would be given now, when it was ready, or now when the engine does not know it.
LastDue(o) ==
    IF remaining[o] > 0 THEN Project(slots, queue, now)[o]
    ELSE IF readyAt[o] # NoTime THEN readyAt[o]
    ELSE now

\* An order that loses its last unit in a tick is ready now; the others that have
\* no unit were ready when they were.
LEMMA TickReady ==
    ASSUME NEW q, NEW rem \in [Orders -> Nat], KitchenInv, TickAndAccount(q, rem),
           NEW o \in Orders
    PROVE  /\ remaining'[o] = 0 =>
                 readyAt'[o] = IF rem[o] > 0 THEN now ELSE readyAt[o]
           /\ remaining'[o] > 0 => rem[o] > 0 /\ readyAt'[o] = readyAt[o]
           /\ readyAt'[o] \in Int /\ readyAt'[o] <= now
<1>1. /\ rem[o] \in Nat /\ now \in Nat
      /\ readyAt[o] \in Int /\ readyAt[o] <= now
  BY DEF KitchenInv, KitchenTypes, ReadyPast, NoTime
<1>2. DoneUnits(slots, now, o) \in Nat
  <2>1. /\ SlotsType(slots) /\ now \in Int
        /\ remaining \in [Orders -> Nat]
        /\ Counted(slots, queue, remaining) /\ QueueType(queue) /\ Distinct(slots, queue)
    BY DEF KitchenInv, KitchenTypes, SlotsType, QueueType
  <2>2. remaining[o] \in Nat /\ DoneUnits(slots, now, o) \in 0..remaining[o]
    BY <2>1, ClearCounts
  <2> QED BY <2>2
<1>3. /\ remaining'[o] = IF DoneUnits(slots, now, o) >= rem[o]
                         THEN 0 ELSE rem[o] - DoneUnits(slots, now, o)
      /\ readyAt'[o] = IF rem[o] > 0 /\ DoneUnits(slots, now, o) >= rem[o]
                       THEN now ELSE readyAt[o]
  BY DEF TickAndAccount, Accounted, MadeReady
<1> QED BY <1>1, <1>2, <1>3

\* What a tick does to an order of which it adds no unit: it may leave, it does
\* not come back.
LEMMA TickTakesOut ==
    ASSUME NEW q, NEW rem, KitchenInv, TickAndAccount(q, rem),
           NEW o \in Orders, rem[o] = remaining[o]
    PROVE  /\ remaining[o] \in Nat /\ remaining'[o] \in Nat
           /\ remaining'[o] > 0 => remaining[o] > 0
<1>1. SlotsType(slots) /\ now \in Int /\ remaining[o] \in Nat
      /\ Counted(slots, queue, remaining) /\ QueueType(queue) /\ Distinct(slots, queue)
      /\ remaining \in [Orders -> Nat]
  BY DEF KitchenInv, KitchenTypes, SlotsType, QueueType
<1>2. DoneUnits(slots, now, o) \in 0..remaining[o]
  BY <1>1, ClearCounts
<1>3. remaining'[o] = IF DoneUnits(slots, now, o) >= remaining[o]
                      THEN 0 ELSE remaining[o] - DoneUnits(slots, now, o)
  BY DEF TickAndAccount, Accounted
<1> QED BY <1>1, <1>2, <1>3

\* An enqueue keeps the invariant and brings no estimate forward; what it answers
\* for an order that has units in the kitchen is when it is due.
LEMMA EnqueueStep ==
    ASSUME KitchenInv, NEW o \in Orders,
           NEW specs \in Seq(PriorityLevel \X (Nat \ {0})), specs # << >>,
           EnqueueLocked(o, specs), now' = now
    PROVE  /\ KitchenInv'
           /\ queue' # {} => FreeSlots(slots') = {}
           /\ remaining'[o] > 0
           /\ \A s \in BusySlots(slots') : slots'[s].finish_at >= now
           /\ Project(slots', queue', now) \in [Orders -> Nat \cup {NoTime}]
           /\ \A x \in Orders :
                 LET ready == Project(slots', queue', now)[x]
                 IN  /\ x # o => (remaining'[x] > 0 => remaining[x] > 0)
                     /\ x # o => (Known(x)' => Known(x))
                     /\ LastDue(x) \in Int /\ LastDue(x)' \in Int /\ LastDue(x) <= LastDue(x)'
                     /\ remaining'[x] > 0 =>
                           ready = eta'[x] /\ ready = LastDue(x)' /\ ready \in Nat
                     /\ remaining'[x] = 0 => ready = NoTime /\ eta'[x] = eta[x]
<1> DEFINE q == queue \cup NewTasks(o, specs, seq)
           rem == [remaining EXCEPT ![o] = @ + Len(specs)]
           after == Project(slots', queue', now)
<1>1. /\ QueueType(q) /\ Distinct(slots, q) /\ rem \in [Orders -> Nat]
      /\ Counted(slots, q, rem) /\ queue \subseteq q
      /\ seq + Len(specs) \in Nat
      /\ \A t \in TasksOn(slots) \cup q : t.seq < seq + Len(specs)
  BY EnqueueStart
<1>2. /\ TickAndAccount(q, rem)
      /\ seq' = seq + Len(specs)
      /\ eta' = [x \in Orders |-> IF after[x] = NoTime THEN eta[x] ELSE after[x]]
  BY DEF EnqueueLocked
<1>3. /\ now \in Nat /\ remaining \in [Orders -> Nat]
      /\ KitchenTypes /\ FinishTimes /\ QueueType(queue)
      /\ Distinct(slots, queue) /\ Counted(slots, queue, remaining)
      /\ eta \in [Orders -> Nat \cup {NoTime}]
  BY DEF KitchenInv, KitchenTypes, QueueType
<1>4. \A x \in Orders : x # o => rem[x] = remaining[x]
  BY <1>3
\* The order that is enqueued stays: its new units have yet to be baked.
<1>5. remaining'[o] > 0
  <2>1. Len(specs) \in Nat /\ Len(specs) # 0
    OBVIOUS
  <2>2. rem[o] = remaining[o] + Len(specs) /\ remaining[o] \in Nat
    BY <1>3
  <2>3. DoneUnits(slots, now, o) \in 0..remaining[o]
    <3>1. SlotsType(slots) /\ now \in Int
      BY <1>3 DEF KitchenTypes, SlotsType
    <3> QED BY <1>3, <3>1, ClearCounts
  <2>4. remaining'[o] = IF DoneUnits(slots, now, o) >= rem[o]
                        THEN 0 ELSE rem[o] - DoneUnits(slots, now, o)
    BY <1>2 DEF TickAndAccount, Accounted
  <2> HIDE DEF rem
  <2> QED BY <2>1, <2>2, <2>3, <2>4
<1>6. rem[o] > 0
  <2>1. Len(specs) \in Nat /\ Len(specs) # 0 /\ remaining[o] \in Nat
    BY <1>3
  <2> QED BY <1>3, <2>1
<1> HIDE DEF q, rem
<1>7. /\ slots' \in [Slots -> Baking \cup {NoTask}]
      /\ queue' \in SUBSET BakeTask
      /\ remaining' \in [Orders -> Nat]
      /\ readyAt' \in [Orders -> Nat \cup {NoTime}]
      /\ IsFiniteSet(queue')
      /\ Distinct(slots', queue')
      /\ Counted(slots', queue', remaining')
      /\ TasksOn(slots') \cup queue' \subseteq TasksOn(slots) \cup q
      /\ FinishTimes'
      /\ queue' # {} => FreeSlots(slots') = {}
  BY <1>1, <1>2, <1>3, TickStep
<1>8. ASSUME NEW x \in Orders
      PROVE  /\ x # o => (remaining'[x] > 0 => remaining[x] > 0)
             /\ x # o => (Known(x)' => Known(x))
             /\ LastDue(x) \in Int /\ LastDue(x)' \in Int /\ LastDue(x) <= LastDue(x)'
             /\ remaining'[x] > 0 => after[x] = LastDue(x)'
             /\ remaining'[x] > 0 => after[x] = eta'[x] /\ after[x] \in Nat
             /\ remaining'[x] = 0 => after[x] = NoTime /\ eta'[x] = eta[x]
             /\ eta'[x] \in Nat \cup {NoTime}
  <2> DEFINE first == Project(slots, queue, now)[x]
             before == Project(slots, q, now)[x]
             a == after[x]
  <2>1. /\ before \in Int /\ a \in Int /\ first \in Int /\ first <= before
        /\ remaining'[x] \in Nat
        /\ remaining'[x] > 0 => a = before /\ a >= now
        /\ remaining'[x] = 0 => a = NoTime /\ before <= now
    BY <1>1, <1>2, TickEstimates
  <2>2. x # o => (remaining'[x] > 0 => remaining[x] > 0)
    BY <1>2, <1>4, TickTakesOut
  <2>3. eta'[x] = IF a = NoTime THEN eta[x] ELSE a
    BY <1>2
  <2>4. /\ LastDue(x) = IF remaining[x] > 0 THEN first
                         ELSE IF readyAt[x] # NoTime THEN readyAt[x] ELSE now
        /\ LastDue(x)' = IF remaining'[x] > 0 THEN a
                          ELSE IF readyAt'[x] # NoTime THEN readyAt'[x] ELSE now
    BY DEF LastDue
  <2>5. /\ remaining[x] \in Nat /\ eta[x] \in Nat \cup {NoTime}
        /\ readyAt[x] \in Int /\ readyAt[x] <= now
        /\ rem[x] \in Nat /\ (rem[x] = 0 => remaining[x] = 0)
    BY <1>1, <1>3, <1>4, <1>6 DEF KitchenInv, KitchenTypes, ReadyPast, NoTime
  <2>6. /\ remaining'[x] = 0 =>
              readyAt'[x] = IF rem[x] > 0 THEN now ELSE readyAt[x]
        /\ remaining'[x] > 0 => rem[x] > 0 /\ readyAt'[x] = readyAt[x]
        /\ readyAt'[x] \in Int
    BY <1>1, <1>2, TickReady
  <2>7. x # o => (Known(x)' => Known(x))
    BY <1>4, <2>1, <2>2, <2>5, <2>6 DEF Known
  <2> HIDE DEF first, before, a
  <2>8. /\ LastDue(x) \in Int /\ LastDue(x)' \in Int /\ LastDue(x) <= LastDue(x)'
        /\ remaining'[x] > 0 => a = LastDue(x)'
    BY <1>3, <2>1, <2>4, <2>5, <2>6 DEF NoTime
  <2>9. /\ remaining'[x] > 0 => a = eta'[x] /\ a \in Nat
        /\ remaining'[x] = 0 => a = NoTime /\ eta'[x] = eta[x]
        /\ eta'[x] \in Nat \cup {NoTime}
    BY <1>3, <2>1, <2>3, <2>5 DEF NoTime
  <2> QED BY <2>2, <2>8, <2>9, <2>7 DEF a
<1>9. KitchenInv'
  <2>1. eta' \in [Orders -> Nat \cup {NoTime}]
    BY <1>2, <1>8
  <2>2. KitchenTypes'
    BY <1>1, <1>2, <1>3, <1>7, <2>1 DEF KitchenTypes
  <2>3. SeqsUsed'
    <3>1. \A t \in TasksOn(slots') \cup queue' : t.seq < seq'
      BY <1>1, <1>2, <1>7
    <3> QED BY <3>1 DEF SeqsUsed, TasksOn, BusySlots, FreeSlots
  <2>4. ReadyPast'
    BY <1>1, <1>2, TickReady DEF ReadyPast
  <2> QED BY <1>7, <2>2, <2>3, <2>4
             DEF KitchenInv, Distinct, Counted, UnitsOf, TasksOn, BusySlots, FreeSlots
<1>10. \A s \in BusySlots(slots') : slots'[s].finish_at >= now
  BY <1>1, <1>2, TickEstimates
<1>11. after \in [Orders -> Nat \cup {NoTime}]
  <2>1. Kitchen(slots', queue')
    <3>1. Kitchen(slots, q)
      BY <1>1, <1>3, KitchenHolds
    <3>2. now \in Int /\ now >= NoTime
      BY <1>3 DEF NoTime
    <3> QED BY <1>2, <3>1, <3>2, TickKitchen DEF TickAndAccount
  <2>2. now \in Int
    BY <1>3
  <2> QED BY <2>1, <2>2, ProjectType
<1> QED BY <1>5, <1>7, <1>8, <1>9, <1>10, <1>11

\* A tick of the loop keeps the invariant and brings no estimate forward.
LEMMA ReconcileStep ==
    ASSUME KitchenInv, TickAndAccount(queue, remaining), UNCHANGED <<now, seq, eta>>
    PROVE  /\ KitchenInv'
           /\ queue' # {} => FreeSlots(slots') = {}
           /\ \A s \in BusySlots(slots') : slots'[s].finish_at >= now
           /\ \A x \in Orders :
                 /\ remaining'[x] > 0 =>
                       /\ remaining[x] > 0
                       /\ Project(slots', queue', now)[x] = Project(slots, queue, now)[x]
                 /\ Known(x)' => Known(x)
                 /\ LastDue(x) \in Int /\ LastDue(x)' \in Int /\ LastDue(x) <= LastDue(x)'
<1>1. /\ now \in Nat /\ remaining \in [Orders -> Nat]
      /\ KitchenTypes /\ FinishTimes /\ QueueType(queue)
      /\ Distinct(slots, queue) /\ Counted(slots, queue, remaining)
  BY DEF KitchenInv, KitchenTypes, QueueType
<1>2. /\ slots' \in [Slots -> Baking \cup {NoTask}]
      /\ queue' \in SUBSET BakeTask
      /\ remaining' \in [Orders -> Nat]
      /\ readyAt' \in [Orders -> Nat \cup {NoTime}]
      /\ IsFiniteSet(queue')
      /\ Distinct(slots', queue')
      /\ Counted(slots', queue', remaining')
      /\ TasksOn(slots') \cup queue' \subseteq TasksOn(slots) \cup queue
      /\ FinishTimes'
      /\ queue' # {} => FreeSlots(slots') = {}
  BY <1>1, TickStep
<1>3. KitchenInv'
  <2>1. KitchenTypes'
    BY <1>1, <1>2 DEF KitchenTypes
  <2>2. SeqsUsed'
    <3>1. \A t \in TasksOn(slots') \cup queue' : t.seq < seq'
      BY <1>2 DEF KitchenInv, SeqsUsed
    <3> QED BY <3>1 DEF SeqsUsed, TasksOn, BusySlots, FreeSlots
  <2>3. ReadyPast'
    BY <1>1, TickReady DEF ReadyPast
  <2> QED BY <1>2, <2>1, <2>2, <2>3
             DEF KitchenInv, Distinct, Counted, UnitsOf, TasksOn, BusySlots, FreeSlots
<1>4. \A s \in BusySlots(slots') : slots'[s].finish_at >= now
  <2> SUFFICES ASSUME NEW s \in BusySlots(slots') PROVE slots'[s].finish_at >= now
    OBVIOUS
  <2>1. Kitchen(slots, queue)
    BY <1>1, KitchenHolds
  <2>2. now \in Int /\ now >= NoTime
    BY <1>1 DEF NoTime
  <2> QED BY <2>1, <2>2, TickKitchen DEF TickAndAccount
<1>5. ASSUME NEW x \in Orders
      PROVE  /\ remaining'[x] > 0 =>
                   /\ remaining[x] > 0
                   /\ Project(slots', queue', now)[x] = Project(slots, queue, now)[x]
             /\ Known(x)' => Known(x)
             /\ LastDue(x) \in Int /\ LastDue(x)' \in Int /\ LastDue(x) <= LastDue(x)'
  <2> DEFINE before == Project(slots, queue, now)[x]
             after == Project(slots', queue', now)[x]
  <2>1. /\ before \in Int /\ after \in Int /\ remaining'[x] \in Nat
        /\ remaining'[x] > 0 => after = before /\ after >= now
        /\ remaining'[x] = 0 => before <= now
    BY <1>1, TickEstimates
  <2>2. remaining[x] \in Nat /\ (remaining'[x] > 0 => remaining[x] > 0)
    BY <1>1, TickTakesOut
  <2>3. /\ LastDue(x) = IF remaining[x] > 0 THEN before
                         ELSE IF readyAt[x] # NoTime THEN readyAt[x] ELSE now
        /\ LastDue(x)' = IF remaining'[x] > 0 THEN after
                          ELSE IF readyAt'[x] # NoTime THEN readyAt'[x] ELSE now
    BY DEF LastDue
  <2>4. /\ readyAt[x] \in Int /\ readyAt[x] <= now
        /\ remaining'[x] = 0 =>
              readyAt'[x] = IF remaining[x] > 0 THEN now ELSE readyAt[x]
        /\ remaining'[x] > 0 => readyAt'[x] = readyAt[x]
    BY <1>1, TickReady DEF KitchenInv, KitchenTypes, ReadyPast, NoTime
  <2>5. Known(x)' => Known(x)
    BY <2>1, <2>2, <2>4 DEF Known
  <2> HIDE DEF before, after
  <2>6. LastDue(x) \in Int /\ LastDue(x)' \in Int /\ LastDue(x) <= LastDue(x)'
    BY <1>1, <2>1, <2>2, <2>3, <2>4 DEF NoTime
  <2> QED BY <2>1, <2>2, <2>6, <2>5 DEF before, after
<1> QED BY <1>2, <1>3, <1>4, <1>5

\* So does time.
LEMMA ClockStep ==
    ASSUME KitchenInv, UNCHANGED <<slots, queue, seq, remaining, readyAt, eta>>,
           now' \in Nat, now <= now'
    PROVE  /\ KitchenInv'
           /\ \A x \in Orders :
                 /\ Known(x)' => Known(x)
                 /\ LastDue(x) \in Int /\ LastDue(x)' \in Int /\ LastDue(x) <= LastDue(x)'
                 /\ Project(slots, queue, now)[x] \in Int
                 /\ Project(slots, queue, now')[x] \in Int
                 /\ Project(slots, queue, now)[x] <= Project(slots, queue, now')[x]
<1>1. /\ now \in Nat /\ now \in Int /\ now' \in Int /\ remaining \in [Orders -> Nat]
      /\ KitchenTypes /\ FinishTimes /\ QueueType(queue)
      /\ Distinct(slots, queue) /\ Counted(slots, queue, remaining)
      /\ \A x \in Orders : readyAt[x] \in Int /\ readyAt[x] <= now
  BY DEF KitchenInv, KitchenTypes, QueueType, ReadyPast, NoTime
<1>2. ReadyPast'
  BY <1>1 DEF ReadyPast
<1>3. KitchenInv'
  BY <1>2 DEF KitchenInv, KitchenTypes, SeqsUsed, FinishTimes, Distinct, Counted, UnitsOf,
         TasksOn, BusySlots, FreeSlots
<1>4. Kitchen(slots, queue)
  BY <1>1, KitchenHolds
<1>5. ASSUME NEW x \in Orders
      PROVE  /\ Known(x)' => Known(x)
             /\ LastDue(x) \in Int /\ LastDue(x)' \in Int /\ LastDue(x) <= LastDue(x)'
             /\ Project(slots, queue, now)[x] \in Int
             /\ Project(slots, queue, now')[x] \in Int
             /\ Project(slots, queue, now)[x] <= Project(slots, queue, now')[x]
  <2> DEFINE a == Project(slots, queue, now)[x]
             b == Project(slots, queue, now')[x]
  <2>1. a \in Int /\ b \in Int
    BY <1>1, <1>4, ProjectBounds
  <2>2. a <= b
    BY <1>1, <1>4, ProjectMovesBack
  <2>3. /\ LastDue(x) = IF remaining[x] > 0 THEN a
                         ELSE IF readyAt[x] # NoTime THEN readyAt[x] ELSE now
        /\ LastDue(x)' = IF remaining[x] > 0 THEN b
                          ELSE IF readyAt[x] # NoTime THEN readyAt[x] ELSE now'
    BY DEF LastDue
  <2>4. Known(x)' => Known(x)
    BY DEF Known
  <2> HIDE DEF a, b
  <2>5. LastDue(x) \in Int /\ LastDue(x)' \in Int /\ LastDue(x) <= LastDue(x)'
    BY <1>1, <2>1, <2>2, <2>3
  <2> QED BY <2>1, <2>2, <2>5, <2>4 DEF a, b
<1> QED BY <1>3, <1>5

=============================================================================
