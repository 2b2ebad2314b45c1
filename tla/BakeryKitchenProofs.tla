-------------------------- MODULE BakeryKitchenProofs --------------------------
(***************************************************************************)
(* What the steps of Bakery do to its kitchen, whatever is in it: units    *)
(* stay where they are or move on, counts agree, and the lists that the    *)
(* model builds in an order name orders, each once.                        *)
(***************************************************************************)
EXTENDS Bakery, SchedulerProofs

-----------------------------------------------------------------------------
(* Sequences that the model builds.                                        *)

\* The least member of a set of naturals is one of its members.
LEMMA MinMember ==
    ASSUME NEW S, S \subseteq Nat, S # {}
    PROVE  Min(S) \in S
BY LeastMember DEF Min, Least

\* So is the greatest of a finite set of integers.
LEMMA GreatestMember ==
    ASSUME NEW S, S \subseteq Int, IsFiniteSet(S), S # {}
    PROVE  Max(S) \in S
<1> DEFINE R == {p \in S \X S : p[1] > p[2]}
<1>1. \A x, y \in S : <<x, y>> \in R <=> x > y
  OBVIOUS
<1> HIDE DEF R
<1>2. StrictOrder(S, R)
  BY <1>1 DEF StrictOrder
<1>3. PICK x \in S : \A y \in S : <<y, x>> \notin R
  BY <1>2, FirstMember
<1>4. ASSUME NEW y \in S PROVE x >= y
  <2>1. <<y, x>> \in R <=> y > x
    BY <1>1
  <2>2. ~(y > x)
    BY <1>3, <2>1
  <2> QED BY <2>2
<1> QED BY <1>4 DEF Max

\* The members of a sequence are finitely many.
LEMMA MembersFinite ==
    ASSUME NEW T, NEW s \in Seq(T)
    PROVE  /\ IsFiniteSet(ToSet(s))
           /\ ToSet(s) = {s[i] : i \in 1..Len(s)}
           /\ ToSet(s) \subseteq T
<1> DEFINE D == 1..Len(s)
           f == [i \in D |-> s[i]]
<1>1. Len(s) \in Nat /\ DOMAIN s = D /\ \A i \in D : s[i] \in T
  OBVIOUS
<1>2. IsFiniteSet(D)
  BY <1>1, FS_Interval
<1> HIDE DEF D
<1>3. ToSet(s) = {s[i] : i \in D}
  BY <1>1 DEF ToSet
<1>4. f \in Surjection(D, ToSet(s))
  BY <1>3 DEF Surjection
<1>5. IsFiniteSet(ToSet(s))
  <2> HIDE DEF f
  <2> QED BY <1>2, <1>4, FS_Surjection
<1> QED BY <1>1, <1>3, <1>5 DEF D

\* Two sequences put together have the members of both.
LEMMA MembersOfBoth ==
    ASSUME NEW T, NEW s \in Seq(T), NEW u \in Seq(T)
    PROVE  s \o u \in Seq(T) /\ ToSet(s \o u) = ToSet(s) \cup ToSet(u)
<1>1. s \o u \in Seq(T)
  OBVIOUS
<1>2. /\ Len(s) \in Nat /\ Len(u) \in Nat
      /\ Len(s \o u) = Len(s) + Len(u)
      /\ \A i \in 1..(Len(s) + Len(u)) :
            (s \o u)[i] = IF i <= Len(s) THEN s[i] ELSE u[i - Len(s)]
  OBVIOUS
<1>3. ToSet(s) = {s[i] : i \in 1..Len(s)} /\ ToSet(u) = {u[i] : i \in 1..Len(u)}
      /\ ToSet(s \o u) = {(s \o u)[i] : i \in 1..(Len(s) + Len(u))}
  BY <1>1, <1>2, MembersFinite
<1>4. ASSUME NEW x \in ToSet(s \o u) PROVE x \in ToSet(s) \cup ToSet(u)
  <2>1. PICK i \in 1..(Len(s) + Len(u)) : x = (s \o u)[i]
    BY <1>3
  <2>2. CASE i <= Len(s)
    BY <1>2, <1>3, <2>1, <2>2
  <2>3. CASE ~(i <= Len(s))
    <3>1. i - Len(s) \in 1..Len(u)
      BY <1>2, <2>3
    <3> QED BY <1>2, <1>3, <2>1, <2>3, <3>1
  <2> QED BY <2>2, <2>3
<1>5. ASSUME NEW x \in ToSet(s) PROVE x \in ToSet(s \o u)
  <2>1. PICK i \in 1..Len(s) : x = s[i]
    BY <1>3
  <2>2. i \in 1..(Len(s) + Len(u)) /\ i <= Len(s)
    BY <1>2
  <2> QED BY <1>2, <1>3, <2>1, <2>2
<1>6. ASSUME NEW x \in ToSet(u) PROVE x \in ToSet(s \o u)
  <2>1. PICK i \in 1..Len(u) : x = u[i]
    BY <1>3
  <2>2. Len(s) + i \in 1..(Len(s) + Len(u)) /\ ~(Len(s) + i <= Len(s))
        /\ Len(s) + i - Len(s) = i
    BY <1>2
  <2> QED BY <1>2, <1>3, <2>1, <2>2
<1> QED BY <1>1, <1>4, <1>5, <1>6

-----------------------------------------------------------------------------
(* The kitchen: tick and enqueue.                                          *)

\* A tick takes units from trays to the count of what is baked, and gives
\* _ready_at the orders that have none left.
LEMMA TickBakes ==
    ASSUME NEW q, NEW rem \in [Orders -> Nat],
           SlotsType(slots), QueueType(q), Distinct(slots, q), Counted(slots, q, rem),
           readyAt \in Seq(Orders), baked \in [Orders -> Nat],
           TickAndAccount(q, rem)
    PROVE  /\ SlotsType(slots') /\ QueueType(queue') /\ Distinct(slots', queue')
           /\ Counted(slots', queue', remaining')
           /\ remaining' \in [Orders -> Nat]
           /\ TasksOn(slots') \cup queue' \subseteq TasksOn(slots) \cup q
           /\ readyAt' \in Seq(Orders)
           /\ baked' \in [Orders -> Nat]
           /\ \A o \in Orders :
                 /\ baked'[o] + remaining'[o] = baked[o] + rem[o]
                 /\ baked'[o] >= baked[o]
                 /\ o \in ToSet(readyAt') <=>
                       o \in ToSet(readyAt) \/ (rem[o] > 0 /\ remaining'[o] = 0)
<1> DEFINE news == MadeReady(slots, rem, 0) \ ToSet(readyAt)
           out(o) == {s \in Finished(slots, 0) : slots[s].task.order = o}
           place == [o \in news |-> Max(out(o))]
<1>1. /\ SlotsType(slots') /\ QueueType(queue') /\ Distinct(slots', queue')
      /\ Counted(slots', queue', remaining')
      /\ remaining' \in [Orders -> Nat]
      /\ TasksOn(slots') \cup queue' \subseteq TasksOn(slots) \cup q
  <2>1. 0 \in Int
    OBVIOUS
  <2> QED BY <2>1, TickKeeps DEF TickAndAccount
<1>2. /\ readyAt' = readyAt \o InOrder(news, place)
      /\ baked' = [o \in Orders |-> baked[o] + DoneUnits(slots, 0, o)]
      /\ remaining' = Accounted(slots, rem, 0)
  BY DEF TickAndAccount
<1>3. \A o \in Orders : DoneUnits(slots, 0, o) \in 0..rem[o]
  <2>1. 0 \in Int
    OBVIOUS
  <2> QED BY <2>1, ClearCounts
<1>4. ASSUME NEW o \in Orders
      PROVE  /\ remaining'[o] = rem[o] - DoneUnits(slots, 0, o)
             /\ baked'[o] = baked[o] + DoneUnits(slots, 0, o)
             /\ DoneUnits(slots, 0, o) \in Nat /\ rem[o] \in Nat /\ baked[o] \in Nat
             /\ o \in MadeReady(slots, rem, 0) <=> rem[o] > 0 /\ remaining'[o] = 0
  <2>1. remaining'[o] = IF DoneUnits(slots, 0, o) >= rem[o]
                        THEN 0 ELSE rem[o] - DoneUnits(slots, 0, o)
    BY <1>2 DEF Accounted
  <2>2. o \in MadeReady(slots, rem, 0) <=> rem[o] > 0 /\ DoneUnits(slots, 0, o) >= rem[o]
    BY DEF MadeReady
  <2>3. baked'[o] = baked[o] + DoneUnits(slots, 0, o)
    BY <1>2
  <2>4. DoneUnits(slots, 0, o) \in 0..rem[o] /\ rem[o] \in Nat /\ baked[o] \in Nat
    BY <1>3
  <2> QED BY <2>1, <2>2, <2>3, <2>4
<1>5. ASSUME NEW o \in news
      PROVE  /\ o \in OrdersOnTrays(slots)
             /\ Max(out(o)) \in out(o)
  <2>1. o \in Orders /\ DoneUnits(slots, 0, o) >= rem[o] /\ rem[o] > 0 /\ rem[o] \in Nat
    BY DEF MadeReady
  <2>2. DoneUnits(slots, 0, o) # 0
    BY <1>3, <2>1
  <2>3. out(o) # {}
    BY <2>2, FS_EmptySet DEF DoneUnits
  <2>4. out(o) \subseteq Int /\ IsFiniteSet(out(o)) /\ out(o) \subseteq BusySlots(slots)
    <3>1. out(o) \subseteq BusySlots(slots)
      BY DEF Finished
    <3>2. BusySlots(slots) \subseteq Int
      BY Trays DEF BusySlots
    <3> HIDE DEF out
    <3> QED BY <3>1, <3>2, TasksFinite, FS_Subset
  <2>5. \A s \in out(o) : slots[s].task.order = o
    OBVIOUS
  <2> HIDE DEF out, news
  <2>6. Max(out(o)) \in out(o)
    BY <2>3, <2>4, GreatestMember
  <2> QED BY <2>4, <2>5, <2>6 DEF OrdersOnTrays
<1>6. IsFiniteSet(news) /\ news \subseteq Orders
  <2>1. news \subseteq OrdersOnTrays(slots)
    BY <1>5
  <2> HIDE DEF news
  <2> QED BY <2>1, OrdersOnTraysFinite, FS_Subset
<1>7. /\ \A o \in news : place[o] \in Int
      /\ \A o, p \in news : place[o] = place[p] => o = p
  <2>1. \A o \in news : place[o] \in out(o)
    BY <1>5
  <2>2. \A o : out(o) \subseteq Int
    BY Trays DEF Finished, BusySlots
  <2>3. \A o, p : \A s \in out(o) \cap out(p) : o = p
    OBVIOUS
  <2> HIDE DEF out, place, news
  <2> QED BY <2>1, <2>2, <2>3
<1> HIDE DEF place, news
<1>8. InOrder(news, place) \in Seq(Orders) /\ ToSet(InOrder(news, place)) = news
  <2>1. /\ InOrder(news, place) \in [1..Cardinality(news) -> news]
        /\ InOrder(news, place) \in Seq(news)
    BY <1>6, <1>7, InOrderLists
  <2>2. \A o \in news : \E k \in 1..Cardinality(news) : InOrder(news, place)[k] = o
    BY <1>6, <1>7, InOrderLists
  <2>3. ToSet(InOrder(news, place)) = news
    BY <2>1, <2>2 DEF ToSet
  <2> QED BY <1>6, <2>1, <2>3
<1>9. readyAt' \in Seq(Orders) /\ ToSet(readyAt') = ToSet(readyAt) \cup news
  BY <1>2, <1>8, MembersOfBoth
<1>10. baked' \in [Orders -> Nat]
  BY <1>2, <1>4
<1>11. ASSUME NEW o \in Orders
       PROVE  /\ baked'[o] + remaining'[o] = baked[o] + rem[o]
              /\ baked'[o] >= baked[o]
              /\ o \in ToSet(readyAt') <=>
                    o \in ToSet(readyAt) \/ (rem[o] > 0 /\ remaining'[o] = 0)
  <2>1. baked'[o] + remaining'[o] = baked[o] + rem[o] /\ baked'[o] >= baked[o]
    BY <1>4
  <2>2. o \in ToSet(readyAt') <=> o \in ToSet(readyAt) \/ o \in MadeReady(slots, rem, 0)
    BY <1>9 DEF news
  <2> QED BY <1>4, <2>1, <2>2
<1> QED BY <1>1, <1>9, <1>10, <1>11

-----------------------------------------------------------------------------
(* What each step does to the kitchen.                                     *)

\* The kitchen alone: KitchenEngine's conservation of units.
KitchenInv ==
    /\ SlotsType(slots)
    /\ QueueType(queue)
    /\ seq \in Nat
    /\ remaining \in [Orders -> Nat]
    /\ readyAt \in Seq(Orders)
    /\ baked \in [Orders -> Nat]
    /\ Distinct(slots, queue)
    /\ Counted(slots, queue, remaining)
    /\ \A t \in TasksOn(slots) \cup queue : t.seq < seq

\* A step that ticks, after n more units of an order were pushed.
Took(o, n) ==
    /\ baked'[o] + remaining'[o] = baked[o] + remaining[o] + n
    /\ baked'[o] >= baked[o]
    /\ o \in ToSet(readyAt') <=>
          o \in ToSet(readyAt) \/ (remaining[o] + n > 0 /\ remaining'[o] = 0)

LEMMA TickStep ==
    ASSUME KitchenInv, TickAndAccount(queue, remaining), UNCHANGED seq
    PROVE  /\ KitchenInv'
           /\ \A o \in Orders : Took(o, 0)
           /\ InKitchen' \subseteq InKitchen
<1>1. /\ SlotsType(slots') /\ QueueType(queue') /\ Distinct(slots', queue')
      /\ Counted(slots', queue', remaining')
      /\ remaining' \in [Orders -> Nat]
      /\ TasksOn(slots') \cup queue' \subseteq TasksOn(slots) \cup queue
      /\ readyAt' \in Seq(Orders)
      /\ baked' \in [Orders -> Nat]
      /\ \A o \in Orders :
            /\ baked'[o] + remaining'[o] = baked[o] + remaining[o]
            /\ baked'[o] >= baked[o]
            /\ o \in ToSet(readyAt') <=>
                  o \in ToSet(readyAt) \/ (remaining[o] > 0 /\ remaining'[o] = 0)
  BY TickBakes DEF KitchenInv
<1>2. \A t \in TasksOn(slots') \cup queue' : t.seq < seq'
  BY <1>1 DEF KitchenInv
<1>3. KitchenInv'
  BY <1>1, <1>2 DEF KitchenInv
<1>4. ASSUME NEW o \in Orders PROVE Took(o, 0)
  <2>1. baked[o] + remaining[o] + 0 = baked[o] + remaining[o] /\ remaining[o] + 0 = remaining[o]
    BY DEF KitchenInv
  <2> QED BY <1>1, <2>1 DEF Took
<1> QED BY <1>1, <1>3, <1>4 DEF InKitchen, TasksOn

LEMMA EnqueueStep ==
    ASSUME KitchenInv, NEW o \in Orders, EngineEnqueue(o)
    PROVE  /\ KitchenInv'
           /\ \A p \in Orders : Took(p, IF p = o THEN Units[o] ELSE 0)
           /\ \A t \in InKitchen' : t \in InKitchen \/ t.order = o
<1> DEFINE specs == OrderSpecs(o)
           q == queue \cup NewTasks(o, specs, seq)
           rem == [remaining EXCEPT ![o] = @ + Len(specs)]
<1>1. specs \in Seq(PriorityLevel \X (Nat \ {0})) /\ Len(specs) = Units[o]
  <2>1. Units[o] \in Nat /\ Priority[o] \in PriorityLevel
    BY BakeryAssumption
  <2>2. specs \in [1..Units[o] -> PriorityLevel \X (Nat \ {0})]
    BY <2>1 DEF OrderSpecs
  <2> HIDE DEF specs
  <2> QED BY <2>1, <2>2
<1> HIDE DEF specs
<1>2. /\ QueueType(q) /\ Distinct(slots, q)
      /\ rem \in [Orders -> Nat] /\ Counted(slots, q, rem)
      /\ seq + Len(specs) \in Nat
      /\ \A t \in TasksOn(slots) \cup q : t.seq < seq + Len(specs)
  BY <1>1, PushKeeps DEF KitchenInv
<1>3. \A t \in NewTasks(o, specs, seq) : t.order = o
  BY <1>1, NewTasksAreNew DEF KitchenInv
<1>4. TickAndAccount(q, rem) /\ seq' = seq + Len(specs)
  BY <1>1 DEF EngineEnqueue, specs
<1>5. \A t \in TasksOn(slots) \cup q : t \in TasksOn(slots) \cup queue \/ t.order = o
  BY <1>3
<1>6. ASSUME NEW p \in Orders
      PROVE  rem[p] = remaining[p] + (IF p = o THEN Units[o] ELSE 0)
  <2>1. remaining[p] \in Nat /\ remaining \in [Orders -> Nat]
    BY DEF KitchenInv
  <2> QED BY <1>1, <2>1
<1> HIDE DEF q, rem
<1>7. /\ SlotsType(slots') /\ QueueType(queue') /\ Distinct(slots', queue')
      /\ Counted(slots', queue', remaining')
      /\ remaining' \in [Orders -> Nat]
      /\ TasksOn(slots') \cup queue' \subseteq TasksOn(slots) \cup q
      /\ readyAt' \in Seq(Orders)
      /\ baked' \in [Orders -> Nat]
      /\ \A p \in Orders :
            /\ baked'[p] + remaining'[p] = baked[p] + rem[p]
            /\ baked'[p] >= baked[p]
            /\ p \in ToSet(readyAt') <=>
                  p \in ToSet(readyAt) \/ (rem[p] > 0 /\ remaining'[p] = 0)
  BY <1>2, <1>4, TickBakes DEF KitchenInv
<1>8. \A t \in TasksOn(slots') \cup queue' : t.seq < seq'
  BY <1>2, <1>4, <1>7
<1>9. KitchenInv'
  BY <1>2, <1>4, <1>7, <1>8 DEF KitchenInv
<1>10. ASSUME NEW p \in Orders PROVE Took(p, IF p = o THEN Units[o] ELSE 0)
  <2> DEFINE n == IF p = o THEN Units[o] ELSE 0
  <2>0. Units[o] \in Nat
    BY BakeryAssumption
  <2>1. n \in Nat /\ baked[p] \in Nat /\ remaining[p] \in Nat
    BY <2>0 DEF KitchenInv
  <2>2. rem[p] = remaining[p] + n
    BY <1>6
  <2> HIDE DEF n
  <2>3. baked[p] + rem[p] = baked[p] + remaining[p] + n
    BY <2>1, <2>2
  <2>4. Took(p, n)
    BY <1>7, <2>2, <2>3 DEF Took
  <2> QED BY <2>4 DEF n
<1> QED BY <1>5, <1>7, <1>9, <1>10 DEF InKitchen, TasksOn

\* The end of a bake moves no unit.
LEMMA ElapseStep ==
    ASSUME KitchenInv, NEW s \in Slots, BakeElapses(s)
    PROVE  KitchenInv' /\ InKitchen' = InKitchen
<1>1. s \in BusySlots(slots) /\ slots' = [slots EXCEPT ![s].finish_at = 0]
      /\ UNCHANGED <<queue, seq, remaining, readyAt, baked>>
  BY DEF BakeElapses
<1>2. slots[s] \in Baking /\ \A r \in Slots : slots[r] \in Baking \cup {NoTask}
  BY <1>1 DEF KitchenInv, SlotsType, BusySlots, FreeSlots
<1>3. slots'[s] = [slots[s] EXCEPT !.finish_at = 0] /\ \A r \in Slots \ {s} : slots'[r] = slots[r]
  BY <1>1 DEF KitchenInv, SlotsType
<1>4. slots'[s] \in Baking /\ slots'[s].task = slots[s].task
  BY <1>2, <1>3 DEF Baking
<1>5. SlotsType(slots')
  <2>1. \A r \in Slots : slots'[r] \in Baking \cup {NoTask}
    BY <1>2, <1>3, <1>4
  <2> QED BY <1>1, <2>1 DEF SlotsType, KitchenInv
<1>6. BusySlots(slots') = BusySlots(slots)
  BY <1>1, <1>3, <1>4, KitchenAssumption DEF BusySlots, FreeSlots
<1>7. \A r \in BusySlots(slots) : slots'[r].task = slots[r].task
  BY <1>3, <1>4 DEF BusySlots
<1>8. TasksOn(slots') = TasksOn(slots)
  BY <1>6, <1>7 DEF TasksOn
<1>9. Distinct(slots', queue') /\ Counted(slots', queue', remaining')
  <2>1. Distinct(slots, queue) /\ Counted(slots, queue, remaining)
    BY DEF KitchenInv
  <2>2. \A a, b \in BusySlots(slots') : slots'[a].task = slots'[b].task => a = b
    BY <1>6, <1>7, <2>1 DEF Distinct
  <2> QED BY <1>1, <1>8, <2>1, <2>2 DEF Distinct, Counted, UnitsOf
<1> QED BY <1>1, <1>5, <1>8, <1>9 DEF KitchenInv, InKitchen, TasksOn

\* A kitchen with nothing in it.
LEMMA EmptyKitchen ==
    ASSUME NEW sl, NEW rem, sl = [s \in Slots |-> NoTask], rem = [o \in Orders |-> 0]
    PROVE  /\ SlotsType(sl) /\ QueueType({}) /\ BusySlots(sl) = {} /\ TasksOn(sl) = {}
           /\ Distinct(sl, {}) /\ Counted(sl, {}, rem) /\ rem \in [Orders -> Nat]
<1>1. BusySlots(sl) = {}
  BY DEF BusySlots, FreeSlots
<1>2. TasksOn(sl) = {}
  BY <1>1 DEF TasksOn
<1>3. SlotsType(sl)
  BY DEF SlotsType
<1>4. QueueType({}) /\ Cardinality({}) = 0
  BY FS_EmptySet DEF QueueType
<1>5. Counted(sl, {}, rem)
  <2>1. \A o \in Orders : UnitsOf(o, sl, {}) = {}
    BY <1>2 DEF UnitsOf
  <2> QED BY <1>4, <2>1 DEF Counted
<1>6. Distinct(sl, {})
  BY <1>1, <1>2 DEF Distinct
<1> QED BY <1>1, <1>2, <1>3, <1>4, <1>5, <1>6

\* The transitions to write are of orders, and READY for the ones that are.
PendingOK ==
    /\ PendingTransitions \in Seq(Transition)
    /\ \A i \in DOMAIN PendingTransitions :
          PendingTransitions[i].status = "ready" =>
             PendingTransitions[i].order \in ToSet(readyAt)

LEMMA PendingAreTransitions == KitchenInv => PendingOK
<1> SUFFICES ASSUME KitchenInv PROVE PendingOK
  OBVIOUS
<1> DEFINE on == OrdersOnTrays(slots)
           ready == ToSet(readyAt)
           news == {o \in ready : persisted[o] # "ready"}
                   \cup {o \in on \ ready : persisted[o] = "none"}
           at(o) == {i \in DOMAIN readyAt : readyAt[i] = o}
           place == [o \in news |-> IF o \in on THEN Least(TraysOf(slots, o))
                                    ELSE Cardinality(Slots) + Least(at(o))]
<1>1. /\ IsFiniteSet(on) /\ on \subseteq Orders
      /\ \A o \in on : Least(TraysOf(slots, o)) \in 1..Cardinality(Slots)
      /\ \A o \in on : Least(TraysOf(slots, o)) \in TraysOf(slots, o)
      /\ \A o, p : \A s \in TraysOf(slots, o) \cap TraysOf(slots, p) : o = p
      /\ Cardinality(Slots) \in Nat
  BY OrdersOnTraysFinite, Trays DEF KitchenInv
<1>2. \A o, p \in on : Least(TraysOf(slots, o)) = Least(TraysOf(slots, p)) => o = p
  BY <1>1
<1>3. readyAt \in Seq(Orders)
  BY DEF KitchenInv
<1>4. IsFiniteSet(ready) /\ ready \subseteq Orders
      /\ ready = {readyAt[i] : i \in 1..Len(readyAt)}
  BY <1>3, MembersFinite
<1>5. ASSUME NEW o \in ready
      PROVE  Least(at(o)) \in at(o) /\ Least(at(o)) \in Nat /\ Least(at(o)) > 0
  <2>1. DOMAIN readyAt = 1..Len(readyAt)
    BY <1>3
  <2>2. at(o) # {}
    BY <1>4, <2>1
  <2>3. at(o) \subseteq Nat \ {0}
    BY <2>1
  <2> HIDE DEF at
  <2>4. Least(at(o)) \in at(o)
    BY <2>2, <2>3, LeastMember
  <2> QED BY <2>3, <2>4
<1>6. \A o, p : \A i \in at(o) \cap at(p) : o = p
  OBVIOUS
<1>7. IsFiniteSet(news) /\ news \subseteq Orders /\ news \subseteq ready \cup on
  <2>1. IsFiniteSet(ready \cup on)
    BY <1>1, <1>4, FS_Union
  <2>2. news \in SUBSET (ready \cup on)
    OBVIOUS
  <2> HIDE DEF on, ready, news
  <2> QED BY <1>1, <1>4, <2>1, <2>2, FS_Subset
<1>8. \A o \in news : place[o] = IF o \in on THEN Least(TraysOf(slots, o))
                                 ELSE Cardinality(Slots) + Least(at(o))
  OBVIOUS
<1> HIDE DEF on, ready, news, at, place
<1>9. \A o \in news : place[o] \in Int
  <2> SUFFICES ASSUME NEW o \in news PROVE place[o] \in Int
    OBVIOUS
  <2>1. CASE o \in on
    BY <1>1, <1>8, <2>1
  <2>2. CASE o \notin on
    <3>1. Least(at(o)) \in Nat
      BY <1>5, <1>7, <2>2
    <3> QED BY <1>1, <1>8, <2>2, <3>1
  <2> QED BY <2>1, <2>2
<1>10. ASSUME NEW o \in news, NEW p \in news, place[o] = place[p] PROVE o = p
  <2>1. CASE o \in on /\ p \in on
    BY <1>2, <1>8, <1>10, <2>1
  <2>2. CASE o \notin on /\ p \notin on
    <3>1. /\ Least(at(o)) \in at(o) /\ Least(at(o)) \in Nat
          /\ Least(at(p)) \in at(p) /\ Least(at(p)) \in Nat
      BY <1>5, <1>7, <2>2
    <3>2. Least(at(o)) = Least(at(p))
      BY <1>1, <1>8, <1>10, <2>2, <3>1
    <3> QED BY <1>6, <3>1, <3>2
  <2>3. CASE o \in on /\ p \notin on
    <3>1. Least(at(p)) \in Nat /\ Least(at(p)) > 0
      BY <1>5, <1>7, <2>3
    <3> QED BY <1>1, <1>8, <1>10, <2>3, <3>1
  <2>4. CASE o \notin on /\ p \in on
    <3>1. Least(at(o)) \in Nat /\ Least(at(o)) > 0
      BY <1>5, <1>7, <2>4
    <3> QED BY <1>1, <1>8, <1>10, <2>4, <3>1
  <2> QED BY <2>1, <2>2, <2>3, <2>4
<1>11. /\ Cardinality(news) \in Nat
       /\ InOrder(news, place) \in [1..Cardinality(news) -> news]
  BY <1>7, <1>9, <1>10, InOrderLists
<1> DEFINE n == Cardinality(news)
           listed == InOrder(news, place)
           pending == [i \in 1..n |->
                         [order |-> listed[i],
                          status |-> IF listed[i] \in ready THEN "ready" ELSE "baking"]]
<1>12. PendingTransitions = pending
  BY DEF PendingTransitions, pending, listed, n, news, place, on, ready, at
<1> HIDE DEF n, listed
<1>13. n \in Nat /\ \A i \in 1..n : listed[i] \in Orders
  BY <1>7, <1>11 DEF n, listed
<1>14. pending \in [1..n -> Transition]
  BY <1>13 DEF Transition
<1>15. pending \in Seq(Transition)
  <2> HIDE DEF pending
  <2> QED BY <1>13, <1>14
<1>16. \A i \in DOMAIN pending : pending[i].status = "ready" => pending[i].order \in ready
  OBVIOUS
<1> QED BY <1>12, <1>15, <1>16 DEF PendingOK, ready

=============================================================================
