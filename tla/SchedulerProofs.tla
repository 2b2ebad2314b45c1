--------------------------- MODULE SchedulerProofs ---------------------------
(***************************************************************************)
(* What a tick does to the units in the kitchen, for every number of       *)
(* slots, every queue and every clock: the lemmas that the invariants of   *)
(* the modules built on Scheduler rest on.                                 *)
(***************************************************************************)
EXTENDS Scheduler, FiniteSetTheorems, TLAPS

TasksOn(sl) == {sl[s].task : s \in BusySlots(sl)}

\* Each unit in the kitchen is there once, and can be told from the others by
\* its sequence number.
Distinct(sl, q) ==
    /\ \A s, r \in BusySlots(sl) : sl[s].task = sl[r].task => s = r
    /\ TasksOn(sl) \cap q = {}
    /\ \A t, u \in TasksOn(sl) \cup q : t.seq = u.seq => t = u

UnitsOf(o, sl, q) == {t \in TasksOn(sl) \cup q : t.order = o}

Counted(sl, q, rem) == \A o \in Orders : rem[o] = Cardinality(UnitsOf(o, sl, q))

SlotsType(sl) == sl \in [Slots -> Baking \cup {NoTask}]
QueueType(q) == q \subseteq BakeTask /\ IsFiniteSet(q)

-----------------------------------------------------------------------------
(* Counting along an order.                                                *)

StrictOrder(S, R) ==
    /\ \A x \in S : <<x, x>> \notin R
    /\ \A x, y, z \in S : <<x, y>> \in R /\ <<y, z>> \in R => <<x, z>> \in R
    /\ \A x, y \in S : x # y => <<x, y>> \in R \/ <<y, x>> \in R

CountBelow(S, R) == [x \in S |-> Cardinality({y \in S : <<y, x>> \in R})]

\* f numbers the elements of S from 0 on, each number once.
Numbers(S, f) ==
    /\ Cardinality(S) \in Nat
    /\ \A x \in S : f[x] \in 0..(Cardinality(S) - 1)
    /\ \A x, y \in S : f[x] = f[y] => x = y
    /\ \A k \in 0..(Cardinality(S) - 1) : \E x \in S : f[x] = k

\* In a finite set under a strict total order, the number of elements below an
\* element numbers the elements.
LEMMA CountingBelow ==
    ASSUME NEW S, IsFiniteSet(S), NEW R, StrictOrder(S, R)
    PROVE  Numbers(S, CountBelow(S, R))
<1> DEFINE B(x) == {y \in S : <<y, x>> \in R}
           below == CountBelow(S, R)
<1>1. Cardinality(S) \in Nat
  BY FS_CardinalityType
<1>2. ASSUME NEW x \in S
      PROVE  IsFiniteSet(B(x)) /\ Cardinality(B(x)) \in 0..(Cardinality(S) - 1)
  <2>1. B(x) \in SUBSET (S \ {x})
    BY DEF StrictOrder
  <2>2. IsFiniteSet(S \ {x}) /\ Cardinality(S \ {x}) = Cardinality(S) - 1
    BY FS_RemoveElement
  <2> HIDE DEF B
  <2>3. IsFiniteSet(B(x)) /\ Cardinality(B(x)) <= Cardinality(S \ {x})
    BY <2>1, <2>2, FS_Subset
  <2>4. Cardinality(B(x)) \in Nat
    BY <2>3, FS_CardinalityType
  <2> QED BY <1>1, <2>2, <2>3, <2>4
<1>3. \A x \in S : below[x] = Cardinality(B(x))
  BY DEF CountBelow
<1>4. \A x \in S : below[x] \in 0..(Cardinality(S) - 1)
  BY <1>2, <1>3
<1>5. ASSUME NEW x \in S, NEW y \in S, <<x, y>> \in R
      PROVE  below[x] # below[y]
  <2>1. B(x) \in SUBSET B(y)
    BY <1>5 DEF StrictOrder
  <2>2. x \in B(y) /\ x \notin B(x)
    BY <1>5 DEF StrictOrder
  <2>3. IsFiniteSet(B(y))
    BY <1>2
  <2> HIDE DEF B
  <2>4. Cardinality(B(y)) # Cardinality(B(x))
    BY <2>1, <2>2, <2>3, FS_Subset
  <2> QED BY <2>4, <1>3
<1>6. \A x, y \in S : below[x] = below[y] => x = y
  BY <1>5 DEF StrictOrder
<1>7. ASSUME NEW k \in 0..(Cardinality(S) - 1)
      PROVE  \E x \in S : below[x] = k
  <2> DEFINE T == 0..(Cardinality(S) - 1)
  <2>1. below \in [S -> T]
    BY <1>4 DEF CountBelow
  <2>2. below \in Injection(S, T)
    BY <2>1, <1>6 DEF Injection, IsInjective
  <2>3. IsFiniteSet(T) /\ Cardinality(T) = Cardinality(S)
    <3>1. 0 \in Int /\ Cardinality(S) - 1 \in Int
      BY <1>1
    <3>2. IsFiniteSet(T)
          /\ Cardinality(T) = IF 0 > Cardinality(S) - 1 THEN 0
                              ELSE Cardinality(S) - 1 - 0 + 1
      BY <3>1, FS_Interval
    <3> QED BY <3>2, <1>1
  <2> HIDE DEF T, below
  <2>4. below \in Surjection(S, T)
    BY <2>2, <2>3, FS_Injection
  <2>5. k \in T
    BY <1>7 DEF T
  <2> QED BY <2>4, <2>5 DEF Surjection
<1> QED BY <1>1, <1>4, <1>6, <1>7 DEF Numbers

\* A finite set that is not empty has a first member.
LEMMA FirstMember ==
    ASSUME NEW S, IsFiniteSet(S), S # {}, NEW R, StrictOrder(S, R)
    PROVE  \E x \in S : \A y \in S : <<y, x>> \notin R
<1>1. Numbers(S, CountBelow(S, R))
  BY CountingBelow
<1>2. Cardinality(S) \in Nat /\ Cardinality(S) # 0
  BY FS_CardinalityType, FS_EmptySet
<1>3. PICK x \in S : CountBelow(S, R)[x] = 0
  BY <1>1, <1>2 DEF Numbers
<1>4. {y \in S : <<y, x>> \in R} = {}
  <2>1. IsFiniteSet({y \in S : <<y, x>> \in R})
    BY FS_Subset
  <2>2. Cardinality({y \in S : <<y, x>> \in R}) = 0
    BY <1>3 DEF CountBelow
  <2> QED BY <2>1, <2>2, FS_EmptySet
<1> QED BY <1>4

\* Trays are numbered from 1 up to how many there are.
LEMMA Trays ==
    /\ Slots \subseteq Nat /\ Slots \subseteq Int
    /\ IsFiniteSet(Slots)
    /\ Cardinality(Slots) \in Nat
    /\ \A s \in Slots : 1 <= s /\ s <= Cardinality(Slots)
<1> DEFINE n == OVENS * TRAYS_PER_OVEN
<1>1. n \in Nat
  BY KitchenAssumption
<1> HIDE DEF n
<1>2. 1 \in Int /\ n \in Int
  BY <1>1
<1>3. IsFiniteSet(1..n) /\ Cardinality(1..n) = IF 1 > n THEN 0 ELSE n - 1 + 1
  BY <1>2, FS_Interval
<1>4. Cardinality(1..n) = n
  BY <1>1, <1>3
<1>5. Slots = 1..n
  BY DEF Slots, n
<1> QED BY <1>1, <1>3, <1>4, <1>5

\* There is a tray.
LEMMA TraysExist == Slots # {}
<1>1. \A a, b \in Nat \ {0} : a * b \in Nat \ {0}
  OBVIOUS
<1>2. OVENS * TRAYS_PER_OVEN \in Nat \ {0}
  BY <1>1, KitchenAssumption
<1> DEFINE n == OVENS * TRAYS_PER_OVEN
<1>3. n \in Nat \ {0}
  BY <1>2
<1> HIDE DEF n
<1>4. 1 \in 1..n
  BY <1>3
<1> QED BY <1>4 DEF Slots, n

\* The heap: ranks number the entries in the order they are popped.
LEMMA RankNumbers ==
    ASSUME NEW q, QueueType(q), \A t, u \in q : t.seq = u.seq => t = u
    PROVE  /\ Cardinality(q) \in Nat
           /\ \A t \in q : Rank(q, t) \in 0..(Cardinality(q) - 1)
           /\ \A t, u \in q : Rank(q, t) = Rank(q, u) => t = u
           /\ \A k \in 0..(Cardinality(q) - 1) :
                 Ranked(q, k) \in q /\ Rank(q, Ranked(q, k)) = k
<1> DEFINE R == {p \in q \X q : Precedes(p[1], p[2])}
<1>1. \A t \in q : t.priority \in 1..3 /\ t.seq \in Nat
  BY DEF QueueType, BakeTask, PriorityLevel, VIP, APP, WALK_IN
<1>2. \A t, u \in q : <<t, u>> \in R <=> Precedes(t, u)
  OBVIOUS
<1> HIDE DEF R
<1>3. StrictOrder(q, R)
  BY <1>1, <1>2 DEF StrictOrder, Precedes
<1>4. ASSUME NEW t \in q PROVE CountBelow(q, R)[t] = Rank(q, t)
  <2>1. {u \in q : <<u, t>> \in R} = {u \in q : Precedes(u, t)}
    BY <1>2
  <2> QED BY <2>1 DEF Rank, CountBelow
<1>5. Numbers(q, CountBelow(q, R))
  BY <1>3, CountingBelow DEF QueueType
<1>6. \A k \in 0..(Cardinality(q) - 1) : \E t \in q : Rank(q, t) = k
  BY <1>4, <1>5 DEF Numbers
<1>7. \A k \in 0..(Cardinality(q) - 1) :
         Ranked(q, k) \in q /\ Rank(q, Ranked(q, k)) = k
  BY <1>6 DEF Ranked
<1> QED BY <1>4, <1>5, <1>7 DEF Numbers

\* The idle slots: turns number them in list order.
LEMMA TurnNumbers ==
    ASSUME NEW sl
    PROVE  /\ IsFiniteSet(FreeSlots(sl)) /\ Cardinality(FreeSlots(sl)) \in Nat
           /\ \A s \in FreeSlots(sl) : Turn(sl, s) \in 0..(Cardinality(FreeSlots(sl)) - 1)
           /\ \A s, r \in FreeSlots(sl) : Turn(sl, s) = Turn(sl, r) => s = r
           /\ \A k \in 0..(Cardinality(FreeSlots(sl)) - 1) :
                 \E s \in FreeSlots(sl) : Turn(sl, s) = k
<1> DEFINE F == FreeSlots(sl)
           R == {p \in F \X F : p[1] < p[2]}
<1>1. Slots \subseteq Int /\ IsFiniteSet(Slots)
  BY KitchenAssumption, FS_Interval DEF Slots
<1>2. F \subseteq Int /\ IsFiniteSet(F)
  BY <1>1, FS_Subset DEF FreeSlots
<1>3. \A s, r \in F : <<s, r>> \in R <=> s < r
  OBVIOUS
<1> HIDE DEF R
<1>4. ASSUME NEW s \in F PROVE CountBelow(F, R)[s] = Turn(sl, s)
  <2>1. {r \in F : <<r, s>> \in R} = {r \in F : r < s}
    BY <1>3
  <2> QED BY <2>1 DEF Turn, CountBelow
<1> HIDE DEF F
<1>5. StrictOrder(F, R)
  BY <1>2, <1>3 DEF StrictOrder
<1>6. Numbers(F, CountBelow(F, R))
  BY <1>2, <1>5, CountingBelow
<1>7. /\ IsFiniteSet(F) /\ Cardinality(F) \in Nat
      /\ \A s \in F : Turn(sl, s) \in 0..(Cardinality(F) - 1)
      /\ \A s, r \in F : Turn(sl, s) = Turn(sl, r) => s = r
      /\ \A k \in 0..(Cardinality(F) - 1) : \E s \in F : Turn(sl, s) = k
  BY <1>2, <1>4, <1>6 DEF Numbers
<1> QED BY <1>7 DEF F

-----------------------------------------------------------------------------
(* _fill_free_slots.                                                       *)

\* Every slot that is filled gets an entry of its own, of the rank of its turn;
\* the entries popped are the ones of rank below the number of idle slots; and
\* an entry is left in the queue only when no slot is left idle.
LEMMA FillMoves ==
    ASSUME NEW sl, NEW q, NEW n \in Int,
           SlotsType(sl), QueueType(q), Distinct(sl, q)
    PROVE  LET sl2 == FilledSlots(sl, q, n)
               q2 == LeftInQueue(sl, q)
           IN  /\ SlotsType(sl2)
               /\ QueueType(q2)
               /\ \A s \in BusySlots(sl) : sl2[s] = sl[s]
               /\ \A s \in FreeSlots(sl) \cap BusySlots(sl2) :
                     /\ sl2[s] = StartBaking(sl2[s].task, n)
                     /\ sl2[s].task \in q
                     /\ \A u \in q2 : Rank(q, sl2[s].task) < Rank(q, u)
               /\ TasksOn(sl2) \cup q2 = TasksOn(sl) \cup q
               /\ Distinct(sl2, q2)
               /\ q2 # {} => FreeSlots(sl2) = {}
<1> DEFINE F == FreeSlots(sl)
           sl2 == FilledSlots(sl, q, n)
           q2 == LeftInQueue(sl, q)
           G == {s \in F : Turn(sl, s) < Cardinality(q)}
<1>1. \A t, u \in q : t.seq = u.seq => t = u
  BY DEF Distinct
<1>2. /\ Cardinality(q) \in Nat
      /\ \A t \in q : Rank(q, t) \in 0..(Cardinality(q) - 1)
      /\ \A t, u \in q : Rank(q, t) = Rank(q, u) => t = u
      /\ \A k \in 0..(Cardinality(q) - 1) : Ranked(q, k) \in q /\ Rank(q, Ranked(q, k)) = k
  BY <1>1, RankNumbers
<1>3. /\ Cardinality(F) \in Nat
      /\ \A s \in F : Turn(sl, s) \in 0..(Cardinality(F) - 1)
      /\ \A s, r \in F : Turn(sl, s) = Turn(sl, r) => s = r
      /\ \A k \in 0..(Cardinality(F) - 1) : \E s \in F : Turn(sl, s) = k
  BY TurnNumbers
<1>4. ASSUME NEW s \in G
      PROVE  /\ Ranked(q, Turn(sl, s)) \in q
             /\ Rank(q, Ranked(q, Turn(sl, s))) = Turn(sl, s)
             /\ sl2[s] = StartBaking(Ranked(q, Turn(sl, s)), n)
  <2>1. Turn(sl, s) \in 0..(Cardinality(q) - 1)
    BY <1>2, <1>3
  <2>2. sl2[s] = StartBaking(Ranked(q, Turn(sl, s)), n)
    BY DEF FilledSlots, FreeSlots
  <2> QED BY <2>1, <2>2, <1>2
<1>5. \A s \in Slots \ G : sl2[s] = sl[s]
  BY DEF FilledSlots
<1>6. \A t \in q : StartBaking(t, n) \in Baking /\ StartBaking(t, n).task = t
  BY DEF QueueType, StartBaking, Baking, BakeTask
<1>7. SlotsType(sl2)
  <2>1. \A s \in Slots : sl2[s] \in Baking \cup {NoTask}
    BY <1>4, <1>5, <1>6 DEF SlotsType
  <2> QED BY <2>1 DEF SlotsType, FilledSlots
<1>8. QueueType(q2)
  BY FS_Subset DEF QueueType, LeftInQueue
<1>9. BusySlots(sl2) = BusySlots(sl) \cup G
  BY <1>4, <1>5, <1>6, KitchenAssumption DEF BusySlots, FreeSlots
<1>10. \A s \in BusySlots(sl) : sl2[s] = sl[s]
  BY <1>5 DEF BusySlots
<1>11. \A s \in G : sl2[s].task = Ranked(q, Turn(sl, s)) /\ sl2[s].task \in q
                    /\ Rank(q, sl2[s].task) = Turn(sl, s)
                    /\ sl2[s] = StartBaking(sl2[s].task, n)
  BY <1>4, <1>6
<1>12. \A t \in q : t \in q2 <=> Rank(q, t) >= Cardinality(F)
  BY DEF LeftInQueue
<1>13. \A s \in F \cap BusySlots(sl2) :
          /\ sl2[s] = StartBaking(sl2[s].task, n)
          /\ sl2[s].task \in q
          /\ \A u \in q2 : Rank(q, sl2[s].task) < Rank(q, u)
  <2> SUFFICES ASSUME NEW s \in F \cap BusySlots(sl2)
               PROVE  /\ sl2[s] = StartBaking(sl2[s].task, n)
                      /\ sl2[s].task \in q
                      /\ \A u \in q2 : Rank(q, sl2[s].task) < Rank(q, u)
    OBVIOUS
  <2>1. s \in G
    BY <1>9 DEF BusySlots
  <2>2. Turn(sl, s) < Cardinality(F) /\ Turn(sl, s) \in Int
    BY <1>3
  <2>3. \A u \in q2 : u \in q /\ Rank(q, u) >= Cardinality(F) /\ Rank(q, u) \in Int
    BY <1>2 DEF LeftInQueue
  <2> HIDE DEF q2, sl2, F, G
  <2> QED BY <2>1, <2>2, <2>3, <1>3, <1>11
<1>14. \A t \in q \ q2 : \E s \in G : sl2[s].task = t
  <2> SUFFICES ASSUME NEW t \in q \ q2 PROVE \E s \in G : sl2[s].task = t
    OBVIOUS
  <2>1. Rank(q, t) \in 0..(Cardinality(F) - 1) /\ Rank(q, t) < Cardinality(q)
    BY <1>2, <1>3, <1>12
  <2>2. PICK s \in F : Turn(sl, s) = Rank(q, t)
    BY <2>1, <1>3
  <2>3. s \in G
    BY <2>1, <2>2
  <2> QED BY <2>2, <2>3, <1>2, <1>11
<1>15. \A s \in G : sl2[s].task \in q \ q2
  <2> SUFFICES ASSUME NEW s \in G PROVE sl2[s].task \in q \ q2
    OBVIOUS
  <2>1. Rank(q, sl2[s].task) = Turn(sl, s) /\ sl2[s].task \in q
    BY <1>11
  <2>2. Turn(sl, s) \in 0..(Cardinality(F) - 1)
    BY <1>3
  <2>3. ~(Turn(sl, s) >= Cardinality(F))
    BY <2>2, <1>3
  <2> QED BY <2>1, <2>3, <1>12
<1>16. TasksOn(sl2) = TasksOn(sl) \cup (q \ q2)
  <2>1. ASSUME NEW t \in TasksOn(sl2) PROVE t \in TasksOn(sl) \cup (q \ q2)
    <3> HIDE DEF sl2, q2, G
    <3>1. PICK s \in BusySlots(sl2) : t = sl2[s].task
      BY DEF TasksOn
    <3>2. CASE s \in G
      BY <3>1, <3>2, <1>15
    <3>3. CASE s \in BusySlots(sl)
      BY <3>1, <3>3, <1>10 DEF TasksOn
    <3> QED BY <3>2, <3>3, <1>9
  <2>2. ASSUME NEW t \in TasksOn(sl) PROVE t \in TasksOn(sl2)
    <3> HIDE DEF sl2, q2, G
    <3>1. PICK s \in BusySlots(sl) : t = sl[s].task
      BY DEF TasksOn
    <3> QED BY <3>1, <1>9, <1>10 DEF TasksOn
  <2>3. ASSUME NEW t \in q \ q2 PROVE t \in TasksOn(sl2)
    <3> HIDE DEF sl2, q2, G
    <3>1. PICK s \in G : t = sl2[s].task
      BY <1>14
    <3> QED BY <3>1, <1>9 DEF TasksOn
  <2> QED BY <2>1, <2>2, <2>3
<1>17. q2 \subseteq q
  BY DEF LeftInQueue
<1>18. TasksOn(sl2) \cup q2 = TasksOn(sl) \cup q
  BY <1>16, <1>17
<1>19. Distinct(sl2, q2)
  <2>1. ASSUME NEW s \in BusySlots(sl2), NEW r \in BusySlots(sl2), sl2[s].task = sl2[r].task
        PROVE  s = r
    <3> HIDE DEF sl2, q2
    <3>1. CASE s \in BusySlots(sl) /\ r \in BusySlots(sl)
      BY <2>1, <3>1, <1>10 DEF Distinct
    <3>2. \A a \in BusySlots(sl) : sl2[a].task \notin q
      BY <1>10 DEF Distinct, TasksOn
    <3>3. CASE s \in G /\ r \in G
      <4>1. Turn(sl, s) = Turn(sl, r)
        BY <2>1, <3>3, <1>11
      <4> QED BY <4>1, <3>3, <1>3
    <3>4. CASE s \in G /\ r \in BusySlots(sl)
      BY <2>1, <3>4, <3>2, <1>11
    <3>5. CASE r \in G /\ s \in BusySlots(sl)
      BY <2>1, <3>5, <3>2, <1>11
    <3> QED BY <3>1, <3>3, <3>4, <3>5, <1>9
  <2>2. TasksOn(sl2) \cap q2 = {}
    BY <1>16, <1>17 DEF Distinct
  <2> HIDE DEF sl2, q2
  <2>3. \A t, u \in TasksOn(sl2) \cup q2 : t.seq = u.seq => t = u
    BY <1>18 DEF Distinct
  <2> QED BY <2>1, <2>2, <2>3 DEF Distinct
<1>20. q2 # {} => FreeSlots(sl2) = {}
  <2> SUFFICES ASSUME NEW u \in q2 PROVE FreeSlots(sl2) = {}
    OBVIOUS
  <2>1. Cardinality(F) < Cardinality(q)
    BY <1>2, <1>3, <1>12, <1>17
  <2>2. G = F
    BY <2>1, <1>2, <1>3
  <2> HIDE DEF sl2, q2, G
  <2> QED BY <2>2, <1>9 DEF BusySlots, FreeSlots
<1> HIDE DEF sl2, q2
<1>21. /\ SlotsType(sl2)
       /\ QueueType(q2)
       /\ \A s \in BusySlots(sl) : sl2[s] = sl[s]
       /\ \A s \in FreeSlots(sl) \cap BusySlots(sl2) :
             /\ sl2[s] = StartBaking(sl2[s].task, n)
             /\ sl2[s].task \in q
             /\ \A u \in q2 : Rank(q, sl2[s].task) < Rank(q, u)
       /\ TasksOn(sl2) \cup q2 = TasksOn(sl) \cup q
       /\ Distinct(sl2, q2)
       /\ q2 # {} => FreeSlots(sl2) = {}
  BY <1>7, <1>8, <1>10, <1>13, <1>18, <1>19, <1>20
<1> QED BY <1>21 DEF sl2, q2

-----------------------------------------------------------------------------
(* _complete_finished and _account.                                        *)

\* The tasks on the trays, and the slots by state, are finite sets.
LEMMA TasksFinite ==
    ASSUME NEW sl
    PROVE  IsFiniteSet(BusySlots(sl)) /\ IsFiniteSet(TasksOn(sl))
<1> DEFINE f == [s \in BusySlots(sl) |-> sl[s].task]
<1>1. IsFiniteSet(Slots)
  BY KitchenAssumption, FS_Interval DEF Slots
<1>2. IsFiniteSet(BusySlots(sl))
  BY <1>1, FS_Subset DEF BusySlots
<1>3. f \in Surjection(BusySlots(sl), TasksOn(sl))
  BY DEF Surjection, TasksOn
<1> QED BY <1>2, <1>3, FS_Surjection

\* Taking the finished units out lowers each order's count by as many units as
\* it had among them, and the count never falls below zero.
LEMMA ClearCounts ==
    ASSUME NEW sl, NEW q, NEW n \in Int, NEW rem \in [Orders -> Nat],
           SlotsType(sl), QueueType(q), Distinct(sl, q), Counted(sl, q, rem)
    PROVE  LET sl1 == Cleared(sl, n)
           IN  /\ SlotsType(sl1)
               /\ Distinct(sl1, q)
               /\ Counted(sl1, q, Accounted(sl, rem, n))
               /\ Accounted(sl, rem, n) \in [Orders -> Nat]
               /\ \A o \in Orders : DoneUnits(sl, n, o) \in 0..rem[o]
               /\ TasksOn(sl1) \subseteq TasksOn(sl)
               /\ \A s \in BusySlots(sl1) : sl1[s] = sl[s]
               /\ BusySlots(sl1) = BusySlots(sl) \ Finished(sl, n)
<1> DEFINE sl1 == Cleared(sl, n)
           done == Finished(sl, n)
           acc == Accounted(sl, rem, n)
<1>1. done \subseteq BusySlots(sl)
  BY DEF Finished
<1>2. BusySlots(sl1) = BusySlots(sl) \ done
  BY <1>1 DEF Cleared, BusySlots, FreeSlots
<1>3. \A s \in BusySlots(sl1) : sl1[s] = sl[s]
  BY <1>2 DEF Cleared, BusySlots
<1>4. SlotsType(sl1)
  BY DEF SlotsType, Cleared
<1> HIDE DEF sl1, done
<1>5. TasksOn(sl1) \subseteq TasksOn(sl)
  BY <1>2, <1>3 DEF TasksOn
<1>6. Distinct(sl1, q)
  <2>1. \A s, r \in BusySlots(sl1) : sl1[s].task = sl1[r].task => s = r
    BY <1>2, <1>3 DEF Distinct
  <2> QED BY <2>1, <1>5 DEF Distinct
<1>7. ASSUME NEW o \in Orders
      PROVE  /\ acc[o] \in Nat
             /\ acc[o] = Cardinality(UnitsOf(o, sl1, q))
             /\ DoneUnits(sl, n, o) \in 0..rem[o]
  <2> DEFINE U == UnitsOf(o, sl, q)
             V == UnitsOf(o, sl1, q)
             FD == {s \in done : sl[s].task.order = o}
             D == {sl[s].task : s \in FD}
             f == [s \in FD |-> sl[s].task]
  <2>1. IsFiniteSet(U)
    <3>1. IsFiniteSet(TasksOn(sl) \cup q)
      BY TasksFinite, FS_Union DEF QueueType
    <3> QED BY <3>1, FS_Subset DEF UnitsOf
  <2>2. V \subseteq U /\ D \subseteq U
    <3>1. D \subseteq U
      BY <1>1 DEF UnitsOf, TasksOn
    <3> QED BY <3>1, <1>5 DEF UnitsOf
  <2>3. U \subseteq V \cup D
    <3> SUFFICES ASSUME NEW t \in U, t \notin D PROVE t \in V
      OBVIOUS
    <3>1. CASE t \in q
      BY <3>1 DEF UnitsOf
    <3>2. CASE t \in TasksOn(sl)
      <4>1. PICK s \in BusySlots(sl) : t = sl[s].task
        BY <3>2 DEF TasksOn
      <4>2. s \notin done
        BY <4>1 DEF UnitsOf
      <4> QED BY <4>1, <4>2, <1>2, <1>3 DEF UnitsOf, TasksOn
    <3> QED BY <3>1, <3>2 DEF UnitsOf
  <2>4. V \cap D = {}
    <3> SUFFICES ASSUME NEW t \in V, t \in D PROVE FALSE
      OBVIOUS
    <3>1. PICK s \in done : t = sl[s].task
      OBVIOUS
    <3>2. s \in BusySlots(sl) /\ t \in TasksOn(sl)
      BY <3>1, <1>1 DEF TasksOn
    <3>3. t \notin q
      BY <3>2 DEF Distinct
    <3>4. PICK r \in BusySlots(sl1) : t = sl1[r].task
      BY <3>3 DEF UnitsOf, TasksOn
    <3>5. r = s
      BY <3>1, <3>2, <3>4, <1>2, <1>3 DEF Distinct
    <3> QED BY <3>1, <3>4, <3>5, <1>2
  <2>5. IsFiniteSet(V) /\ IsFiniteSet(D)
    BY <2>1, <2>2, FS_Subset
  <2>6. Cardinality(U) = Cardinality(V) + Cardinality(D)
    <3>1. U = V \cup D
      BY <2>2, <2>3
    <3>2. Cardinality(V \cup D) = Cardinality(V) + Cardinality(D) - Cardinality(V \cap D)
      BY <2>5, FS_Union
    <3>3. Cardinality(V) \in Nat /\ Cardinality(D) \in Nat
      BY <2>5, FS_CardinalityType
    <3>4. Cardinality(V \cap D) = 0
      BY <2>4, FS_EmptySet
    <3> HIDE DEF U, V, D
    <3> QED BY <3>1, <3>2, <3>3, <3>4
  <2>7. Cardinality(D) = DoneUnits(sl, n, o)
    <3>1. IsFiniteSet(FD)
      BY <1>1, TasksFinite, FS_Subset
    <3>2. f \in Bijection(FD, D)
      <4>1. \A s, r \in FD : f[s] = f[r] => s = r
        BY <1>1 DEF Distinct
      <4> QED BY <4>1 DEF Bijection, Injection, Surjection, IsInjective
    <3>3. Cardinality(D) = Cardinality(FD)
      <4> HIDE DEF f, FD, D
      <4> QED BY <3>1, <3>2, FS_Bijection DEF ExistsBijection
    <3> QED BY <3>3 DEF DoneUnits, done
  <2>8. rem[o] = Cardinality(U)
    BY DEF Counted
  <2>9. acc[o] = IF DoneUnits(sl, n, o) >= rem[o] THEN 0 ELSE rem[o] - DoneUnits(sl, n, o)
    BY DEF Accounted
  <2>10. Cardinality(V) \in Nat /\ Cardinality(D) \in Nat
    BY <2>5, FS_CardinalityType
  <2> HIDE DEF U, V, D, acc
  <2>11. acc[o] = Cardinality(V)
    BY <2>6, <2>7, <2>8, <2>9, <2>10
  <2>12. DoneUnits(sl, n, o) \in 0..rem[o]
    BY <2>6, <2>7, <2>8, <2>10
  <2> QED BY <2>10, <2>11, <2>12 DEF V
<1>8. Counted(sl1, q, acc)
  BY <1>7 DEF Counted
<1>9. acc \in [Orders -> Nat]
  BY <1>7 DEF Accounted
<1> HIDE DEF acc
<1>10. /\ SlotsType(sl1)
       /\ Distinct(sl1, q)
       /\ Counted(sl1, q, acc)
       /\ acc \in [Orders -> Nat]
       /\ \A o \in Orders : DoneUnits(sl, n, o) \in 0..rem[o]
       /\ TasksOn(sl1) \subseteq TasksOn(sl)
       /\ \A s \in BusySlots(sl1) : sl1[s] = sl[s]
       /\ BusySlots(sl1) = BusySlots(sl) \ done
  BY <1>2, <1>3, <1>4, <1>5, <1>6, <1>7, <1>8, <1>9
<1> QED BY <1>10 DEF sl1, acc, done

-----------------------------------------------------------------------------
(* tick, with its accounting.                                              *)

\* A tick keeps each unit in one place and each order's count right, leaves no
\* unit waiting next to an idle tray, touches a busy tray only when its bake is
\* over, and loads a tray with an entry that goes before all it leaves behind.
LEMMA TickKeeps ==
    ASSUME NEW sl, NEW q, NEW n \in Int, NEW rem \in [Orders -> Nat],
           SlotsType(sl), QueueType(q), Distinct(sl, q), Counted(sl, q, rem)
    PROVE  LET sl2 == TickSlots(sl, q, n)
               q2 == TickQueue(sl, q, n)
           IN  /\ SlotsType(sl2)
               /\ QueueType(q2)
               /\ Distinct(sl2, q2)
               /\ Counted(sl2, q2, Accounted(sl, rem, n))
               /\ Accounted(sl, rem, n) \in [Orders -> Nat]
               /\ TasksOn(sl2) \cup q2 \subseteq TasksOn(sl) \cup q
               /\ q2 # {} => FreeSlots(sl2) = {}
               /\ \A s \in BusySlots(sl) : sl2[s] # sl[s] => sl[s].finish_at <= n
               /\ \A s \in BusySlots(sl2) :
                     \/ s \in BusySlots(sl) /\ sl2[s] = sl[s]
                     \/ /\ sl2[s] = StartBaking(sl2[s].task, n)
                        /\ sl2[s].task \in q
                        /\ \A u \in q2 : u \in q /\ Rank(q, sl2[s].task) < Rank(q, u)
<1> DEFINE sl1 == Cleared(sl, n)
           sl2 == FilledSlots(sl1, q, n)
           q2 == LeftInQueue(sl1, q)
           acc == Accounted(sl, rem, n)
<1>1. /\ SlotsType(sl1)
      /\ Distinct(sl1, q)
      /\ Counted(sl1, q, acc)
      /\ acc \in [Orders -> Nat]
      /\ TasksOn(sl1) \subseteq TasksOn(sl)
      /\ \A s \in BusySlots(sl1) : sl1[s] = sl[s]
      /\ BusySlots(sl1) = BusySlots(sl) \ Finished(sl, n)
  <2> HIDE DEF sl1, acc
  <2> QED BY ClearCounts DEF sl1, acc
<1>2. q2 \subseteq q
  BY DEF LeftInQueue
<1> HIDE DEF sl1, acc
<1>3. /\ SlotsType(sl2)
      /\ QueueType(q2)
      /\ \A s \in BusySlots(sl1) : sl2[s] = sl1[s]
      /\ \A s \in FreeSlots(sl1) \cap BusySlots(sl2) :
            /\ sl2[s] = StartBaking(sl2[s].task, n)
            /\ sl2[s].task \in q
            /\ \A u \in q2 : Rank(q, sl2[s].task) < Rank(q, u)
      /\ TasksOn(sl2) \cup q2 = TasksOn(sl1) \cup q
      /\ Distinct(sl2, q2)
      /\ q2 # {} => FreeSlots(sl2) = {}
  BY <1>1, FillMoves
<1> HIDE DEF sl2, q2
<1>4. Counted(sl2, q2, acc)
  BY <1>1, <1>3 DEF Counted, UnitsOf
<1>5. ASSUME NEW s \in BusySlots(sl), sl2[s] # sl[s]
      PROVE  sl[s].finish_at <= n
  <2>1. s \notin BusySlots(sl1)
    BY <1>1, <1>3, <1>5
  <2> QED BY <2>1, <1>1 DEF Finished
<1>6. ASSUME NEW s \in BusySlots(sl2)
      PROVE  \/ s \in BusySlots(sl) /\ sl2[s] = sl[s]
             \/ /\ sl2[s] = StartBaking(sl2[s].task, n)
                /\ sl2[s].task \in q
                /\ \A u \in q2 : u \in q /\ Rank(q, sl2[s].task) < Rank(q, u)
  <2>1. CASE s \in BusySlots(sl1)
    BY <2>1, <1>1, <1>3
  <2>2. CASE s \in FreeSlots(sl1)
    BY <2>2, <1>2, <1>3
  <2> QED BY <2>1, <2>2 DEF BusySlots
<1>7. /\ SlotsType(sl2)
      /\ QueueType(q2)
      /\ Distinct(sl2, q2)
      /\ Counted(sl2, q2, acc)
      /\ acc \in [Orders -> Nat]
      /\ TasksOn(sl2) \cup q2 \subseteq TasksOn(sl) \cup q
      /\ q2 # {} => FreeSlots(sl2) = {}
      /\ \A s \in BusySlots(sl) : sl2[s] # sl[s] => sl[s].finish_at <= n
      /\ \A s \in BusySlots(sl2) :
            \/ s \in BusySlots(sl) /\ sl2[s] = sl[s]
            \/ /\ sl2[s] = StartBaking(sl2[s].task, n)
               /\ sl2[s].task \in q
               /\ \A u \in q2 : u \in q /\ Rank(q, sl2[s].task) < Rank(q, u)
  BY <1>1, <1>3, <1>4, <1>5, <1>6
<1>8. sl2 = TickSlots(sl, q, n) /\ q2 = TickQueue(sl, q, n)
  BY DEF sl2, q2, sl1, TickSlots, TickQueue
<1> QED BY <1>7, <1>8 DEF acc

\* An entry of lower rank goes first.
LEMMA LowerRankPrecedes ==
    ASSUME NEW q, QueueType(q), \A t, u \in q : t.seq = u.seq => t = u,
           NEW t \in q, NEW u \in q, Rank(q, t) < Rank(q, u)
    PROVE  Precedes(t, u)
<1>1. \A v \in q : v.priority \in 1..3 /\ v.seq \in Nat
  BY DEF QueueType, BakeTask, PriorityLevel, VIP, APP, WALK_IN
<1>2. \A v \in q : Rank(q, v) \in Int
  BY RankNumbers
<1>3. SUFFICES ASSUME Precedes(u, t) PROVE FALSE
  <2>1. t # u
    BY <1>2
  <2> QED BY <1>1, <1>3, <2>1 DEF Precedes
<1>4. {v \in q : Precedes(v, u)} \in SUBSET {v \in q : Precedes(v, t)}
  BY <1>1, <1>3 DEF Precedes
<1>5. IsFiniteSet({v \in q : Precedes(v, t)})
  BY FS_Subset DEF QueueType
<1>6. Rank(q, u) <= Rank(q, t)
  BY <1>4, <1>5, FS_Subset DEF Rank
<1> QED BY <1>2, <1>6

-----------------------------------------------------------------------------
(* enqueue: the push.                                                      *)

\* The tasks an enqueue pushes are one per spec, with the sequence numbers that
\* follow the ones in use.
LEMMA NewTasksAreNew ==
    ASSUME NEW o \in Orders, NEW specs \in Seq(PriorityLevel \X (Nat \ {0})), NEW n \in Nat
    PROVE  /\ QueueType(NewTasks(o, specs, n))
           /\ Len(specs) \in Nat
           /\ Cardinality(NewTasks(o, specs, n)) = Len(specs)
           /\ \A t \in NewTasks(o, specs, n) :
                 t.order = o /\ t.seq >= n /\ t.seq < n + Len(specs)
           /\ \A t, u \in NewTasks(o, specs, n) : t.seq = u.seq => t = u
<1> DEFINE N == NewTasks(o, specs, n)
           task(i) == [order |-> o, priority |-> specs[i][1], bake_seconds |-> specs[i][2],
                       seq |-> n + i - 1]
           I == 1..Len(specs)
           f == [i \in I |-> task(i)]
<1>1. Len(specs) \in Nat
  OBVIOUS
<1>2. \A i \in I : specs[i][1] \in PriorityLevel /\ specs[i][2] \in Nat
  OBVIOUS
<1>3. \A i \in I : /\ task(i) \in BakeTask
                   /\ task(i).order = o
                   /\ task(i).seq = n + i - 1
  BY <1>2 DEF BakeTask
<1>4. N = {task(i) : i \in I}
  BY DEF NewTasks
<1> HIDE DEF task, N
<1>5. \A i, j \in I : task(i).seq = task(j).seq => i = j
  BY <1>3
<1>6. IsFiniteSet(I) /\ Cardinality(I) = Len(specs)
  <2>1. 1 \in Int /\ Len(specs) \in Int
    BY <1>1
  <2>2. /\ IsFiniteSet(I)
        /\ Cardinality(I) = IF 1 > Len(specs) THEN 0 ELSE Len(specs) - 1 + 1
    <3> HIDE DEF f
    <3> QED BY <2>1, FS_Interval
  <2> HIDE DEF I, f
  <2> QED BY <1>1, <2>2
<1>7. f \in Bijection(I, N)
  <2>1. \A i, j \in I : f[i] = f[j] => i = j
    BY <1>5
  <2> QED BY <2>1, <1>4 DEF Bijection, Injection, Surjection, IsInjective
<1>8. IsFiniteSet(N) /\ Cardinality(N) = Cardinality(I)
  <2> HIDE DEF I, f
  <2> QED BY <1>6, <1>7, FS_Bijection DEF ExistsBijection
<1>9. N \subseteq BakeTask
  BY <1>3, <1>4
<1>10. \A t \in N : t.order = o /\ t.seq >= n /\ t.seq < n + Len(specs)
  BY <1>1, <1>3, <1>4
<1>11. \A t, u \in N : t.seq = u.seq => t = u
  BY <1>4, <1>5
<1> QED BY <1>1, <1>6, <1>8, <1>9, <1>10, <1>11 DEF N, QueueType

\* Pushing tasks whose numbers are not in use yet keeps each unit in one place,
\* and the order's count right.
LEMMA PushKeeps ==
    ASSUME NEW sl, NEW q, NEW n \in Nat, NEW rem \in [Orders -> Nat],
           NEW o \in Orders, NEW specs \in Seq(PriorityLevel \X (Nat \ {0})),
           SlotsType(sl), QueueType(q), Distinct(sl, q), Counted(sl, q, rem),
           \A t \in TasksOn(sl) \cup q : t.seq < n
    PROVE  LET q2 == q \cup NewTasks(o, specs, n)
               rem2 == [rem EXCEPT ![o] = @ + Len(specs)]
           IN  /\ QueueType(q2)
               /\ Distinct(sl, q2)
               /\ rem2 \in [Orders -> Nat]
               /\ Counted(sl, q2, rem2)
               /\ n + Len(specs) \in Nat
               /\ \A t \in TasksOn(sl) \cup q2 : t.seq < n + Len(specs)
<1> DEFINE N == NewTasks(o, specs, n)
           q2 == q \cup N
           rem2 == [rem EXCEPT ![o] = @ + Len(specs)]
           A == TasksOn(sl) \cup q
<1>1. /\ QueueType(N)
      /\ Len(specs) \in Nat
      /\ Cardinality(N) = Len(specs)
      /\ \A t \in N : t.order = o /\ t.seq >= n /\ t.seq < n + Len(specs)
      /\ \A t, u \in N : t.seq = u.seq => t = u
  BY NewTasksAreNew
<1>2. A \subseteq BakeTask
  BY DEF SlotsType, QueueType, TasksOn, BusySlots, FreeSlots, Baking
<1>3. \A t \in A : t.seq \in Nat
  BY <1>2 DEF BakeTask
<1>4. \A t \in N : t.seq \in Nat
  BY <1>1 DEF QueueType, BakeTask
<1> HIDE DEF N
<1>5. A \cap N = {}
  BY <1>1, <1>3, <1>4
<1>6. QueueType(q2)
  BY <1>1, FS_Union DEF QueueType
<1>7. TasksOn(sl) \cup q2 = A \cup N
  OBVIOUS
<1>8. \A t \in TasksOn(sl) \cup q2 : t.seq < n + Len(specs)
  BY <1>1, <1>3, <1>7
<1>9. Distinct(sl, q2)
  <2>1. TasksOn(sl) \cap q2 = {}
    BY <1>5 DEF Distinct
  <2>2. \A t, u \in TasksOn(sl) \cup q2 : t.seq = u.seq => t = u
    <3> SUFFICES ASSUME NEW t \in A \cup N, NEW u \in A \cup N, t.seq = u.seq
                 PROVE  t = u
      OBVIOUS
    <3>1. t \in A /\ u \in A => t = u
      BY DEF Distinct
    <3>2. t \in N /\ u \in N => t = u
      BY <1>1
    <3>3. ~(t \in A /\ u \in N) /\ ~(t \in N /\ u \in A)
      BY <1>1, <1>3, <1>4
    <3> QED BY <3>1, <3>2, <3>3
  <2> QED BY <2>1, <2>2 DEF Distinct
<1>10. ASSUME NEW p \in Orders
       PROVE  /\ rem2[p] \in Nat
              /\ rem2[p] = Cardinality(UnitsOf(p, sl, q2))
  <2>1. rem[p] = Cardinality(UnitsOf(p, sl, q)) /\ rem[p] \in Nat
    BY DEF Counted
  <2>2. CASE p # o
    <3>1. UnitsOf(p, sl, q2) = UnitsOf(p, sl, q)
      BY <1>1, <2>2 DEF UnitsOf
    <3> QED BY <2>1, <2>2, <3>1
  <2>3. CASE p = o
    <3>1. UnitsOf(p, sl, q2) = UnitsOf(p, sl, q) \cup N
      BY <1>1, <2>3 DEF UnitsOf
    <3>2. UnitsOf(p, sl, q) \cap N = {}
      BY <1>5 DEF UnitsOf
    <3>3. IsFiniteSet(UnitsOf(p, sl, q)) /\ IsFiniteSet(N)
      <4>1. IsFiniteSet(A)
        BY TasksFinite, FS_Union DEF QueueType
      <4> QED BY <4>1, <1>1, FS_Subset DEF UnitsOf, QueueType
    <3>4. Cardinality(UnitsOf(p, sl, q) \cup N)
             = Cardinality(UnitsOf(p, sl, q)) + Cardinality(N)
                - Cardinality(UnitsOf(p, sl, q) \cap N)
      BY <3>3, FS_Union
    <3>5. Cardinality(UnitsOf(p, sl, q) \cap N) = 0
      BY <3>2, FS_EmptySet
    <3>6. rem2[p] = rem[p] + Len(specs)
      BY <2>3
    <3>7. Cardinality(UnitsOf(p, sl, q2)) = rem[p] + Len(specs) - 0
      BY <1>1, <2>1, <3>1, <3>4, <3>5
    <3>8. rem[p] + Len(specs) - 0 = rem[p] + Len(specs) /\ rem[p] + Len(specs) \in Nat
      BY <1>1, <2>1
    <3> HIDE DEF q2, rem2
    <3> QED BY <3>6, <3>7, <3>8
  <2> QED BY <2>2, <2>3
<1>11. Counted(sl, q2, rem2)
  BY <1>10 DEF Counted
<1>12. rem2 \in [Orders -> Nat]
  BY <1>10
<1>13. n + Len(specs) \in Nat
  BY <1>1
<1> QED BY <1>6, <1>8, <1>9, <1>11, <1>12, <1>13 DEF N


-----------------------------------------------------------------------------
(* Lists of orders.                                                        *)

\* A finite set whose members have different places is listed in full.
LEMMA InOrderLists ==
    ASSUME NEW S, IsFiniteSet(S), NEW place,
           \A x \in S : place[x] \in Int,
           \A x, y \in S : place[x] = place[y] => x = y
    PROVE  /\ Cardinality(S) \in Nat
           /\ InOrder(S, place) \in [1..Cardinality(S) -> S]
           /\ InOrder(S, place) \in Seq(S)
           /\ \A x \in S : \E k \in 1..Cardinality(S) : InOrder(S, place)[k] = x
<1> DEFINE R == {p \in S \X S : place[p[1]] < place[p[2]]}
           n == Cardinality(S)
           below(x) == Cardinality({y \in S : place[y] < place[x]})
<1>1. \A x, y \in S : <<x, y>> \in R <=> place[x] < place[y]
  OBVIOUS
<1> HIDE DEF R
<1>2. StrictOrder(S, R)
  BY <1>1 DEF StrictOrder
<1>3. Numbers(S, CountBelow(S, R))
  BY <1>2, CountingBelow
<1>4. \A x \in S : below(x) = CountBelow(S, R)[x]
  <2> TAKE x \in S
  <2>1. {y \in S : place[y] < place[x]} = {y \in S : <<y, x>> \in R}
    BY <1>1
  <2> QED BY <2>1 DEF CountBelow
<1> HIDE DEF below
<1>5. /\ n \in Nat
      /\ \A x \in S : below(x) \in 0..(n - 1)
      /\ \A k \in 0..(n - 1) : \E x \in S : below(x) = k
  BY <1>3, <1>4 DEF Numbers
<1>6. \A k \in 1..n : InOrder(S, place)[k] \in S /\ below(InOrder(S, place)[k]) = k - 1
  <2> TAKE k \in 1..n
  <2>1. \E x \in S : below(x) = k - 1
    BY <1>5
  <2>2. InOrder(S, place)[k] = CHOOSE x \in S : below(x) = k - 1
    BY DEF InOrder, below
  <2> QED BY <2>1, <2>2
<1>7. InOrder(S, place) \in [1..n -> S]
  BY <1>6 DEF InOrder
<1>8. ASSUME NEW x \in S PROVE \E k \in 1..n : InOrder(S, place)[k] = x
  <2> DEFINE k == below(x) + 1
  <2>1. k \in 1..n
    BY <1>5
  <2>2. below(InOrder(S, place)[k]) = below(x) /\ InOrder(S, place)[k] \in S
    BY <1>5, <1>6, <2>1
  <2>3. \A y \in S : below(y) = below(x) => y = x
    BY <1>3, <1>4 DEF Numbers
  <2> QED BY <2>1, <2>2, <2>3
<1>9. InOrder(S, place) \in Seq(S)
  <2> HIDE DEF n
  <2> QED BY <1>5, <1>7
<1> QED BY <1>5, <1>7, <1>8, <1>9

\* The least member of a set of naturals is one of its members.
LEMMA LeastMember ==
    ASSUME NEW S, S \subseteq Nat, S # {}
    PROVE  Least(S) \in S
<1>1. PICK m \in S : TRUE
  OBVIOUS
<1> DEFINE T == {x \in S : x <= m}
           R == {p \in T \X T : p[1] < p[2]}
<1>2. IsFiniteSet(T) /\ T # {}
  <2>1. m \in Int /\ 0 \in Int
    OBVIOUS
  <2>2. IsFiniteSet(0..m)
    BY <2>1, FS_Interval
  <2>3. T \in SUBSET (0..m)
    <3>1. \A x \in T : x \in Nat /\ x <= m
      OBVIOUS
    <3> HIDE DEF T
    <3> QED BY <3>1
  <2>4. m \in T
    OBVIOUS
  <2> HIDE DEF T
  <2> QED BY <2>2, <2>3, <2>4, FS_Subset
<1>3. \A x, y \in T : <<x, y>> \in R <=> x < y
  OBVIOUS
<1>4. T \subseteq S
  OBVIOUS
<1>5. \A x \in S : x \in T \/ x > m
  OBVIOUS
<1>6. \A x \in T : x <= m
  OBVIOUS
<1> HIDE DEF T, R
<1>7. StrictOrder(T, R)
  BY <1>3, <1>4 DEF StrictOrder
<1>8. PICK x \in T : \A y \in T : <<y, x>> \notin R
  BY <1>2, <1>7, FirstMember
<1>9. ASSUME NEW y \in S PROVE x <= y
  <2>1. x \in Nat /\ y \in Nat /\ m \in Nat /\ x <= m
    BY <1>4, <1>6
  <2>2. CASE y \in T
    <3>1. <<y, x>> \in R <=> y < x
      BY <1>3, <2>2
    <3>2. ~(y < x)
      BY <1>8, <2>2, <3>1
    <3> QED BY <2>1, <3>2
  <2>3. CASE y > m
    BY <2>1, <2>3
  <2> QED BY <1>5, <2>2, <2>3
<1>10. x \in S
  BY <1>4
<1> QED BY <1>9, <1>10 DEF Least

\* The orders on trays are finitely many, and no tray holds units of two.
LEMMA OrdersOnTraysFinite ==
    ASSUME NEW sl, SlotsType(sl)
    PROVE  /\ IsFiniteSet(OrdersOnTrays(sl)) /\ OrdersOnTrays(sl) \subseteq Orders
           /\ \A o \in OrdersOnTrays(sl) :
                 /\ Least(TraysOf(sl, o)) \in 1..Cardinality(Slots)
                 /\ Least(TraysOf(sl, o)) \in TraysOf(sl, o)
           /\ \A o, p : \A s \in TraysOf(sl, o) \cap TraysOf(sl, p) : o = p
<1> DEFINE B == BusySlots(sl)
           f == [s \in B |-> sl[s].task.order]
<1>1. IsFiniteSet(B)
  BY TasksFinite
<1>2. f \in Surjection(B, OrdersOnTrays(sl))
  BY DEF Surjection, OrdersOnTrays
<1>3. IsFiniteSet(OrdersOnTrays(sl))
  <2> HIDE DEF B, f
  <2> QED BY <1>1, <1>2, FS_Surjection
<1>4. OrdersOnTrays(sl) \subseteq Orders
  BY DEF OrdersOnTrays, BusySlots, FreeSlots, SlotsType, Baking, BakeTask
<1>5. ASSUME NEW o \in OrdersOnTrays(sl)
      PROVE  /\ Least(TraysOf(sl, o)) \in 1..Cardinality(Slots)
             /\ Least(TraysOf(sl, o)) \in TraysOf(sl, o)
  <2>1. TraysOf(sl, o) # {}
    BY DEF OrdersOnTrays, TraysOf
  <2>2. TraysOf(sl, o) \subseteq Slots
    BY DEF TraysOf, BusySlots
  <2>3. Least(TraysOf(sl, o)) \in TraysOf(sl, o)
    BY <2>1, <2>2, Trays, LeastMember
  <2> DEFINE l == Least(TraysOf(sl, o))
  <2>4. l \in Slots
    BY <2>2, <2>3
  <2> HIDE DEF B, f, l
  <2>5. l \in Nat /\ 1 <= l /\ l <= Cardinality(Slots) /\ Cardinality(Slots) \in Nat
    BY <2>4, Trays
  <2>6. l \in 1..Cardinality(Slots)
    BY <2>5
  <2> QED BY <2>3, <2>6 DEF l
<1>6. \A o, p : \A s \in TraysOf(sl, o) \cap TraysOf(sl, p) : o = p
  BY DEF TraysOf
<1> QED BY <1>3, <1>4, <1>5, <1>6

\* The other estimates are listed, each of an order that has units in the kitchen.
LEMMA EtaKeysAreOrders ==
    ASSUME NEW sl, NEW q, NEW o, SlotsType(sl), QueueType(q), Distinct(sl, q)
    PROVE  LET keys == EtaKeysBut(o, sl, q)
               met == (OrdersOnTrays(sl) \cup OrdersWaiting(q)) \ {o}
           IN  /\ keys \in Seq(Orders)
               /\ \A k \in 1..Len(keys) : keys[k] \in met
               /\ \A p \in met : \E k \in 1..Len(keys) : keys[k] = p
<1> DEFINE on == OrdersOnTrays(sl)
           met == (on \cup OrdersWaiting(q)) \ {o}
           ranks(p) == {Rank(q, t) : t \in {u \in q : u.order = p}}
           place == [p \in met |-> IF p \in on THEN Least(TraysOf(sl, p))
                                   ELSE Cardinality(Slots) + 1 + Least(ranks(p))]
<1>1. /\ IsFiniteSet(on) /\ on \subseteq Orders
      /\ \A p \in on : Least(TraysOf(sl, p)) \in 1..Cardinality(Slots)
      /\ \A p \in on : Least(TraysOf(sl, p)) \in TraysOf(sl, p)
      /\ \A p, x : \A s \in TraysOf(sl, p) \cap TraysOf(sl, x) : p = x
      /\ Cardinality(Slots) \in Nat
  BY OrdersOnTraysFinite, Trays
<1>2. \A p, x \in on : Least(TraysOf(sl, p)) = Least(TraysOf(sl, x)) => p = x
  BY <1>1
<1>3. /\ \A t \in q : Rank(q, t) \in 0..(Cardinality(q) - 1)
      /\ \A t, u \in q : Rank(q, t) = Rank(q, u) => t = u
      /\ Cardinality(q) \in Nat
  BY RankNumbers DEF Distinct
<1>4. IsFiniteSet(OrdersWaiting(q)) /\ OrdersWaiting(q) \subseteq Orders
  <2> DEFINE f == [t \in q |-> t.order]
  <2>1. f \in Surjection(q, OrdersWaiting(q))
    BY DEF Surjection, OrdersWaiting
  <2>2. OrdersWaiting(q) \subseteq Orders
    BY DEF OrdersWaiting, QueueType, BakeTask
  <2> HIDE DEF f
  <2> QED BY <2>1, <2>2, FS_Surjection DEF QueueType
<1>5. ASSUME NEW p \in OrdersWaiting(q)
      PROVE  Least(ranks(p)) \in ranks(p) /\ Least(ranks(p)) \in Nat
  <2>1. ranks(p) # {}
    BY DEF OrdersWaiting
  <2>2. ranks(p) \subseteq Nat
    BY <1>3
  <2> HIDE DEF ranks
  <2> QED BY <2>1, <2>2, LeastMember
<1>6. \A p, x : \A k \in ranks(p) \cap ranks(x) : p = x
  <2> SUFFICES ASSUME NEW p, NEW x, NEW k \in ranks(p) \cap ranks(x) PROVE p = x
    OBVIOUS
  <2>1. PICK t \in q : t.order = p /\ k = Rank(q, t)
    OBVIOUS
  <2>2. PICK u \in q : u.order = x /\ k = Rank(q, u)
    OBVIOUS
  <2> HIDE DEF ranks
  <2> QED BY <1>3, <2>1, <2>2
<1>7. IsFiniteSet(met) /\ met \subseteq Orders
  <2>1. IsFiniteSet(on \cup OrdersWaiting(q))
    BY <1>1, <1>4, FS_Union
  <2> HIDE DEF on
  <2> QED BY <1>1, <1>4, <2>1, FS_Subset
<1>8. \A p \in met : /\ place[p] = IF p \in on THEN Least(TraysOf(sl, p))
                                   ELSE Cardinality(Slots) + 1 + Least(ranks(p))
                     /\ p \notin on => p \in OrdersWaiting(q)
  OBVIOUS
<1> HIDE DEF on, met, ranks, place
<1>9. \A p \in met : place[p] \in Int
  <2> SUFFICES ASSUME NEW p \in met PROVE place[p] \in Int
    OBVIOUS
  <2>1. CASE p \in on
    BY <1>1, <1>8, <2>1
  <2>2. CASE p \notin on
    <3>1. Least(ranks(p)) \in Nat
      BY <1>5, <1>8, <2>2
    <3> QED BY <1>1, <1>8, <2>2, <3>1
  <2> QED BY <2>1, <2>2
<1>10. ASSUME NEW p \in met, NEW x \in met, place[p] = place[x] PROVE p = x
  <2>1. CASE p \in on /\ x \in on
    BY <1>2, <1>8, <1>10, <2>1
  <2>2. CASE p \notin on /\ x \notin on
    <3>1. /\ Least(ranks(p)) \in ranks(p) /\ Least(ranks(p)) \in Nat
          /\ Least(ranks(x)) \in ranks(x) /\ Least(ranks(x)) \in Nat
      BY <1>5, <1>8, <2>2
    <3>2. Least(ranks(p)) = Least(ranks(x))
      BY <1>1, <1>8, <1>10, <2>2, <3>1
    <3> QED BY <1>6, <3>1, <3>2
  <2>3. CASE p \in on /\ x \notin on
    <3>1. Least(ranks(x)) \in Nat
      BY <1>5, <1>8, <2>3
    <3> QED BY <1>1, <1>8, <1>10, <2>3, <3>1
  <2>4. CASE p \notin on /\ x \in on
    <3>1. Least(ranks(p)) \in Nat
      BY <1>5, <1>8, <2>4
    <3> QED BY <1>1, <1>8, <1>10, <2>4, <3>1
  <2> QED BY <2>1, <2>2, <2>3, <2>4
<1> DEFINE keys == InOrder(met, place)
           n == Cardinality(met)
<1>11. /\ n \in Nat /\ keys \in Seq(met) /\ keys \in [1..n -> met]
       /\ \A p \in met : \E k \in 1..n : keys[k] = p
  BY <1>7, <1>9, <1>10, InOrderLists
<1>12. EtaKeysBut(o, sl, q) = keys
  BY DEF EtaKeysBut, met, on, place, ranks
<1> HIDE DEF keys, n
<1>13. Len(keys) = n /\ keys \in Seq(Orders)
  BY <1>7, <1>11
<1> QED BY <1>11, <1>12, <1>13 DEF met, on

=============================================================================
