--------------------------- MODULE ProjectionProofs ---------------------------
(***************************************************************************)
(* What _project computes, for every number of slots, every queue and      *)
(* every clock: how the estimates of two states of the kitchen compare.    *)
(*                                                                         *)
(* Its loop is seen as a sequence of plans, one more than there are        *)
(* entries, each made from the one before by a round.  A round takes any   *)
(* slot that is free first, the past counted as now: so the rounds of      *)
(* _project and the ones that a tick has played in advance are of one      *)
(* kind, and are compared by one induction.                                *)
(***************************************************************************)
EXTENDS SchedulerProofs

\* What holds of 0, and of k + 1 when it holds of k, holds up to n.
LEMMA IntervalInduction ==
    ASSUME NEW n \in Nat, NEW S, 0 \in S, \A k \in 0..(n - 1) : k \in S => k + 1 \in S
    PROVE  \A k \in 0..n : k \in S
<1> DEFINE T == (0..n) \ S
           R == {p \in T \X T : p[1] < p[2]}
<1>1. SUFFICES ASSUME T # {} PROVE FALSE
  OBVIOUS
<1>2. IsFiniteSet(T)
  <2>1. 0 \in Int /\ n \in Int
    OBVIOUS
  <2>2. IsFiniteSet(0..n)
    BY <2>1, FS_Interval
  <2> QED BY <2>2, FS_Subset
<1>3. \A x, y \in T : <<x, y>> \in R <=> x < y
  OBVIOUS
<1>4. \A x \in T : x \in Int /\ 0 <= x /\ x <= n /\ x \notin S
  OBVIOUS
<1>5. \A x \in Int : 0 <= x /\ x <= n /\ x \notin S => x \in T
  OBVIOUS
<1> HIDE DEF T, R
<1>6. StrictOrder(T, R)
  BY <1>3, <1>4 DEF StrictOrder
<1>7. PICK x \in T : \A y \in T : <<y, x>> \notin R
  BY <1>1, <1>2, <1>6, FirstMember
<1>8. x \in Int /\ 0 <= x /\ x <= n /\ x \notin S /\ x # 0
  BY <1>4
<1>9. x - 1 \in T
  <2>1. x - 1 \in 0..(n - 1) /\ (x - 1) + 1 = x
    BY <1>8
  <2>2. x - 1 \notin S
    BY <1>8, <2>1
  <2> QED BY <1>5, <2>1, <2>2
<1>10. <<x - 1, x>> \in R
  BY <1>3, <1>8, <1>9
<1> QED BY <1>7, <1>9, <1>10

-----------------------------------------------------------------------------
(* Rounds.                                                                 *)

PlanType(p) == p.free \in [Slots -> Int] /\ p.ready \in [Orders -> Int]

\* Entry t goes to a slot that is free first.
Round(p, p2, t, now) ==
    \E s \in Slots :
        LET finish == Later(p.free[s], now) + t.bake_seconds
        IN  /\ \A r \in Slots : Later(p.free[s], now) <= Later(p.free[r], now)
            /\ p2.free = [p.free EXCEPT ![s] = finish]
            /\ p2.ready = [p.ready EXCEPT ![t.order] = Later(@, finish)]

\* The entries of q are taken in heap order.
Rounds(plans, q, now) ==
    /\ PlanType(plans[0])
    /\ \A k \in 0..(Cardinality(q) - 1) : Round(plans[k], plans[k + 1], Ranked(q, k), now)

\* Plan p at time n is nowhere behind plan p2 at time n2: its slots can be paired
\* with slots of p2 that are free no earlier, and its orders are ready no later,
\* where times up to m count as m.
Ahead(p, n, p2, n2, m) ==
    /\ \E pair \in [Slots -> Slots] :
          /\ \A s, r \in Slots : pair[s] = pair[r] => s = r
          /\ \A r \in Slots : \E s \in Slots : pair[s] = r
          /\ \A s \in Slots : Later(p.free[s], n) <= Later(p2.free[pair[s]], n2)
    /\ \A o \in Orders : Later(p.ready[o], m) <= Later(p2.ready[o], m)

\* A round makes a plan, in which nothing is earlier than before.
LEMMA RoundPlans ==
    ASSUME NEW p, NEW p2, NEW t \in BakeTask, NEW n \in Int, PlanType(p), Round(p, p2, t, n)
    PROVE  /\ PlanType(p2)
           /\ \A o \in Orders : p2.ready[o] >= p.ready[o]
           /\ p2.ready[t.order] >= n + t.bake_seconds
           /\ \A o \in Orders \ {t.order} : p2.ready[o] = p.ready[o]
<1>1. PICK s \in Slots :
         /\ p2.free = [p.free EXCEPT ![s] = Later(p.free[s], n) + t.bake_seconds]
         /\ p2.ready = [p.ready EXCEPT ![t.order] =
                           Later(@, Later(p.free[s], n) + t.bake_seconds)]
  BY DEF Round
<1> DEFINE finish == Later(p.free[s], n) + t.bake_seconds
<1>2. t.order \in Orders /\ t.bake_seconds \in Nat
  BY DEF BakeTask
<1>3. finish \in Int /\ finish >= n + t.bake_seconds
  BY <1>2 DEF PlanType, Later
<1> HIDE DEF finish
<1>4. p2.free = [p.free EXCEPT ![s] = finish]
      /\ p2.ready = [p.ready EXCEPT ![t.order] = Later(@, finish)]
  BY <1>1 DEF finish
<1>5. \A o \in Orders : p.ready[o] \in Int
  BY DEF PlanType
<1>6. /\ p2.ready[t.order] = Later(p.ready[t.order], finish)
      /\ \A o \in Orders \ {t.order} : p2.ready[o] = p.ready[o]
  BY <1>2, <1>4 DEF PlanType
<1>7. \A o \in Orders : p2.ready[o] \in Int /\ p2.ready[o] >= p.ready[o]
  BY <1>2, <1>3, <1>5, <1>6 DEF Later
<1>8. PlanType(p2)
  BY <1>3, <1>4, <1>7 DEF PlanType
<1>9. p2.ready[t.order] >= n + t.bake_seconds
  BY <1>2, <1>3, <1>5, <1>6 DEF Later
<1> QED BY <1>6, <1>7, <1>8, <1>9

\* Two plans that take the same entry stay as they compare.
LEMMA RoundOfBoth ==
    ASSUME NEW p, NEW p2, NEW u, NEW u2, NEW t \in BakeTask,
           NEW n \in Int, NEW n2 \in Int, NEW m \in Int,
           PlanType(p), PlanType(u), Ahead(p, n, u, n2, m),
           Round(p, p2, t, n), Round(u, u2, t, n2)
    PROVE  Ahead(p2, n, u2, n2, m)
<1>1. PICK pair \in [Slots -> Slots] :
         /\ \A s, r \in Slots : pair[s] = pair[r] => s = r
         /\ \A r \in Slots : \E s \in Slots : pair[s] = r
         /\ \A s \in Slots : Later(p.free[s], n) <= Later(u.free[pair[s]], n2)
  BY DEF Ahead
<1>2. PICK a \in Slots :
         /\ \A r \in Slots : Later(p.free[a], n) <= Later(p.free[r], n)
         /\ p2.free = [p.free EXCEPT ![a] = Later(p.free[a], n) + t.bake_seconds]
         /\ p2.ready = [p.ready EXCEPT ![t.order] =
                           Later(@, Later(p.free[a], n) + t.bake_seconds)]
  BY DEF Round
<1>3. PICK d \in Slots :
         /\ \A r \in Slots : Later(u.free[d], n2) <= Later(u.free[r], n2)
         /\ u2.free = [u.free EXCEPT ![d] = Later(u.free[d], n2) + t.bake_seconds]
         /\ u2.ready = [u.ready EXCEPT ![t.order] =
                           Later(@, Later(u.free[d], n2) + t.bake_seconds)]
  BY DEF Round
<1>4. PICK e \in Slots : pair[e] = d
  BY <1>1
<1>5. t.order \in Orders /\ t.bake_seconds \in Nat
  BY DEF BakeTask
<1>6. \A s \in Slots : p.free[s] \in Int /\ u.free[s] \in Int
                       /\ Later(p.free[s], n) \in Int /\ Later(u.free[s], n2) \in Int
  BY DEF PlanType, Later
<1> DEFINE early == Later(p.free[a], n) + t.bake_seconds
           late == Later(u.free[d], n2) + t.bake_seconds
<1>7. early \in Int /\ late \in Int /\ early >= n /\ late >= n2
  BY <1>5, <1>6 DEF Later
<1>8. early <= late
  <2>1. /\ Later(p.free[a], n) <= Later(p.free[e], n)
        /\ Later(p.free[e], n) <= Later(u.free[d], n2)
    BY <1>1, <1>2, <1>4
  <2> QED BY <2>1, <1>5, <1>6
<1> HIDE DEF early, late
<1>9. /\ p2.free = [p.free EXCEPT ![a] = early]
      /\ p2.ready = [p.ready EXCEPT ![t.order] = Later(@, early)]
      /\ u2.free = [u.free EXCEPT ![d] = late]
      /\ u2.ready = [u.ready EXCEPT ![t.order] = Later(@, late)]
  BY <1>2, <1>3 DEF early, late
\* The slots that were taken are paired, and the slots they were paired with.
<1> DEFINE pair2 == [s \in Slots |-> IF s = a THEN d ELSE IF s = e THEN pair[a] ELSE pair[s]]
<1>10. pair2 \in [Slots -> Slots]
  BY <1>1
<1>11. \A s, r \in Slots : pair2[s] = pair2[r] => s = r
  BY <1>1, <1>4
<1>12. ASSUME NEW r \in Slots PROVE \E s \in Slots : pair2[s] = r
  <2>1. PICK s \in Slots : pair[s] = r
    BY <1>1
  <2>2. CASE s = a
    <3>1. CASE a = e
      BY <1>4, <2>1, <2>2, <3>1
    <3>2. CASE a # e
      <4>1. pair2[e] = r
        BY <2>1, <2>2, <3>2
      <4> QED BY <4>1
    <3> QED BY <3>1, <3>2
  <2>3. CASE s = e
    <3>1. pair2[a] = r
      BY <1>4, <2>1, <2>3
    <3> QED BY <3>1
  <2>4. CASE s # a /\ s # e
    <3>1. pair2[s] = r
      BY <2>1, <2>4
    <3> QED BY <3>1
  <2> QED BY <2>2, <2>3, <2>4
<1>13. ASSUME NEW s \in Slots
       PROVE  Later(p2.free[s], n) <= Later(u2.free[pair2[s]], n2)
  <2>1. p2.free[s] = IF s = a THEN early ELSE p.free[s]
    BY <1>9 DEF PlanType
  <2>2. \A r \in Slots : u2.free[r] = IF r = d THEN late ELSE u.free[r]
    BY <1>9 DEF PlanType
  <2>3. CASE s = a
    <3>1. p2.free[s] = early /\ u2.free[pair2[s]] = late
      BY <2>1, <2>2, <2>3
    <3> QED BY <3>1, <1>7, <1>8 DEF Later
  <2>4. CASE s # a /\ s = e
    <3>1. pair[a] # d
      BY <1>1, <1>4, <2>4
    <3>2. p2.free[s] = p.free[e] /\ u2.free[pair2[s]] = u.free[pair[a]]
      BY <1>1, <2>1, <2>2, <2>4, <3>1
    <3>3. /\ Later(p.free[e], n) <= Later(u.free[d], n2)
          /\ Later(u.free[d], n2) <= Later(u.free[pair[a]], n2)
      BY <1>1, <1>3, <1>4
    <3>4. pair[a] \in Slots
      BY <1>1
    <3> QED BY <3>2, <3>3, <3>4, <1>6
  <2>5. CASE s # a /\ s # e
    <3>1. pair[s] # d /\ pair[s] \in Slots
      BY <1>1, <1>4, <2>5
    <3>2. p2.free[s] = p.free[s] /\ u2.free[pair2[s]] = u.free[pair[s]]
      BY <2>1, <2>2, <2>5, <3>1
    <3> QED BY <1>1, <3>2
  <2> QED BY <2>3, <2>4, <2>5
<1>14. \A o \in Orders : Later(p2.ready[o], m) <= Later(u2.ready[o], m)
  <2> TAKE o \in Orders
  <2>1. p.ready[o] \in Int /\ u.ready[o] \in Int
    BY DEF PlanType
  <2>2. Later(p.ready[o], m) <= Later(u.ready[o], m)
    BY DEF Ahead
  <2>3. /\ p2.ready[o] = IF o = t.order THEN Later(p.ready[o], early) ELSE p.ready[o]
        /\ u2.ready[o] = IF o = t.order THEN Later(u.ready[o], late) ELSE u.ready[o]
    BY <1>5, <1>9 DEF PlanType
  <2> QED BY <2>1, <2>2, <2>3, <1>7, <1>8 DEF Later
<1> HIDE DEF pair2
<1> QED BY <1>10, <1>11, <1>12, <1>13, <1>14 DEF Ahead

\* A plan that takes one more entry falls behind.
LEMMA RoundOfOne ==
    ASSUME NEW p, NEW u, NEW u2, NEW t \in BakeTask,
           NEW n \in Int, NEW n2 \in Int, NEW m \in Int,
           PlanType(p), PlanType(u), Ahead(p, n, u, n2, m), Round(u, u2, t, n2)
    PROVE  Ahead(p, n, u2, n2, m)
<1>1. PICK pair \in [Slots -> Slots] :
         /\ \A s, r \in Slots : pair[s] = pair[r] => s = r
         /\ \A r \in Slots : \E s \in Slots : pair[s] = r
         /\ \A s \in Slots : Later(p.free[s], n) <= Later(u.free[pair[s]], n2)
  BY DEF Ahead
<1>2. PICK d \in Slots :
         /\ u2.free = [u.free EXCEPT ![d] = Later(u.free[d], n2) + t.bake_seconds]
         /\ u2.ready = [u.ready EXCEPT ![t.order] =
                           Later(@, Later(u.free[d], n2) + t.bake_seconds)]
  BY DEF Round
<1>3. t.order \in Orders /\ t.bake_seconds \in Nat
  BY DEF BakeTask
<1>4. \A s \in Slots : p.free[s] \in Int /\ u.free[s] \in Int /\ pair[s] \in Slots
  BY <1>1 DEF PlanType
<1> DEFINE late == Later(u.free[d], n2) + t.bake_seconds
<1>5. late \in Int /\ late >= Later(u.free[d], n2)
  BY <1>3, <1>4 DEF Later
<1>6. \A s \in Slots : Later(p.free[s], n) <= Later(u2.free[pair[s]], n2)
  <2> TAKE s \in Slots
  <2>1. u2.free[pair[s]] = IF pair[s] = d THEN late ELSE u.free[pair[s]]
    BY <1>2, <1>4 DEF PlanType
  <2>2. Later(p.free[s], n) <= Later(u.free[pair[s]], n2)
    BY <1>1
  <2>3. p.free[s] \in Int /\ u.free[pair[s]] \in Int
    BY <1>4
  <2> HIDE DEF late
  <2> QED BY <2>1, <2>2, <2>3, <1>5 DEF Later
<1>7. \A o \in Orders : Later(p.ready[o], m) <= Later(u2.ready[o], m)
  <2> TAKE o \in Orders
  <2>1. p.ready[o] \in Int /\ u.ready[o] \in Int
    BY DEF PlanType
  <2>2. Later(p.ready[o], m) <= Later(u.ready[o], m)
    BY DEF Ahead
  <2>3. u2.ready[o] = IF o = t.order THEN Later(u.ready[o], late) ELSE u.ready[o]
    BY <1>2, <1>3 DEF PlanType
  <2> HIDE DEF late
  <2> QED BY <2>1, <2>2, <2>3, <1>5 DEF Later
<1> QED BY <1>1, <1>6, <1>7 DEF Ahead

\* Of the plans in a run of rounds, the last one has each order ready no earlier
\* than it was at first, no earlier than any entry of it can be baked, and no
\* later than at first when it has no entry.
LEMMA RoundsBounds ==
    ASSUME NEW q, QueueType(q), \A t, u \in q : t.seq = u.seq => t = u,
           NEW n \in Int, NEW plans, Rounds(plans, q, n)
    PROVE  LET last == plans[Cardinality(q)]
           IN  /\ \A k \in 0..Cardinality(q) : PlanType(plans[k])
               /\ \A o \in Orders : last.ready[o] >= plans[0].ready[o]
               /\ \A t \in q : last.ready[t.order] >= n + t.bake_seconds
               /\ \A o \in Orders : (\A t \in q : t.order # o) =>
                     last.ready[o] = plans[0].ready[o]
<1> DEFINE c == Cardinality(q)
           Bounded(k) ==
              /\ PlanType(plans[k])
              /\ \A o \in Orders : plans[k].ready[o] >= plans[0].ready[o]
              /\ \A t \in q : Rank(q, t) < k => plans[k].ready[t.order] >= n + t.bake_seconds
              /\ \A o \in Orders : (\A t \in q : t.order # o) =>
                    plans[k].ready[o] = plans[0].ready[o]
           S == {k \in 0..c : Bounded(k)}
<1>1. /\ c \in Nat
      /\ \A t \in q : Rank(q, t) \in 0..(c - 1)
      /\ \A t, u \in q : Rank(q, t) = Rank(q, u) => t = u
      /\ \A k \in 0..(c - 1) : Ranked(q, k) \in q /\ Rank(q, Ranked(q, k)) = k
  BY RankNumbers
<1>2. q \subseteq BakeTask
  BY DEF QueueType
<1> HIDE DEF c
<1>3. 0 \in S
  <2>1. PlanType(plans[0])
    BY DEF Rounds
  <2>2. \A o \in Orders : plans[0].ready[o] >= plans[0].ready[o]
    BY <2>1 DEF PlanType
  <2>3. \A t \in q : ~(Rank(q, t) < 0)
    BY <1>1
  <2> QED BY <2>1, <2>2, <2>3, <1>1
<1>4. ASSUME NEW k \in 0..(c - 1), k \in S PROVE k + 1 \in S
  <2>1. Bounded(k)
    BY <1>4
  <2>2. k \in Int /\ k + 1 \in 0..c
    BY <1>1
  <2> DEFINE t == Ranked(q, k)
             p == plans[k]
             p2 == plans[k + 1]
  <2>3. t \in q /\ Rank(q, t) = k /\ t \in BakeTask /\ Round(p, p2, t, n) /\ PlanType(p)
    BY <1>1, <1>2, <2>1 DEF Rounds, c
  <2> HIDE DEF t, p, p2, Bounded
  <2>4. /\ PlanType(p2)
        /\ \A o \in Orders : p2.ready[o] >= p.ready[o]
        /\ p2.ready[t.order] >= n + t.bake_seconds
        /\ \A o \in Orders \ {t.order} : p2.ready[o] = p.ready[o]
    <3>1. n \in Int /\ PlanType(p) /\ Round(p, p2, t, n) /\ t \in BakeTask
      BY <2>3
    <3>2. PlanType(p2)
      BY <3>1, RoundPlans
    <3>3. p2.ready[t.order] >= n + t.bake_seconds
      BY <3>1, RoundPlans
    <3>4. \A o \in Orders : p2.ready[o] >= p.ready[o]
      BY <3>1, RoundPlans
    <3>5. \A o \in Orders \ {t.order} : p2.ready[o] = p.ready[o]
      BY <3>1, RoundPlans
    <3> QED BY <3>2, <3>3, <3>4, <3>5
  <2>5. ASSUME NEW o \in Orders
        PROVE  p.ready[o] \in Int /\ p2.ready[o] \in Int /\ plans[0].ready[o] \in Int
    BY <2>3, <2>4 DEF PlanType, Rounds
  <2>6. \A o \in Orders : p2.ready[o] >= plans[0].ready[o]
    BY <2>1, <2>4, <2>5 DEF p, Bounded
  <2>7. ASSUME NEW v \in q, Rank(q, v) < k + 1
        PROVE  p2.ready[v.order] >= n + v.bake_seconds
    <3>1. CASE v = t
      BY <2>4, <3>1
    <3>2. CASE v # t
      <4>1. Rank(q, v) # k
        BY <1>1, <2>3, <3>2
      <4>2. Rank(q, v) < k
        BY <1>1, <2>2, <2>7, <4>1
      <4>3. v.order \in Orders /\ v.bake_seconds \in Nat
        BY <1>2 DEF BakeTask
      <4>4. p.ready[v.order] >= n + v.bake_seconds
        BY <2>1, <4>2 DEF p, Bounded
      <4> QED BY <2>4, <2>5, <4>3, <4>4
    <3> QED BY <3>1, <3>2
  <2>8. \A o \in Orders : (\A v \in q : v.order # o) => p2.ready[o] = plans[0].ready[o]
    BY <2>1, <2>3, <2>4 DEF p, Bounded
  <2> QED BY <2>2, <2>4, <2>6, <2>7, <2>8 DEF p2, Bounded, S
<1> HIDE DEF S
<1>5. \A k \in 0..c : k \in S
  BY <1>1, <1>3, <1>4, IntervalInduction
<1>6. \A k \in 0..c : Bounded(k)
  BY <1>5 DEF S
<1>7. c \in 0..c /\ \A t \in q : Rank(q, t) < c
  BY <1>1
<1>8. Bounded(c)
  BY <1>6, <1>7
<1> QED BY <1>6, <1>7, <1>8 DEF c

\* A round changes the time of one order only.
LEMMA RoundOfOthers ==
    ASSUME NEW p, NEW p2, NEW t, NEW n, NEW o \in Orders, o # t.order,
           n \in Int /\ PlanType(p) /\ Round(p, p2, t, n) /\ t \in BakeTask
    PROVE  p2.ready[o] = p.ready[o]
BY RoundPlans

\* Each round of a run changes the time of one order only.
LEMMA RoundsOneOrder ==
    ASSUME NEW q, QueueType(q), \A t, u \in q : t.seq = u.seq => t = u,
           NEW n \in Int, NEW plans, Rounds(plans, q, n)
    PROVE  \A k \in 0..(Cardinality(q) - 1), o \in Orders :
              o # Ranked(q, k).order => plans[k + 1].ready[o] = plans[k].ready[o]
<1> TAKE k \in 0..(Cardinality(q) - 1)
<1> DEFINE c == Cardinality(q)
           t == Ranked(q, k)
           p == plans[k]
           p2 == plans[k + 1]
<1>1. c \in Nat /\ t \in q
  BY RankNumbers
<1>2. \A i \in 0..c : PlanType(plans[i])
  BY RoundsBounds
<1>3. t \in BakeTask
  BY <1>1 DEF QueueType
<1>4. n \in Int /\ PlanType(p) /\ Round(p, p2, t, n) /\ t \in BakeTask
  <2>1. k \in 0..c
    BY <1>1
  <2> QED BY <2>1, <1>2, <1>3 DEF Rounds
<1> HIDE DEF c, t, p, p2
<1>5. \A o \in Orders : o # t.order => p2.ready[o] = p.ready[o]
  BY <1>4, RoundOfOthers
<1> QED BY <1>5 DEF t, p, p2

\* Rounds that take no entry of an order leave its time where it is.
LEMMA RoundsLeave ==
    ASSUME NEW q, QueueType(q), \A t, u \in q : t.seq = u.seq => t = u,
           NEW n \in Int, NEW plans, Rounds(plans, q, n),
           NEW first \in 0..Cardinality(q), NEW o \in Orders,
           \A k \in first..(Cardinality(q) - 1) : Ranked(q, k).order # o
    PROVE  plans[Cardinality(q)].ready[o] = plans[first].ready[o]
<1>0. \A k \in 0..(Cardinality(q) - 1), x \in Orders :
         x # Ranked(q, k).order => plans[k + 1].ready[x] = plans[k].ready[x]
  BY RoundsOneOrder
<1> DEFINE c == Cardinality(q)
           S == {j \in 0..(c - first) : plans[first + j].ready[o] = plans[first].ready[o]}
<1>1. c \in Nat
  BY RankNumbers
<1>2. first \in Nat /\ first <= c /\ c - first \in Nat
  BY <1>1
<1>3. 0 \in S
  BY <1>2
<1>4. ASSUME NEW j \in 0..((c - first) - 1), j \in S PROVE j + 1 \in S
  <2> DEFINE k == first + j
  <2>1. /\ k \in 0..(c - 1) /\ k \in first..(c - 1)
        /\ k + 1 = first + (j + 1) /\ j + 1 \in 0..(c - first)
    BY <1>1, <1>2
  <2>2. Ranked(q, k).order # o
    BY <2>1
  <2>3. plans[k + 1].ready[o] = plans[k].ready[o]
    BY <2>1, <2>2, <1>0
  <2>4. plans[k].ready[o] = plans[first].ready[o]
    BY <1>4
  <2> QED BY <2>1, <2>3, <2>4
<1> HIDE DEF S, c
<1>5. \A j \in 0..(c - first) : j \in S
  BY <1>2, <1>3, <1>4, IntervalInduction
<1>6. c - first \in 0..(c - first) /\ first + (c - first) = c
  BY <1>1, <1>2
<1> QED BY <1>5, <1>6 DEF S, c

\* More entries, from a plan that is behind: every order is ready later, or at
\* the same time.
LEMMA RoundsCompare ==
    ASSUME NEW q, NEW q2, QueueType(q2), q \subseteq q2,
           \A t, u \in q2 : t.seq = u.seq => t = u,
           NEW n \in Int, NEW n2 \in Int, NEW m \in Int,
           NEW plans, NEW plans2, Rounds(plans, q, n), Rounds(plans2, q2, n2),
           Ahead(plans[0], n, plans2[0], n2, m)
    PROVE  Ahead(plans[Cardinality(q)], n, plans2[Cardinality(q2)], n2, m)
<1> DEFINE c == Cardinality(q)
           c2 == Cardinality(q2)
           Taken(k) == {u \in q : Rank(q2, u) < k}
           S == {k \in 0..c2 : Ahead(plans[Cardinality(Taken(k))], n, plans2[k], n2, m)}
<1>1. /\ QueueType(q)
      /\ \A t, u \in q : t.seq = u.seq => t = u
  BY FS_Subset DEF QueueType
<1>2. /\ c \in Nat
      /\ \A t \in q : Rank(q, t) \in 0..(c - 1)
      /\ \A t, u \in q : Rank(q, t) = Rank(q, u) => t = u
      /\ \A k \in 0..(c - 1) : Ranked(q, k) \in q /\ Rank(q, Ranked(q, k)) = k
  BY <1>1, RankNumbers
<1>3. /\ c2 \in Nat
      /\ \A t \in q2 : Rank(q2, t) \in 0..(c2 - 1)
      /\ \A t, u \in q2 : Rank(q2, t) = Rank(q2, u) => t = u
      /\ \A k \in 0..(c2 - 1) : Ranked(q2, k) \in q2 /\ Rank(q2, Ranked(q2, k)) = k
  BY RankNumbers
<1>4. \A k \in 0..c : PlanType(plans[k])
  BY <1>1, RoundsBounds
<1>5. \A k \in 0..c2 : PlanType(plans2[k])
  BY RoundsBounds
<1>6. \A k : Taken(k) \in SUBSET q
  OBVIOUS
<1>7. q2 \subseteq BakeTask /\ IsFiniteSet(q)
  BY <1>1 DEF QueueType
<1> HIDE DEF c, c2
<1>8. 0 \in S
  <2>1. Taken(0) = {}
    BY <1>3
  <2>2. Cardinality(Taken(0)) = 0
    BY <2>1, FS_EmptySet
  <2> QED BY <2>2, <1>3
<1>9. ASSUME NEW k \in 0..(c2 - 1), k \in S PROVE k + 1 \in S
  <2> DEFINE t == Ranked(q2, k)
             b == Cardinality(Taken(k))
  <2>1. k \in 0..c2 /\ k + 1 \in 0..c2 /\ k \in Int
    BY <1>3
  <2>2. t \in q2 /\ Rank(q2, t) = k /\ t \in BakeTask
    BY <1>3, <1>7
  <2>3. Round(plans2[k], plans2[k + 1], t, n2)
    BY DEF Rounds, c2
  <2>4. IsFiniteSet(Taken(k)) /\ b \in Nat /\ b <= c
    <3>1. IsFiniteSet(Taken(k)) /\ b <= c
      BY <1>6, <1>7, FS_Subset DEF c
    <3> QED BY <3>1, FS_CardinalityType
  <2>5. Ahead(plans[b], n, plans2[k], n2, m)
    BY <1>9
  <2>6. PlanType(plans[b]) /\ PlanType(plans2[k])
    <3>1. b \in 0..c
      BY <2>4, <1>2
    <3> QED BY <3>1, <2>1, <1>4, <1>5
  <2>7. \A u \in q : Rank(q2, u) < k + 1 <=> (Rank(q2, u) < k \/ u = t)
    <3> TAKE u \in q
    <3>1. Rank(q2, u) \in Int
      BY <1>3
    <3>2. Rank(q2, u) = k <=> u = t
      BY <1>3, <2>2
    <3> HIDE DEF t
    <3> QED BY <3>1, <3>2, <2>1
  <2>8. CASE t \in q
    <3>1. Taken(k + 1) = Taken(k) \cup {t} /\ t \notin Taken(k)
      <4>1. ~(Rank(q2, t) < k)
        BY <2>1, <2>2
      <4> HIDE DEF t
      <4> QED BY <2>7, <2>8, <4>1
    <3>2. Cardinality(Taken(k + 1)) = b + 1
      <4> HIDE DEF t, Taken
      <4> QED BY <3>1, <2>4, FS_AddElement DEF b
    <3>3. Taken(k) = {u \in q : Precedes(u, t)}
      <4>1. \A u \in q2 : Rank(q2, u) < Rank(q2, t) => Precedes(u, t)
        BY <2>2, LowerRankPrecedes
      <4>2. ASSUME NEW u \in q2, Precedes(u, t) PROVE Rank(q2, u) < k
        <5>1. Rank(q2, u) # k
          <6>1. u # t
            BY <4>2, <2>2 DEF Precedes, BakeTask, PriorityLevel, VIP, APP, WALK_IN
          <6> QED BY <6>1, <1>3, <2>2
        <5>2. ~(Rank(q2, t) < Rank(q2, u))
          <6>1. SUFFICES ASSUME Precedes(t, u) PROVE FALSE
            BY <2>2, LowerRankPrecedes
          <6>2. /\ t.priority \in 1..3 /\ u.priority \in 1..3
                /\ t.seq \in Nat /\ u.seq \in Nat
            BY <1>7, <2>2 DEF BakeTask, PriorityLevel, VIP, APP, WALK_IN
          <6> HIDE DEF t
          <6> QED BY <4>2, <6>1, <6>2 DEF Precedes
        <5>3. Rank(q2, u) \in Int
          BY <1>3
        <5> QED BY <5>1, <5>2, <5>3, <2>1, <2>2
      <4> HIDE DEF t
      <4> QED BY <4>1, <4>2, <2>2
    <3>4. Rank(q, t) = b
      BY <3>3 DEF Rank
    <3>5. b \in 0..(c - 1) /\ Ranked(q, b) = t
      <4>1. b \in 0..(c - 1)
        BY <3>4, <2>8, <1>2
      <4>2. Rank(q, Ranked(q, b)) = b /\ Ranked(q, b) \in q
        BY <4>1, <1>2
      <4> HIDE DEF t, b
      <4> QED BY <4>1, <4>2, <3>4, <2>8, <1>2
    <3>6. Round(plans[b], plans[b + 1], t, n)
      BY <3>5 DEF Rounds, c
    <3>7. Ahead(plans[b + 1], n, plans2[k + 1], n2, m)
      <4> HIDE DEF t, b
      <4> QED BY <2>2, <2>3, <2>5, <2>6, <3>6, RoundOfBoth
    <3> QED BY <3>2, <3>7, <2>1
  <2>9. CASE t \notin q
    <3>1. Taken(k + 1) = Taken(k)
      <4> HIDE DEF t
      <4> QED BY <2>7, <2>9
    <3>2. Ahead(plans[b], n, plans2[k + 1], n2, m)
      <4> HIDE DEF t, b
      <4> QED BY <2>2, <2>3, <2>5, <2>6, RoundOfOne
    <3> QED BY <3>1, <3>2, <2>1
  <2> QED BY <2>8, <2>9
<1> HIDE DEF S
<1>10. \A k \in 0..c2 : k \in S
  BY <1>3, <1>8, <1>9, IntervalInduction
<1>11. c2 \in S /\ Taken(c2) = q
  <2>1. c2 \in 0..c2 /\ \A u \in q : Rank(q2, u) < c2
    BY <1>3
  <2> QED BY <2>1, <1>10
<1> QED BY <1>11 DEF S, c, c2

-----------------------------------------------------------------------------
(* _project.                                                               *)

\* The plan that _project's loop starts from.
FirstPlan(sl, n) ==
    [free |-> FreeTimes(sl, n), ready |-> [o \in Orders |-> OnTrays(sl, o)]]

\* An order's time on the trays is the last of its bakes there, or no time.
LEMMA OnTraysBounds ==
    ASSUME NEW sl, SlotsType(sl), NEW o,
           \A s \in BusySlots(sl) : sl[s].finish_at >= NoTime
    PROVE  /\ OnTrays(sl, o) \in Int /\ OnTrays(sl, o) >= NoTime
           /\ \A s \in BusySlots(sl) :
                 sl[s].task.order = o => sl[s].finish_at <= OnTrays(sl, o)
           /\ \/ OnTrays(sl, o) = NoTime
                 /\ \A s \in BusySlots(sl) : sl[s].task.order # o
              \/ \E s \in BusySlots(sl) :
                    sl[s].task.order = o /\ sl[s].finish_at = OnTrays(sl, o)
<1> DEFINE T == {s \in BusySlots(sl) : sl[s].task.order = o}
           finishes == {sl[s].finish_at : s \in T}
           R == {p \in T \X T : \/ sl[p[1]].finish_at > sl[p[2]].finish_at
                                \/ /\ sl[p[1]].finish_at = sl[p[2]].finish_at
                                   /\ p[1] < p[2]}
<1>1. OnTrays(sl, o) = IF finishes = {} THEN NoTime
                       ELSE CHOOSE f \in finishes : \A g \in finishes : f >= g
  BY DEF OnTrays
<1>2. \A s \in T : s \in Int /\ sl[s].finish_at \in Int /\ sl[s].finish_at >= NoTime
  BY Trays DEF SlotsType, BusySlots, FreeSlots, Baking
<1>3. NoTime \in Int
  BY DEF NoTime
<1>4. CASE T = {}
  <2>1. OnTrays(sl, o) = NoTime
    BY <1>1, <1>4
  <2>2. \A s \in BusySlots(sl) : sl[s].task.order # o
    BY <1>4
  <2> QED BY <2>1, <2>2, <1>3
<1>5. CASE T # {}
  <2>1. IsFiniteSet(T)
    BY TasksFinite, FS_Subset
  <2>2. \A s, r \in T : <<s, r>> \in R <=>
           \/ sl[s].finish_at > sl[r].finish_at
           \/ sl[s].finish_at = sl[r].finish_at /\ s < r
    OBVIOUS
  <2> HIDE DEF R, T
  <2>3. StrictOrder(T, R)
    BY <1>2, <2>2 DEF StrictOrder
  <2>4. PICK s \in T : \A r \in T : <<r, s>> \notin R
    BY <1>5, <2>1, <2>3, FirstMember
  <2>5. \A r \in T : sl[s].finish_at >= sl[r].finish_at
    <3> TAKE r \in T
    <3>1. ~(sl[r].finish_at > sl[s].finish_at)
      BY <2>2, <2>4
    <3> QED BY <3>1, <1>2
  <2>6. \E f \in finishes : \A g \in finishes : f >= g
    BY <2>5
  <2>7. PICK f \in finishes : OnTrays(sl, o) = f /\ \A g \in finishes : f >= g
    BY <1>1, <2>6
  <2>8. PICK r \in T : f = sl[r].finish_at
    BY <2>7
  <2>9. \A a \in T : sl[a].finish_at <= f
    BY <1>2, <2>7, <2>8
  <2> QED BY <1>2, <2>7, <2>8, <2>9 DEF T
<1> QED BY <1>4, <1>5

\* The loop's start is a plan.
LEMMA FirstPlanType ==
    ASSUME NEW sl, SlotsType(sl), NEW n \in Int,
           \A s \in BusySlots(sl) : sl[s].finish_at >= NoTime
    PROVE  PlanType(FirstPlan(sl, n))
<1>1. \A s \in Slots : FreeTimes(sl, n)[s] \in Int
  BY DEF FreeTimes, SlotsType, Baking
<1>2. FreeTimes(sl, n) \in [Slots -> Int]
  BY <1>1 DEF FreeTimes
<1>3. \A o \in Orders : OnTrays(sl, o) \in Int
  BY OnTraysBounds
<1> QED BY <1>2, <1>3 DEF PlanType, FirstPlan

\* BakeNext is a round, on the tray that FirstFree chooses.
LEMMA BakeNextIsRound ==
    ASSUME NEW p, PlanType(p), NEW t \in BakeTask, NEW n \in Int
    PROVE  Round(p, BakeNext(p, t, n), t, n)
<1> DEFINE R == {v \in Slots \X Slots : \/ p.free[v[1]] < p.free[v[2]]
                                        \/ /\ p.free[v[1]] = p.free[v[2]]
                                           /\ v[1] < v[2]}
           s == FirstFree(p.free)
<1>1. \A a \in Slots : a \in Int /\ p.free[a] \in Int
  BY Trays DEF PlanType
<1>2. \A a, b \in Slots : <<a, b>> \in R <=>
         \/ p.free[a] < p.free[b]
         \/ p.free[a] = p.free[b] /\ a < b
  OBVIOUS
<1> HIDE DEF R
<1>3. StrictOrder(Slots, R)
  BY <1>1, <1>2 DEF StrictOrder
<1>4. Slots # {}
  BY TraysExist
<1>5. PICK a \in Slots : \A b \in Slots : <<b, a>> \notin R
  BY <1>3, <1>4, Trays, FirstMember
<1>6. \A b \in Slots : p.free[a] <= p.free[b]
  <2> TAKE b \in Slots
  <2>1. ~(p.free[b] < p.free[a])
    BY <1>2, <1>5
  <2> QED BY <2>1, <1>1
<1>7. s \in Slots /\ \A b \in Slots : p.free[s] <= p.free[b]
  BY <1>6 DEF FirstFree
<1>8. \A b \in Slots : Later(p.free[s], n) <= Later(p.free[b], n)
  BY <1>1, <1>7 DEF Later
<1>9. /\ BakeNext(p, t, n).free = [p.free EXCEPT ![s] = Later(p.free[s], n) + t.bake_seconds]
      /\ BakeNext(p, t, n).ready = [p.ready EXCEPT ![t.order] =
                                       Later(@, Later(p.free[s], n) + t.bake_seconds)]
  BY DEF BakeNext
<1> HIDE DEF s
<1> QED BY <1>7, <1>8, <1>9 DEF Round

\* The plans of _project's loop are a run of rounds that ends in its answer.
LEMMA ProjectRounds ==
    ASSUME NEW sl, SlotsType(sl), NEW q, QueueType(q), NEW n \in Int,
           \A t, u \in q : t.seq = u.seq => t = u,
           \A s \in BusySlots(sl) : sl[s].finish_at >= NoTime
    PROVE  \E plans : /\ Rounds(plans, q, n)
                      /\ plans[0] = FirstPlan(sl, n)
                      /\ Project(sl, q, n) = plans[Cardinality(q)].ready
<1> DEFINE c == Cardinality(q)
           NextPlan(f, k) == IF k = 0 THEN FirstPlan(sl, n)
                         ELSE BakeNext(f[k - 1], Ranked(q, k - 1), n)
           S == {m \in 0..c : \E f : f = [k \in 0..m |-> NextPlan(f, k)]}
           plan == CHOOSE f : f = [k \in 0..c |-> NextPlan(f, k)]
<1>1. /\ c \in Nat
      /\ \A k \in 0..(c - 1) : Ranked(q, k) \in q
  BY RankNumbers
<1>2. q \subseteq BakeTask
  BY DEF QueueType
<1>3. Project(sl, q, n) = plan[c].ready
  BY DEF Project, FirstPlan
<1> HIDE DEF c
\* The recursive definition of the plans is of a function there is.
<1>4. 0 \in S
  <2> DEFINE f == [k \in 0..0 |-> FirstPlan(sl, n)]
  <2>1. \A k \in 0..0 : k = 0
    OBVIOUS
  <2>2. f = [k \in 0..0 |-> NextPlan(f, k)]
    BY <2>1
  <2>3. \E h : h = [k \in 0..0 |-> NextPlan(h, k)]
    <3> HIDE DEF f, NextPlan
    <3> QED BY <2>2
  <2>4. 0 \in 0..c
    BY <1>1
  <2> HIDE DEF NextPlan
  <2> QED BY <2>3, <2>4
<1>5. ASSUME NEW m \in 0..(c - 1), m \in S PROVE m + 1 \in S
  <2>1. PICK f : f = [k \in 0..m |-> NextPlan(f, k)]
    BY <1>5
  <2> DEFINE g == [k \in 0..(m + 1) |->
                      IF k = m + 1 THEN BakeNext(f[m], Ranked(q, m), n) ELSE f[k]]
  <2>2. m + 1 \in 0..c /\ m \in Nat
    BY <1>1
  <2>3. ASSUME NEW k \in 0..(m + 1) PROVE g[k] = NextPlan(g, k)
    <3>1. CASE k = m + 1
      <4>1. k # 0 /\ k - 1 = m /\ m \in 0..(m + 1) /\ m # m + 1
        BY <2>2, <3>1
      <4>2. g[k - 1] = f[m] /\ g[k] = BakeNext(f[m], Ranked(q, m), n)
        BY <3>1, <4>1
      <4> HIDE DEF g
      <4> QED BY <4>1, <4>2
    <3>2. CASE k # m + 1
      <4>1. k \in 0..m /\ g[k] = f[k]
        BY <2>2, <3>2
      <4>2. f[k] = NextPlan(f, k)
        BY <2>1, <4>1
      <4>3. CASE k = 0
        <5> HIDE DEF g
        <5> QED BY <4>1, <4>2, <4>3
      <4>4. CASE k # 0
        <5>1. k - 1 \in 0..(m + 1) /\ k - 1 # m + 1
          BY <2>2, <4>1, <4>4
        <5>2. g[k - 1] = f[k - 1]
          BY <5>1
        <5> HIDE DEF g
        <5> QED BY <4>1, <4>2, <4>4, <5>2
      <4> QED BY <4>3, <4>4
    <3> QED BY <3>1, <3>2
  <2>4. g = [k \in 0..(m + 1) |-> NextPlan(g, k)]
    BY <2>3
  <2> HIDE DEF g
  <2> QED BY <2>2, <2>4
<1>6. c \in S
  <2> HIDE DEF S
  <2>1. \A k \in 0..c : k \in S
    BY <1>1, <1>4, <1>5, IntervalInduction
  <2> QED BY <1>1, <2>1
<1>7. plan = [k \in 0..c |-> NextPlan(plan, k)]
  <2>1. \E f : f = [k \in 0..c |-> NextPlan(f, k)]
    BY <1>6
  <2> HIDE DEF NextPlan
  <2> QED BY <2>1
<1> HIDE DEF plan
<1>8. plan[0] = FirstPlan(sl, n)
  <2>1. 0 \in 0..c
    BY <1>1
  <2> QED BY <1>7, <2>1
<1>9. \A k \in 0..(c - 1) : plan[k + 1] = BakeNext(plan[k], Ranked(q, k), n)
  <2> TAKE k \in 0..(c - 1)
  <2>1. k + 1 \in 0..c /\ k + 1 # 0 /\ (k + 1) - 1 = k
    BY <1>1
  <2>2. plan[k + 1] = NextPlan(plan, k + 1)
    BY <1>7, <2>1
  <2> QED BY <2>1, <2>2
\* Each is a plan, made by a round.
<1> DEFINE P == {k \in 0..c : PlanType(plan[k])}
<1>10. \A k \in 0..(c - 1) : PlanType(plan[k]) => Round(plan[k], plan[k + 1], Ranked(q, k), n)
  <2> SUFFICES ASSUME NEW k \in 0..(c - 1), PlanType(plan[k])
               PROVE  Round(plan[k], plan[k + 1], Ranked(q, k), n)
    OBVIOUS
  <2>1. Ranked(q, k) \in BakeTask
    BY <1>1, <1>2
  <2>2. Round(plan[k], BakeNext(plan[k], Ranked(q, k), n), Ranked(q, k), n)
    BY <2>1, BakeNextIsRound
  <2> QED BY <1>9, <2>2
<1>11. PlanType(plan[0])
  BY <1>8, FirstPlanType
<1>12. 0 \in P
  BY <1>1, <1>11
<1>13. ASSUME NEW k \in 0..(c - 1), k \in P PROVE k + 1 \in P
  <2>1. k + 1 \in 0..c /\ Ranked(q, k) \in BakeTask
    BY <1>1, <1>2
  <2>2. PlanType(plan[k]) /\ Round(plan[k], plan[k + 1], Ranked(q, k), n)
    BY <1>10, <1>13
  <2>3. PlanType(plan[k + 1])
    BY <2>1, <2>2, RoundPlans
  <2> QED BY <2>1, <2>3
<1>14. \A k \in 0..c : PlanType(plan[k])
  <2> HIDE DEF P
  <2>1. \A k \in 0..c : k \in P
    BY <1>1, <1>12, <1>13, IntervalInduction
  <2> QED BY <2>1 DEF P
<1>15. Rounds(plan, q, n)
  <2>1. \A k \in 0..(c - 1) : k \in 0..c
    BY <1>1
  <2> QED BY <1>10, <1>11, <1>14, <2>1 DEF Rounds, c
<1> QED BY <1>3, <1>8, <1>15 DEF c

-----------------------------------------------------------------------------
(* tick: the rounds that filling the idle trays plays in advance.          *)

\* As many entries as k have a rank below k.
LEMMA RanksBelow ==
    ASSUME NEW q, QueueType(q), \A t, u \in q : t.seq = u.seq => t = u,
           NEW k \in 0..Cardinality(q)
    PROVE  /\ IsFiniteSet({u \in q : Rank(q, u) < k})
           /\ Cardinality({u \in q : Rank(q, u) < k}) = k
<1> DEFINE B == {u \in q : Rank(q, u) < k}
           I == 0..(k - 1)
           f == [u \in B |-> Rank(q, u)]
<1>1. /\ Cardinality(q) \in Nat
      /\ \A t \in q : Rank(q, t) \in 0..(Cardinality(q) - 1)
      /\ \A t, u \in q : Rank(q, t) = Rank(q, u) => t = u
      /\ \A j \in 0..(Cardinality(q) - 1) : Ranked(q, j) \in q /\ Rank(q, Ranked(q, j)) = j
  BY RankNumbers
<1>2. k \in Nat
  BY <1>1
<1>3. IsFiniteSet(B)
  BY FS_Subset DEF QueueType
<1>4. f \in Bijection(B, I)
  <2>1. \A u \in B : f[u] \in I
    BY <1>1, <1>2
  <2>2. \A t, u \in B : f[t] = f[u] => t = u
    BY <1>1
  <2>3. ASSUME NEW j \in I PROVE \E u \in B : f[u] = j
    <3>1. j \in 0..(Cardinality(q) - 1) /\ j < k
      BY <1>1, <1>2
    <3>2. Ranked(q, j) \in B /\ f[Ranked(q, j)] = j
      BY <1>1, <3>1
    <3> QED BY <3>2
  <2> HIDE DEF B, I
  <2> QED BY <2>1, <2>2, <2>3 DEF Bijection, Injection, Surjection, IsInjective
<1>5. Cardinality(I) = k
  <2>1. 0 \in Int /\ k - 1 \in Int
    BY <1>2
  <2>2. Cardinality(I) = IF 0 > k - 1 THEN 0 ELSE k - 1 - 0 + 1
    BY <2>1, FS_Interval
  <2> QED BY <1>2, <2>2
<1>6. Cardinality(I) = Cardinality(B)
  <2> HIDE DEF B, I, f
  <2> QED BY <1>3, <1>4, FS_Bijection DEF ExistsBijection
<1> QED BY <1>3, <1>5, <1>6

\* The entries that a fill leaves move up by the number of idle slots.
LEMMA LeftRanks ==
    ASSUME NEW sl, NEW q, QueueType(q), \A t, u \in q : t.seq = u.seq => t = u
    PROVE  LET idle == Cardinality(FreeSlots(sl))
               q2 == LeftInQueue(sl, q)
           IN  /\ idle \in Nat /\ Cardinality(q2) \in Nat
               /\ Cardinality(q2) = IF idle <= Cardinality(q) THEN Cardinality(q) - idle ELSE 0
               /\ \A t \in q2 : Rank(q2, t) = Rank(q, t) - idle
               /\ \A k \in 0..(Cardinality(q2) - 1) : Ranked(q2, k) = Ranked(q, idle + k)
<1> DEFINE c == Cardinality(q)
           f == Cardinality(FreeSlots(sl))
           q2 == LeftInQueue(sl, q)
           popped == {u \in q : Rank(q, u) < f}
<1>1. /\ c \in Nat
      /\ \A t \in q : Rank(q, t) \in 0..(c - 1)
      /\ \A t, u \in q : Rank(q, t) = Rank(q, u) => t = u
      /\ \A k \in 0..(c - 1) : Ranked(q, k) \in q /\ Rank(q, Ranked(q, k)) = k
  BY RankNumbers
<1>2. f \in Nat
  BY TurnNumbers
<1>3. IsFiniteSet(q)
  BY DEF QueueType
<1>4. \A t \in q : t \in q2 <=> Rank(q, t) >= f
  BY DEF LeftInQueue
<1>5. q2 \subseteq q
  BY DEF LeftInQueue
<1>6. /\ QueueType(q2)
      /\ \A t, u \in q2 : t.seq = u.seq => t = u
      /\ IsFiniteSet(q2) /\ Cardinality(q2) \in Nat
  BY <1>5, FS_Subset, FS_CardinalityType DEF QueueType
<1> HIDE DEF c, f, q2
<1>7. IsFiniteSet(popped) /\ Cardinality(popped) = IF f <= c THEN f ELSE c
  <2>1. CASE f <= c
    <3>1. f \in 0..c
      BY <1>1, <1>2, <2>1
    <3> QED BY <2>1, <3>1, RanksBelow DEF c
  <2>2. CASE ~(f <= c)
    <3>1. popped = q
      BY <1>1, <1>2, <2>2
    <3> QED BY <1>3, <2>2, <3>1 DEF c
  <2> QED BY <2>1, <2>2
<1>8. q2 = q \ popped /\ popped \subseteq q
  BY <1>1, <1>2, <1>4, <1>5
<1>9. Cardinality(q2) = IF f <= c THEN c - f ELSE 0
  <2>1. Cardinality(q \ popped) = c - Cardinality(q \cap popped)
    BY <1>3, FS_Difference DEF c
  <2>2. q \cap popped = popped
    BY <1>8
  <2>3. Cardinality(q2) = c - Cardinality(popped)
    BY <1>8, <2>1, <2>2
  <2> HIDE DEF popped
  <2> QED BY <1>1, <1>2, <1>7, <2>3
<1>10. ASSUME NEW t \in q2 PROVE Rank(q2, t) = Rank(q, t) - f
  <2> DEFINE A == {u \in q : Precedes(u, t)}
             A2 == {u \in q2 : Precedes(u, t)}
  <2>1. t \in q /\ Rank(q, t) >= f /\ Rank(q, t) \in Nat /\ Rank(q, t) < c
    BY <1>1, <1>4, <1>5
  <2>2. popped \subseteq A
    <3>1. \A u \in popped : u \in q /\ Rank(q, u) < Rank(q, t)
      BY <1>1, <1>2, <2>1
    <3> QED BY <2>1, <3>1, LowerRankPrecedes
  <2>3. A2 = A \ popped
    BY <1>8
  <2>4. IsFiniteSet(A)
    BY <1>3, FS_Subset
  <2>5. Cardinality(popped) = f
    BY <1>1, <1>2, <1>7, <2>1
  <2> HIDE DEF A, A2, popped
  <2>6. Cardinality(A \ popped) = Cardinality(A) - Cardinality(A \cap popped)
    BY <2>4, FS_Difference
  <2>7. A \cap popped = popped
    BY <2>2
  <2> QED BY <2>3, <2>5, <2>6, <2>7 DEF Rank, A, A2
<1>11. ASSUME NEW k \in 0..(Cardinality(q2) - 1) PROVE Ranked(q2, k) = Ranked(q, f + k)
  <2> DEFINE t == Ranked(q2, k)
  <2>1. t \in q2 /\ Rank(q2, t) = k
    BY <1>6, RankNumbers
  <2> HIDE DEF t
  <2>2. t \in q /\ Rank(q, t) = f + k
    <3>1. Rank(q, t) \in Int /\ t \in q
      BY <1>1, <1>5, <2>1
    <3>2. k = Rank(q, t) - f /\ k \in Int
      BY <1>6, <1>10, <2>1
    <3> QED BY <1>2, <3>1, <3>2
  <2>3. f + k \in 0..(c - 1)
    BY <1>1, <2>2
  <2>4. Ranked(q, f + k) \in q /\ Rank(q, Ranked(q, f + k)) = f + k
    BY <1>1, <2>3
  <2>5. t = Ranked(q, f + k)
    BY <1>1, <2>2, <2>4
  <2> QED BY <2>5 DEF t
<1> QED BY <1>2, <1>6, <1>9, <1>10, <1>11 DEF c, f, q2

\* Loading an idle tray is a round.
LEMMA LoadIsRound ==
    ASSUME NEW sl, SlotsType(sl), NEW n \in Int, n >= NoTime,
           \A s \in BusySlots(sl) : sl[s].finish_at >= NoTime,
           NEW s \in FreeSlots(sl), NEW t \in BakeTask
    PROVE  LET sl2 == [sl EXCEPT ![s] = StartBaking(t, n)]
           IN  /\ SlotsType(sl2)
               /\ \A r \in BusySlots(sl2) : sl2[r].finish_at >= NoTime
               /\ Round(FirstPlan(sl, n), FirstPlan(sl2, n), t, n)
<1> DEFINE b == StartBaking(t, n)
           sl2 == [sl EXCEPT ![s] = b]
           p == FirstPlan(sl, n)
           p2 == FirstPlan(sl2, n)
           finish == n + t.bake_seconds
<1>1. t.order \in Orders /\ t.bake_seconds \in Nat
  BY DEF BakeTask
<1>2. /\ b \in Baking /\ b.task = t /\ b.finish_at = finish /\ b # NoTask
  BY <1>1, KitchenAssumption DEF StartBaking, Baking
<1>3. finish \in Int /\ finish >= NoTime /\ finish >= n
  BY <1>1 DEF NoTime
<1> HIDE DEF b, finish
<1>4. s \in Slots /\ sl[s] = NoTask
  BY DEF FreeSlots
<1>5. \A r \in Slots : sl2[r] = IF r = s THEN b ELSE sl[r]
  BY <1>4 DEF SlotsType
<1>6. SlotsType(sl2)
  BY <1>2 DEF SlotsType
<1>7. BusySlots(sl2) = BusySlots(sl) \cup {s} /\ s \notin BusySlots(sl)
  BY <1>2, <1>4, <1>5 DEF BusySlots, FreeSlots
<1>8. \A r \in BusySlots(sl) : r \in Slots /\ sl2[r] = sl[r]
  BY <1>5, <1>7 DEF BusySlots
<1>9. \A r \in BusySlots(sl2) : sl2[r].finish_at >= NoTime
  BY <1>2, <1>3, <1>4, <1>5, <1>7, <1>8
<1> HIDE DEF sl2
<1>10. /\ p.free = FreeTimes(sl, n) /\ p2.free = FreeTimes(sl2, n)
       /\ p.ready = [o \in Orders |-> OnTrays(sl, o)]
       /\ p2.ready = [o \in Orders |-> OnTrays(sl2, o)]
  BY DEF FirstPlan
<1>11. PlanType(p) /\ PlanType(p2)
  BY <1>6, <1>9, FirstPlanType
<1>12. p.free[s] = n /\ Later(p.free[s], n) = n
  BY <1>4, <1>10 DEF FreeTimes, Later
<1>13. \A r \in Slots : Later(p.free[s], n) <= Later(p.free[r], n)
  <2>1. \A r \in Slots : p.free[r] \in Int
    BY <1>11 DEF PlanType
  <2> QED BY <1>12, <2>1 DEF Later
<1>14. p2.free = [p.free EXCEPT ![s] = finish]
  <2>1. \A r \in Slots : p2.free[r] = IF r = s THEN finish ELSE p.free[r]
    <3> TAKE r \in Slots
    <3>1. p2.free[r] = IF sl2[r] = NoTask THEN n ELSE sl2[r].finish_at
      BY <1>10 DEF FreeTimes
    <3>2. p.free[r] = IF sl[r] = NoTask THEN n ELSE sl[r].finish_at
      BY <1>10 DEF FreeTimes
    <3> HIDE DEF p, p2
    <3> QED BY <3>1, <3>2, <1>2, <1>5
  <2> HIDE DEF p, p2
  <2> QED BY <2>1, <1>3, <1>11 DEF PlanType
<1>15. ASSUME NEW o \in Orders
       PROVE  p2.ready[o] = IF o = t.order THEN Later(p.ready[o], finish) ELSE p.ready[o]
  <2> DEFINE x == OnTrays(sl, o)
             y == OnTrays(sl2, o)
  <2>1. /\ x \in Int /\ x >= NoTime
        /\ \A r \in BusySlots(sl) : sl[r].task.order = o => sl[r].finish_at <= x
        /\ \/ x = NoTime /\ \A r \in BusySlots(sl) : sl[r].task.order # o
           \/ \E r \in BusySlots(sl) : sl[r].task.order = o /\ sl[r].finish_at = x
    BY OnTraysBounds
  <2>2. /\ y \in Int /\ y >= NoTime
        /\ \A r \in BusySlots(sl2) : sl2[r].task.order = o => sl2[r].finish_at <= y
        /\ \/ y = NoTime /\ \A r \in BusySlots(sl2) : sl2[r].task.order # o
           \/ \E r \in BusySlots(sl2) : sl2[r].task.order = o /\ sl2[r].finish_at = y
    BY <1>6, <1>9, OnTraysBounds
  <2>3. p.ready[o] = x /\ p2.ready[o] = y
    BY <1>10
  <2>4. sl2[s].task = t /\ sl2[s].finish_at = finish /\ s \in BusySlots(sl2)
    BY <1>2, <1>4, <1>5, <1>7
  <2> HIDE DEF x, y, p, p2
  <2>5. x <= y
    <3>1. CASE x = NoTime
      BY <2>2, <3>1
    <3>2. CASE \E r \in BusySlots(sl) : sl[r].task.order = o /\ sl[r].finish_at = x
      BY <3>2, <1>7, <1>8, <2>2
    <3> QED BY <2>1, <3>1, <3>2
  <2>6. CASE o = t.order
    <3>1. finish <= y
      BY <2>2, <2>4, <2>6
    <3>2. y <= x \/ y = finish
      <4>1. CASE \E r \in BusySlots(sl2) : sl2[r].task.order = o /\ sl2[r].finish_at = y
        <5>1. PICK r \in BusySlots(sl2) : sl2[r].task.order = o /\ sl2[r].finish_at = y
          BY <4>1
        <5> QED BY <5>1, <1>7, <1>8, <2>1, <2>4
      <4> QED BY <2>2, <2>4, <2>6, <4>1
    <3> QED BY <2>1, <2>2, <2>3, <2>5, <2>6, <3>1, <3>2, <1>3 DEF Later
  <2>7. CASE o # t.order
    <3>1. y <= x
      <4>1. CASE y = NoTime
        BY <2>1, <4>1
      <4>2. CASE \E r \in BusySlots(sl2) : sl2[r].task.order = o /\ sl2[r].finish_at = y
        <5>1. PICK r \in BusySlots(sl2) : sl2[r].task.order = o /\ sl2[r].finish_at = y
          BY <4>2
        <5>2. r # s
          BY <5>1, <2>4, <2>7
        <5> QED BY <5>1, <5>2, <1>7, <1>8, <2>1
      <4> QED BY <2>2, <4>1, <4>2
    <3> QED BY <2>1, <2>2, <2>3, <2>5, <2>7, <3>1
  <2> QED BY <2>6, <2>7
<1>16. p2.ready = [p.ready EXCEPT ![t.order] = Later(@, finish)]
  <2> HIDE DEF p, p2
  <2> QED BY <1>1, <1>11, <1>15 DEF PlanType
<1>17. Later(p.free[s], n) + t.bake_seconds = finish
  BY <1>12 DEF finish
<1>18. Round(p, p2, t, n)
  <2> HIDE DEF p, p2
  <2> QED BY <1>4, <1>13, <1>14, <1>16, <1>17 DEF Round
<1> QED BY <1>6, <1>9, <1>18 DEF sl2, b

\* A run of rounds over the queue that starts with the trays as a tick clears
\* them ends in the answer for the trays and the queue as the tick leaves them.
LEMMA FillRounds ==
    ASSUME NEW sl, SlotsType(sl), NEW q, QueueType(q), NEW n \in Int, n >= NoTime,
           Distinct(sl, q),
           \A s \in BusySlots(sl) : sl[s].finish_at >= NoTime
    PROVE  \E plans :
              /\ Rounds(plans, q, n)
              /\ plans[0] = FirstPlan(sl, n)
              /\ Project(FilledSlots(sl, q, n), LeftInQueue(sl, q), n)
                    = plans[Cardinality(q)].ready
<1> DEFINE c == Cardinality(q)
           F == FreeSlots(sl)
           f == Cardinality(F)
           m == IF f <= c THEN f ELSE c
           sl2 == FilledSlots(sl, q, n)
           q2 == LeftInQueue(sl, q)
           Loaded(k) == [s \in Slots |-> IF s \in F /\ Turn(sl, s) < k
                                         THEN StartBaking(Ranked(q, Turn(sl, s)), n)
                                         ELSE sl[s]]
<1>1. /\ c \in Nat
      /\ \A k \in 0..(c - 1) : Ranked(q, k) \in q
  BY RankNumbers DEF Distinct
<1>2. /\ f \in Nat
      /\ \A s \in F : Turn(sl, s) \in 0..(f - 1)
      /\ \A s, r \in F : Turn(sl, s) = Turn(sl, r) => s = r
      /\ \A k \in 0..(f - 1) : \E s \in F : Turn(sl, s) = k
  BY TurnNumbers
<1>3. q \subseteq BakeTask
  BY DEF QueueType
<1>4. /\ Cardinality(q2) \in Nat
      /\ Cardinality(q2) = IF f <= c THEN c - f ELSE 0
      /\ \A k \in 0..(Cardinality(q2) - 1) : Ranked(q2, k) = Ranked(q, f + k)
  BY LeftRanks DEF Distinct
<1>5. /\ SlotsType(sl2) /\ QueueType(q2) /\ Distinct(sl2, q2)
      /\ \A s \in BusySlots(sl) : sl2[s] = sl[s]
      /\ \A s \in F \cap BusySlots(sl2) :
            sl2[s] = StartBaking(sl2[s].task, n) /\ sl2[s].task \in q
  BY FillMoves
<1>6. F \subseteq Slots /\ \A s \in F : sl[s] = NoTask
  BY DEF FreeSlots
<1> HIDE DEF c, f, F, q2, sl2
<1>7. \A s \in BusySlots(sl2) : sl2[s].finish_at >= NoTime
  <2> TAKE s \in BusySlots(sl2)
  <2>1. CASE s \in BusySlots(sl)
    BY <1>5, <2>1
  <2>2. CASE s \notin BusySlots(sl)
    <3>1. s \in F \cap BusySlots(sl2)
      BY <2>2 DEF BusySlots, F
    <3>2. sl2[s].task \in BakeTask /\ sl2[s] = StartBaking(sl2[s].task, n)
      BY <1>3, <1>5, <3>1
    <3> DEFINE t == sl2[s].task
    <3>3. sl2[s].finish_at = n + t.bake_seconds /\ t.bake_seconds \in Nat
      BY <3>2 DEF StartBaking, BakeTask
    <3> QED BY <3>3 DEF NoTime
  <2> QED BY <2>1, <2>2
<1>8. PICK rest : /\ Rounds(rest, q2, n)
                  /\ rest[0] = FirstPlan(sl2, n)
                  /\ Project(sl2, q2, n) = rest[Cardinality(q2)].ready
  BY <1>5, <1>7, ProjectRounds DEF Distinct
\* The rounds of the fill, in the order of the idle trays.
<1> DEFINE Kept(k) == /\ SlotsType(Loaded(k))
                      /\ \A s \in BusySlots(Loaded(k)) : Loaded(k)[s].finish_at >= NoTime
           Played(k) == Round(FirstPlan(Loaded(k), n), FirstPlan(Loaded(k + 1), n),
                              Ranked(q, k), n)
           S == {k \in 0..m : Kept(k)}
<1>9. m \in Nat /\ m <= f /\ m <= c
  BY <1>1, <1>2
<1>10. Loaded(0) = sl
  <2>1. \A s \in F : ~(Turn(sl, s) < 0)
    BY <1>2
  <2> QED BY <2>1 DEF SlotsType
<1>11. Loaded(m) = sl2
  <2>1. \A s \in F : Turn(sl, s) < m <=> Turn(sl, s) < c
    BY <1>1, <1>2
  <2> QED BY <2>1 DEF sl2, FilledSlots, F, c
<1>12. ASSUME NEW k \in 0..(m - 1), Kept(k) PROVE Kept(k + 1) /\ Played(k)
  <2>1. k \in 0..(f - 1) /\ k \in 0..(c - 1) /\ k \in Int
    BY <1>1, <1>2, <1>9
  <2>2. PICK s \in F : Turn(sl, s) = k
    BY <1>2, <2>1
  <2> DEFINE t == Ranked(q, k)
  <2>3. t \in BakeTask
    BY <1>1, <1>3, <2>1
  <2>4. s \in FreeSlots(Loaded(k))
    <3>1. s \in Slots /\ sl[s] = NoTask /\ ~(Turn(sl, s) < k)
      BY <1>6, <2>1, <2>2
    <3>2. Loaded(k)[s] = NoTask
      BY <3>1
    <3> QED BY <3>1, <3>2 DEF FreeSlots
  <2>5. Loaded(k + 1) = [Loaded(k) EXCEPT ![s] = StartBaking(t, n)]
    <3>1. \A r \in F : Turn(sl, r) < k + 1 <=> Turn(sl, r) < k \/ r = s
      <4> TAKE r \in F
      <4>1. Turn(sl, r) \in Int /\ (Turn(sl, r) = k <=> r = s)
        BY <1>2, <2>2
      <4> QED BY <2>1, <4>1
    <3>2. s \in Slots /\ s \in F /\ Turn(sl, s) < k + 1
      BY <1>6, <2>1, <2>2
    <3>3. \A r \in Slots : Loaded(k + 1)[r] = IF r = s THEN StartBaking(t, n) ELSE Loaded(k)[r]
      BY <2>2, <3>1, <3>2
    <3> QED BY <3>2, <3>3
  <2> HIDE DEF Loaded, t
  <2>6. SlotsType(Loaded(k)) /\ \A r \in BusySlots(Loaded(k)) : Loaded(k)[r].finish_at >= NoTime
    BY <1>12
  <2>7. LET b == [Loaded(k) EXCEPT ![s] = StartBaking(t, n)]
        IN  /\ SlotsType(b)
            /\ \A r \in BusySlots(b) : b[r].finish_at >= NoTime
            /\ Round(FirstPlan(Loaded(k), n), FirstPlan(b, n), t, n)
    BY <2>3, <2>4, <2>6, LoadIsRound
  <2> QED BY <2>5, <2>7 DEF t
<1> HIDE DEF Loaded, Played
<1>13. \A k \in 0..m : Kept(k)
  <2>1. Kept(0)
    BY <1>10
  <2> HIDE DEF Kept, m
  <2>2. 0 \in S
    BY <1>9, <2>1
  <2>3. ASSUME NEW k \in 0..(m - 1), k \in S PROVE k + 1 \in S
    <3>1. k + 1 \in 0..m
      BY <1>9
    <3> QED BY <1>12, <2>3, <3>1
  <2> HIDE DEF S
  <2>4. \A k \in 0..m : k \in S
    BY <1>9, <2>2, <2>3, IntervalInduction
  <2> QED BY <2>4 DEF S
<1> HIDE DEF Kept, m
<1>14. \A k \in 0..(m - 1) : Played(k)
  <2>1. \A k \in 0..(m - 1) : k \in 0..m
    BY <1>9
  <2> QED BY <1>12, <1>13, <2>1
\* Then come the rounds of what is left.
<1> DEFINE plans == [k \in 0..c |-> IF k <= m THEN FirstPlan(Loaded(k), n) ELSE rest[k - m]]
<1>15. \A k \in 0..m : k \in 0..c /\ plans[k] = FirstPlan(Loaded(k), n)
  BY <1>1, <1>9
<1>16. \A k \in m..c : plans[k] = rest[k - m]
  <2> TAKE k \in m..c
  <2>1. CASE k = m
    <3>1. plans[k] = FirstPlan(sl2, n)
      BY <1>9, <1>11, <1>15, <2>1
    <3>2. k - m = 0
      BY <1>9, <2>1
    <3> HIDE DEF plans
    <3> QED BY <1>8, <3>1, <3>2
  <2>2. CASE k # m
    <3>1. k \in 0..c /\ ~(k <= m)
      BY <1>1, <1>9, <2>2
    <3> QED BY <3>1
  <2> QED BY <2>1, <2>2
<1>17. plans[0] = FirstPlan(sl, n)
  BY <1>9, <1>10, <1>15
<1> HIDE DEF plans
<1>18. ASSUME NEW k \in 0..(c - 1) PROVE Round(plans[k], plans[k + 1], Ranked(q, k), n)
  <2>1. CASE k < m
    <3>1. k \in 0..(m - 1) /\ k \in 0..m /\ k + 1 \in 0..m
      BY <1>1, <1>9, <2>1
    <3>2. plans[k] = FirstPlan(Loaded(k), n) /\ plans[k + 1] = FirstPlan(Loaded(k + 1), n)
      BY <1>15, <3>1
    <3> QED BY <1>14, <3>1, <3>2 DEF Played
  <2>2. CASE ~(k < m)
    <3>1. k \in m..c /\ k + 1 \in m..c /\ (k + 1) - m = (k - m) + 1
      BY <1>1, <1>9, <2>2
    <3>2. m = f /\ k - m \in 0..(Cardinality(q2) - 1) /\ f + (k - m) = k
      BY <1>1, <1>2, <1>4, <1>9, <2>2 DEF m
    <3>3. plans[k] = rest[k - m] /\ plans[k + 1] = rest[(k - m) + 1]
      BY <1>16, <3>1
    <3>4. Ranked(q2, k - m) = Ranked(q, k)
      BY <1>4, <3>2
    <3>5. Round(rest[k - m], rest[(k - m) + 1], Ranked(q2, k - m), n)
      BY <1>8, <3>2 DEF Rounds
    <3> QED BY <3>3, <3>4, <3>5
  <2> QED BY <2>1, <2>2
<1>19. Rounds(plans, q, n)
  <2>1. PlanType(plans[0])
    BY <1>17, FirstPlanType
  <2> QED BY <1>18, <2>1 DEF Rounds, c
<1>20. plans[c] = rest[Cardinality(q2)]
  <2>1. c \in m..c /\ c - m = Cardinality(q2)
    BY <1>1, <1>2, <1>4, <1>9 DEF m
  <2> QED BY <1>16, <2>1
<1> QED BY <1>8, <1>17, <1>19, <1>20 DEF c, sl2, q2

-----------------------------------------------------------------------------
(* How the estimates of two kitchens compare.                              *)

\* A kitchen as the modules keep it: each unit once, and no bake ends before time
\* began.
Kitchen(sl, q) ==
    /\ SlotsType(sl) /\ QueueType(q) /\ Distinct(sl, q)
    /\ \A s \in BusySlots(sl) : sl[s].finish_at >= NoTime

\* An estimate is a time no earlier than any bake of the order on a tray ends or
\* any unit of it in the queue can be baked; without a unit in the queue it is
\* the end of the bakes, and without a unit at all there is none.
LEMMA ProjectBounds ==
    ASSUME NEW sl, NEW q, Kitchen(sl, q), NEW n \in Int, NEW o \in Orders
    PROVE  LET ready == Project(sl, q, n)[o]
           IN  /\ ready \in Int /\ ready >= NoTime
               /\ \A s \in BusySlots(sl) : sl[s].task.order = o => sl[s].finish_at <= ready
               /\ \A t \in q : t.order = o => n + t.bake_seconds <= ready
               /\ (\A t \in q : t.order # o) => ready = OnTrays(sl, o)
               /\ (\A t \in TasksOn(sl) \cup q : t.order # o) => ready = NoTime
<1> DEFINE ready == Project(sl, q, n)[o]
           c == Cardinality(q)
<1>1. /\ SlotsType(sl) /\ QueueType(q)
      /\ \A t, u \in q : t.seq = u.seq => t = u
      /\ \A s \in BusySlots(sl) : sl[s].finish_at >= NoTime
  BY DEF Kitchen, Distinct
<1>2. PICK plans : /\ Rounds(plans, q, n)
                   /\ plans[0] = FirstPlan(sl, n)
                   /\ Project(sl, q, n) = plans[c].ready
  BY <1>1, ProjectRounds
<1>3. /\ \A k \in 0..c : PlanType(plans[k])
      /\ \A p \in Orders : plans[c].ready[p] >= plans[0].ready[p]
      /\ \A t \in q : plans[c].ready[t.order] >= n + t.bake_seconds
      /\ \A p \in Orders : (\A t \in q : t.order # p) => plans[c].ready[p] = plans[0].ready[p]
  BY <1>1, <1>2, RoundsBounds
<1>4. c \in Nat
  BY <1>1, RankNumbers
<1>5. plans[0].ready[o] = OnTrays(sl, o)
  BY <1>2 DEF FirstPlan
<1>6. /\ OnTrays(sl, o) \in Int /\ OnTrays(sl, o) >= NoTime
      /\ \A s \in BusySlots(sl) : sl[s].task.order = o => sl[s].finish_at <= OnTrays(sl, o)
      /\ \/ OnTrays(sl, o) = NoTime
         \/ \E s \in BusySlots(sl) :
               sl[s].task.order = o /\ sl[s].finish_at = OnTrays(sl, o)
  BY <1>1, OnTraysBounds
<1>7. ready \in Int /\ ready >= OnTrays(sl, o)
  <2>1. c \in 0..c
    BY <1>4
  <2> QED BY <1>2, <1>3, <1>5, <2>1 DEF PlanType
<1>8. \A t \in q : t.bake_seconds \in Nat
  BY <1>1 DEF QueueType, BakeTask
<1>9. \A t \in q : t.order = o => n + t.bake_seconds <= ready
  <2> TAKE t \in q
  <2>1. t.order = o => ready >= n + t.bake_seconds
    BY <1>2, <1>3
  <2> HIDE DEF ready
  <2> QED BY <1>7, <1>8, <2>1
<1>10. (\A t \in q : t.order # o) => ready = OnTrays(sl, o)
  BY <1>2, <1>3, <1>5
<1> HIDE DEF ready
<1>11. ready >= NoTime
  BY <1>6, <1>7 DEF NoTime
<1>12. ASSUME NEW s \in BusySlots(sl), sl[s].task.order = o PROVE sl[s].finish_at <= ready
  <2>1. sl[s].finish_at \in Int /\ sl[s].finish_at <= OnTrays(sl, o)
    BY <1>1, <1>6, <1>12 DEF SlotsType, BusySlots, FreeSlots, Baking
  <2> QED BY <1>6, <1>7, <2>1
<1>13. (\A t \in TasksOn(sl) \cup q : t.order # o) => ready = NoTime
  BY <1>6, <1>10 DEF TasksOn
<1> QED BY <1>7, <1>9, <1>10, <1>11, <1>12, <1>13 DEF ready

\* The estimates are a time or NoTime for each order.
LEMMA ProjectType ==
    ASSUME NEW sl, NEW q, Kitchen(sl, q), NEW n \in Int
    PROVE  Project(sl, q, n) \in [Orders -> Nat \cup {NoTime}]
<1> DEFINE c == Cardinality(q)
<1>1. /\ SlotsType(sl) /\ QueueType(q)
      /\ \A t, u \in q : t.seq = u.seq => t = u
      /\ \A s \in BusySlots(sl) : sl[s].finish_at >= NoTime
  BY DEF Kitchen, Distinct
<1>2. PICK plans : /\ Rounds(plans, q, n)
                   /\ plans[0] = FirstPlan(sl, n)
                   /\ Project(sl, q, n) = plans[c].ready
  BY <1>1, ProjectRounds
<1>3. \A k \in 0..c : PlanType(plans[k])
  BY <1>1, <1>2, RoundsBounds
<1>4. c \in 0..c
  <2>1. c \in Nat
    BY <1>1, FS_CardinalityType DEF QueueType
  <2> HIDE DEF c
  <2> QED BY <2>1
<1>5. Project(sl, q, n) \in [Orders -> Int]
  BY <1>2, <1>3, <1>4 DEF PlanType
<1>6. \A o \in Orders : Project(sl, q, n)[o] >= NoTime
  BY ProjectBounds
<1> DEFINE ready == Project(sl, q, n)
<1>7. \A o \in Orders : ready[o] \in Nat \cup {NoTime}
  <2>1. ready \in [Orders -> Int] /\ \A o \in Orders : ready[o] >= NoTime
    BY <1>5, <1>6
  <2> HIDE DEF ready
  <2> QED BY <2>1 DEF NoTime
<1> HIDE DEF ready
<1>8. ready \in [Orders -> Int]
  BY <1>5 DEF ready
<1>9. ready \in [Orders -> Nat \cup {NoTime}]
  BY <1>7, <1>8
<1> QED BY <1>9 DEF ready

\* A plan is not behind itself at a later time.
LEMMA AheadOfLater ==
    ASSUME NEW sl, SlotsType(sl), NEW n \in Int, NEW n2 \in Int, n <= n2, NEW m \in Int,
           \A s \in BusySlots(sl) : sl[s].finish_at >= NoTime
    PROVE  Ahead(FirstPlan(sl, n), n, FirstPlan(sl, n2), n2, m)
<1> DEFINE pair == [s \in Slots |-> s]
<1>1. \A s \in Slots : Later(FreeTimes(sl, n)[s], n) <= Later(FreeTimes(sl, n2)[s], n2)
  <2> TAKE s \in Slots
  <2>1. CASE sl[s] = NoTask
    BY <2>1 DEF FreeTimes, Later
  <2>2. CASE sl[s] # NoTask
    <3>1. sl[s].finish_at \in Int
      BY <2>2 DEF SlotsType, Baking
    <3> QED BY <2>2, <3>1 DEF FreeTimes, Later
  <2> QED BY <2>1, <2>2
<1>2. \A o \in Orders : Later(OnTrays(sl, o), m) <= Later(OnTrays(sl, o), m)
  BY OnTraysBounds DEF Later
<1>3. /\ pair \in [Slots -> Slots]
      /\ \A s, r \in Slots : pair[s] = pair[r] => s = r
      /\ \A r \in Slots : \E s \in Slots : pair[s] = r
      /\ \A s \in Slots : Later(FreeTimes(sl, n)[s], n) <= Later(FreeTimes(sl, n2)[pair[s]], n2)
  BY <1>1
<1> HIDE DEF pair
<1> QED BY <1>2, <1>3 DEF Ahead, FirstPlan

\* Time that passes and units that join the queue move every estimate back, or
\* leave it where it is.
LEMMA ProjectMovesBack ==
    ASSUME NEW sl, NEW q, NEW q2, Kitchen(sl, q2), q \subseteq q2,
           NEW n \in Int, NEW n2 \in Int, n <= n2, NEW o \in Orders
    PROVE  Project(sl, q, n)[o] <= Project(sl, q2, n2)[o]
<1>1. Kitchen(sl, q)
  BY FS_Subset DEF Kitchen, QueueType, Distinct
<1>2. /\ SlotsType(sl) /\ QueueType(q) /\ QueueType(q2)
      /\ \A t, u \in q2 : t.seq = u.seq => t = u
      /\ \A t, u \in q : t.seq = u.seq => t = u
      /\ \A s \in BusySlots(sl) : sl[s].finish_at >= NoTime
  BY <1>1 DEF Kitchen, Distinct
<1>3. PICK plans : /\ Rounds(plans, q, n)
                   /\ plans[0] = FirstPlan(sl, n)
                   /\ Project(sl, q, n) = plans[Cardinality(q)].ready
  BY <1>2, ProjectRounds
<1>4. PICK plans2 : /\ Rounds(plans2, q2, n2)
                    /\ plans2[0] = FirstPlan(sl, n2)
                    /\ Project(sl, q2, n2) = plans2[Cardinality(q2)].ready
  BY <1>2, ProjectRounds
<1> DEFINE a == Project(sl, q, n)[o]
           b == Project(sl, q2, n2)[o]
<1>5. a \in Int /\ b \in Int
  BY <1>1, ProjectBounds
<1>6. Ahead(plans[0], n, plans2[0], n2, b)
  <2> HIDE DEF b
  <2> QED BY <1>2, <1>3, <1>4, <1>5, AheadOfLater
<1>7. Ahead(plans[Cardinality(q)], n, plans2[Cardinality(q2)], n2, b)
  <2> HIDE DEF b
  <2> QED BY <1>2, <1>3, <1>4, <1>5, <1>6, RoundsCompare
<1>8. Later(a, b) <= Later(b, b)
  BY <1>3, <1>4, <1>7 DEF Ahead
<1> HIDE DEF a, b
<1>9. a <= b
  BY <1>5, <1>8 DEF Later
<1> QED BY <1>9 DEF a, b

\* Of two entries that are not the same, one goes before the other, and what goes
\* before an entry goes before all that the entry precedes.
LEMMA EntriesOrdered ==
    ASSUME NEW t \in BakeTask, NEW u \in BakeTask, NEW v \in BakeTask
    PROVE  /\ ~Precedes(t, t)
           /\ Precedes(t, u) /\ Precedes(u, v) => Precedes(t, v)
<1>1. \A x \in {t, u, v} : x.priority \in Int /\ x.seq \in Int
  BY DEF BakeTask, PriorityLevel, VIP, APP, WALK_IN
<1>2. ~Precedes(t, t)
  BY <1>1 DEF Precedes
<1>3. Precedes(t, u) /\ Precedes(u, v) => Precedes(t, v)
  BY <1>1 DEF Precedes
<1> QED BY <1>2, <1>3

\* An order's estimate comes from the entries up to the last of the order's own:
\* without those behind, it would be no earlier.
LEMMA ProjectFront ==
    ASSUME NEW sl, NEW q, NEW front \in SUBSET q, Kitchen(sl, q), NEW n \in Int,
           NEW o \in Orders, \A t \in q : t.order = o => t \in front,
           \A t \in front, u \in q : Precedes(u, t) => u \in front
    PROVE  Project(sl, q, n)[o] <= Project(sl, front, n)[o]
<1> DEFINE c == Cardinality(q)
           c0 == Cardinality(front)
<1>1. Kitchen(sl, front)
  BY FS_Subset DEF Kitchen, QueueType, Distinct
<1>2. /\ SlotsType(sl) /\ QueueType(q) /\ QueueType(front)
      /\ \A t, u \in q : t.seq = u.seq => t = u
      /\ \A t, u \in front : t.seq = u.seq => t = u
      /\ \A s \in BusySlots(sl) : sl[s].finish_at >= NoTime
  BY <1>1 DEF Kitchen, Distinct
<1>3. PICK plans : /\ Rounds(plans, q, n)
                   /\ plans[0] = FirstPlan(sl, n)
                   /\ Project(sl, q, n) = plans[c].ready
  BY <1>2, ProjectRounds
<1>4. PICK plans2 : /\ Rounds(plans2, front, n)
                    /\ plans2[0] = FirstPlan(sl, n)
                    /\ Project(sl, front, n) = plans2[c0].ready
  BY <1>2, ProjectRounds
<1>5. /\ c \in Nat
      /\ \A t, u \in q : Rank(q, t) = Rank(q, u) => t = u
      /\ \A k \in 0..(c - 1) : Ranked(q, k) \in q /\ Rank(q, Ranked(q, k)) = k
  BY <1>2, RankNumbers
<1>6. /\ c0 \in Nat
      /\ \A t \in front : Rank(front, t) \in 0..(c0 - 1)
      /\ \A k \in 0..(c0 - 1) : Ranked(front, k) \in front /\ Rank(front, Ranked(front, k)) = k
  BY <1>2, RankNumbers
<1>7. c0 <= c
  BY <1>2, FS_Subset DEF QueueType
<1>8. \A k \in 0..c : PlanType(plans[k])
  BY <1>2, <1>3, RoundsBounds
\* The first rounds are those of the front alone ...
<1>9. \A t \in front : Rank(front, t) = Rank(q, t)
  <2> TAKE t \in front
  <2>1. {u \in front : Precedes(u, t)} = {u \in q : Precedes(u, t)}
    OBVIOUS
  <2> QED BY <2>1 DEF Rank
<1> HIDE DEF c, c0
<1>10. \A k \in 0..(c0 - 1) : k \in 0..(c - 1) /\ Ranked(front, k) = Ranked(q, k)
  <2> TAKE k \in 0..(c0 - 1)
  <2>1. k \in 0..(c - 1)
    BY <1>5, <1>6, <1>7
  <2>2. Rank(q, Ranked(front, k)) = k /\ Ranked(front, k) \in q
    BY <1>6, <1>9
  <2>3. Rank(q, Ranked(q, k)) = k /\ Ranked(q, k) \in q
    BY <2>1, <1>5
  <2> QED BY <2>1, <2>2, <2>3, <1>5
<1>11. Rounds(plans, front, n)
  <2>1. PlanType(plans[0])
    BY <1>3 DEF Rounds
  <2>2. ASSUME NEW k \in 0..(c0 - 1) PROVE Round(plans[k], plans[k + 1], Ranked(front, k), n)
    <3>1. k \in 0..(c - 1) /\ Ranked(front, k) = Ranked(q, k)
      BY <1>10
    <3>2. Round(plans[k], plans[k + 1], Ranked(q, k), n)
      BY <3>1, <1>3 DEF Rounds, c
    <3> QED BY <3>1, <3>2
  <2> QED BY <2>1, <2>2 DEF Rounds, c0
<1> DEFINE a == plans[c0].ready[o]
           b == Project(sl, front, n)[o]
<1>12. a \in Int /\ b \in Int
  <2>1. b \in Int
    BY <1>1, ProjectBounds
  <2>2. PlanType(plans[c0])
    <3>1. c0 \in 0..c
      BY <1>5, <1>6, <1>7
    <3> QED BY <3>1, <1>8
  <2> QED BY <2>1, <2>2 DEF PlanType
<1>13. a <= b
  <2>1. Ahead(plans[0], n, plans2[0], n, b)
    <3>1. n <= n
      OBVIOUS
    <3> HIDE DEF b
    <3> QED BY <3>1, <1>2, <1>3, <1>4, <1>12, AheadOfLater
  <2>2. Ahead(plans[c0], n, plans2[c0], n, b)
    <3>1. front \subseteq front
      OBVIOUS
    <3> HIDE DEF b
    <3> QED BY <3>1, <1>2, <1>4, <1>11, <1>12, <2>1, RoundsCompare DEF c0
  <2>3. Later(a, b) <= Later(b, b)
    BY <1>4, <2>2 DEF Ahead, c0
  <2> HIDE DEF a, b
  <2> QED BY <1>12, <2>3 DEF Later
\* ... and the others leave the order's time alone.
<1>14. ASSUME NEW k \in c0..(c - 1) PROVE Ranked(q, k).order # o
  <2> DEFINE t == Ranked(q, k)
  <2>1. t \in q /\ Rank(q, t) = k
    <3>1. k \in 0..(c - 1)
      BY <1>5, <1>6
    <3> QED BY <3>1, <1>5
  <2>2. SUFFICES ASSUME t \in front PROVE FALSE
    BY <2>1
  <2>3. Rank(front, t) = k /\ Rank(front, t) \in 0..(c0 - 1)
    BY <2>1, <2>2, <1>6, <1>9
  <2> QED BY <2>3, <1>6
<1>15. plans[c].ready[o] = a
  <2>1. c0 \in 0..c
    BY <1>5, <1>6, <1>7
  <2> QED BY <2>1, <1>2, <1>3, <1>14, RoundsLeave DEF c
<1> QED BY <1>3, <1>13, <1>15

\* Units of others that join the queue behind all those of an order leave its
\* estimate where it is.
LEMMA ProjectBehind ==
    ASSUME NEW sl, NEW q, NEW q2, Kitchen(sl, q2), q \subseteq q2, NEW n \in Int,
           NEW o \in Orders,
           \A t \in q2 \ q : t.order # o /\ \A u \in q : u.order = o => Precedes(u, t)
    PROVE  Project(sl, q2, n)[o] = Project(sl, q, n)[o]
<1> DEFINE front == {t \in q2 : \E u \in q2 : u.order = o /\ ~Precedes(u, t)}
<1>1. q2 \subseteq BakeTask
  BY DEF Kitchen, QueueType
<1>2. front \in SUBSET q2
  OBVIOUS
<1>3. \A t \in q2 : t.order = o => t \in front
  BY <1>1, EntriesOrdered
<1>4. \A t \in front, u \in q2 : Precedes(u, t) => u \in front
  BY <1>1, EntriesOrdered
<1>5. front \subseteq q
  OBVIOUS
<1> HIDE DEF front
<1>6. Project(sl, q2, n)[o] <= Project(sl, front, n)[o]
  BY <1>2, <1>3, <1>4, ProjectFront
<1>7. Kitchen(sl, q) /\ Kitchen(sl, front)
  BY <1>2, FS_Subset DEF Kitchen, QueueType, Distinct
<1>8. n <= n
  OBVIOUS
<1>9. Project(sl, front, n)[o] <= Project(sl, q, n)[o]
  BY <1>5, <1>7, <1>8, ProjectMovesBack
<1>10. Project(sl, q, n)[o] <= Project(sl, q2, n)[o]
  BY <1>8, ProjectMovesBack
<1>11. /\ Project(sl, q, n)[o] \in Int
       /\ Project(sl, q2, n)[o] \in Int
       /\ Project(sl, front, n)[o] \in Int
  BY <1>7, ProjectBounds
<1> QED BY <1>6, <1>9, <1>10, <1>11

\* While no bake ends, and all trays are busy when a unit waits, time that passes
\* leaves the estimates where they are.
LEMMA ProjectStays ==
    ASSUME NEW sl, NEW q, Kitchen(sl, q), NEW n \in Int, NEW n2 \in Int, n <= n2,
           \A s \in BusySlots(sl) : sl[s].finish_at >= n2,
           q # {} => FreeSlots(sl) = {},
           NEW o \in Orders
    PROVE  Project(sl, q, n2)[o] = Project(sl, q, n)[o]
<1>1. CASE q = {}
  <2>1. \A t \in q : t.order # o
    BY <1>1
  <2> QED BY <2>1, ProjectBounds
<1>2. CASE q # {}
  <2>1. /\ SlotsType(sl) /\ QueueType(q)
        /\ \A t, u \in q : t.seq = u.seq => t = u
        /\ \A s \in BusySlots(sl) : sl[s].finish_at >= NoTime
    BY DEF Kitchen, Distinct
  <2>2. FreeSlots(sl) = {} /\ BusySlots(sl) = Slots
    BY <1>2 DEF BusySlots
  <2>3. \A s \in Slots : sl[s].finish_at \in Int /\ sl[s] # NoTask
    BY <2>1, <2>2 DEF SlotsType, FreeSlots, Baking
  <2>4. PICK plans : /\ Rounds(plans, q, n)
                     /\ plans[0] = FirstPlan(sl, n)
                     /\ Project(sl, q, n) = plans[Cardinality(q)].ready
    BY <2>1, ProjectRounds
  <2>5. PICK plans2 : /\ Rounds(plans2, q, n2)
                      /\ plans2[0] = FirstPlan(sl, n2)
                      /\ Project(sl, q, n2) = plans2[Cardinality(q)].ready
    BY <2>1, ProjectRounds
  <2> DEFINE a == Project(sl, q, n)[o]
             b == Project(sl, q, n2)[o]
             pair == [s \in Slots |-> s]
  <2>6. a \in Int /\ b \in Int /\ a <= b
    BY ProjectBounds, ProjectMovesBack
  <2>7. Ahead(plans2[0], n2, plans[0], n, a)
    <3>1. \A s \in Slots : Later(FreeTimes(sl, n2)[s], n2) <= Later(FreeTimes(sl, n)[s], n)
      <4> TAKE s \in Slots
      <4>1. FreeTimes(sl, n2)[s] = sl[s].finish_at /\ FreeTimes(sl, n)[s] = sl[s].finish_at
        BY <2>3 DEF FreeTimes
      <4>2. sl[s].finish_at \in Int /\ sl[s].finish_at >= n2
        BY <2>2, <2>3
      <4> QED BY <4>1, <4>2 DEF Later
    <3>2. /\ pair \in [Slots -> Slots]
          /\ \A s, r \in Slots : pair[s] = pair[r] => s = r
          /\ \A r \in Slots : \E s \in Slots : pair[s] = r
          /\ \A s \in Slots :
                Later(FreeTimes(sl, n2)[s], n2) <= Later(FreeTimes(sl, n)[pair[s]], n)
      BY <3>1
    <3> HIDE DEF a, pair
    <3>3. \A p \in Orders : Later(OnTrays(sl, p), a) <= Later(OnTrays(sl, p), a)
      BY <2>1, <2>6, OnTraysBounds DEF Later
    <3>4. Ahead(FirstPlan(sl, n2), n2, FirstPlan(sl, n), n, a)
      BY <3>2, <3>3 DEF Ahead, FirstPlan
    <3> QED BY <2>4, <2>5, <3>4
  <2>8. Ahead(plans2[Cardinality(q)], n2, plans[Cardinality(q)], n, a)
    <3> HIDE DEF a
    <3> QED BY <2>1, <2>4, <2>5, <2>6, <2>7, RoundsCompare
  <2>9. Later(b, a) <= Later(a, a)
    BY <2>4, <2>5, <2>8 DEF Ahead
  <2> HIDE DEF a, b
  <2>10. a = b
    BY <2>6, <2>9 DEF Later
  <2> QED BY <2>10 DEF a, b
<1> QED BY <1>1, <1>2

\* A kitchen counts its own units.
LEMMA KitchenCounts ==
    ASSUME NEW sl, NEW q, Kitchen(sl, q)
    PROVE  LET rem == [o \in Orders |-> Cardinality(UnitsOf(o, sl, q))]
           IN  rem \in [Orders -> Nat] /\ Counted(sl, q, rem)
<1>1. IsFiniteSet(TasksOn(sl) \cup q)
  BY TasksFinite, FS_Union DEF Kitchen, QueueType
<1>2. \A o \in Orders : Cardinality(UnitsOf(o, sl, q)) \in Nat
  <2> TAKE o \in Orders
  <2>1. IsFiniteSet(UnitsOf(o, sl, q))
    BY <1>1, FS_Subset DEF UnitsOf
  <2> QED BY <2>1, FS_CardinalityType
<1> QED BY <1>2 DEF Counted

\* A tick leaves a kitchen, in which no bake is over yet; what is in it was on a
\* tray of which the bake was not over, or in the queue.
LEMMA TickKitchen ==
    ASSUME NEW sl, NEW q, Kitchen(sl, q), NEW n \in Int, n >= NoTime
    PROVE  LET sl1 == Cleared(sl, n)
               sl2 == TickSlots(sl, q, n)
               q2 == TickQueue(sl, q, n)
           IN  /\ Kitchen(sl1, q)
               /\ \A s \in Slots : sl1[s] = IF s \in Finished(sl, n) THEN NoTask ELSE sl[s]
               /\ BusySlots(sl1) = BusySlots(sl) \ Finished(sl, n)
               /\ \A s \in BusySlots(sl1) : sl1[s] = sl[s] /\ sl1[s].finish_at > n
               /\ Kitchen(sl2, q2)
               /\ \A s \in BusySlots(sl2) : sl2[s].finish_at >= n
               /\ TasksOn(sl2) \cup q2 = TasksOn(sl1) \cup q
               /\ q2 # {} => FreeSlots(sl2) = {}
<1> DEFINE rem == [o \in Orders |-> Cardinality(UnitsOf(o, sl, q))]
           sl1 == Cleared(sl, n)
           sl2 == FilledSlots(sl1, q, n)
           q2 == LeftInQueue(sl1, q)
<1>1. /\ SlotsType(sl) /\ QueueType(q) /\ Distinct(sl, q)
      /\ \A s \in BusySlots(sl) : sl[s].finish_at >= NoTime
  BY DEF Kitchen
<1>2. rem \in [Orders -> Nat] /\ Counted(sl, q, rem)
  BY KitchenCounts
<1> HIDE DEF rem
<1>3. /\ SlotsType(sl1)
      /\ Distinct(sl1, q)
      /\ \A s \in BusySlots(sl1) : sl1[s] = sl[s]
      /\ BusySlots(sl1) = BusySlots(sl) \ Finished(sl, n)
  <2> HIDE DEF sl1
  <2> QED BY <1>1, <1>2, ClearCounts DEF sl1
<1>4. \A s \in Slots : sl1[s] = IF s \in Finished(sl, n) THEN NoTask ELSE sl[s]
  BY DEF Cleared
<1> HIDE DEF sl1
<1>5. \A s \in BusySlots(sl1) : sl1[s].finish_at > n
  <2> TAKE s \in BusySlots(sl1)
  <2>1. ~(sl[s].finish_at <= n) /\ s \in BusySlots(sl)
    BY <1>3 DEF Finished
  <2>2. sl[s].finish_at \in Int
    BY <1>1, <2>1 DEF SlotsType, BusySlots, FreeSlots, Baking
  <2> QED BY <1>3, <2>1, <2>2
<1>6. Kitchen(sl1, q)
  BY <1>1, <1>3 DEF Kitchen
<1>7. /\ SlotsType(sl2)
      /\ QueueType(q2)
      /\ \A s \in BusySlots(sl1) : sl2[s] = sl1[s]
      /\ \A s \in FreeSlots(sl1) \cap BusySlots(sl2) :
            /\ sl2[s] = StartBaking(sl2[s].task, n)
            /\ sl2[s].task \in q
      /\ TasksOn(sl2) \cup q2 = TasksOn(sl1) \cup q
      /\ Distinct(sl2, q2)
      /\ q2 # {} => FreeSlots(sl2) = {}
  BY <1>1, <1>3, FillMoves
<1> HIDE DEF sl2, q2
<1>8. \A s \in BusySlots(sl2) : sl2[s].finish_at >= n /\ sl2[s].finish_at \in Int
  <2> TAKE s \in BusySlots(sl2)
  <2>1. CASE s \in BusySlots(sl1)
    <3>1. sl1[s].finish_at \in Int
      BY <1>3, <2>1 DEF SlotsType, BusySlots, FreeSlots, Baking
    <3> QED BY <1>5, <1>7, <2>1, <3>1
  <2>2. CASE s \notin BusySlots(sl1)
    <3> DEFINE t == sl2[s].task
    <3>1. s \in FreeSlots(sl1) \cap BusySlots(sl2)
      BY <2>2 DEF BusySlots
    <3>2. sl2[s] = StartBaking(t, n) /\ t.bake_seconds \in Nat
      BY <1>1, <1>7, <3>1 DEF QueueType, BakeTask
    <3>3. sl2[s].finish_at = n + t.bake_seconds
      <4> HIDE DEF t
      <4> QED BY <3>2 DEF StartBaking
    <3> QED BY <3>2, <3>3
  <2> QED BY <2>1, <2>2
<1>9. Kitchen(sl2, q2)
  <2>1. \A s \in BusySlots(sl2) : sl2[s].finish_at >= NoTime
    BY <1>8 DEF NoTime
  <2> QED BY <1>7, <2>1 DEF Kitchen
<1>10. sl2 = TickSlots(sl, q, n) /\ q2 = TickQueue(sl, q, n)
  BY DEF sl2, q2, sl1, TickSlots, TickQueue
<1> QED BY <1>3, <1>4, <1>5, <1>6, <1>7, <1>8, <1>9, <1>10 DEF sl1

\* Taking the finished bakes out changes no time after now.
LEMMA ClearedPlans ==
    ASSUME NEW sl, NEW q, Kitchen(sl, q), NEW n \in Int, n >= NoTime
    PROVE  LET p == FirstPlan(sl, n)
               p1 == FirstPlan(Cleared(sl, n), n)
           IN  Ahead(p, n, p1, n, n) /\ Ahead(p1, n, p, n, n)
<1> DEFINE sl1 == Cleared(sl, n)
           p == FirstPlan(sl, n)
           p1 == FirstPlan(sl1, n)
           pair == [s \in Slots |-> s]
<1>1. /\ Kitchen(sl1, q)
      /\ \A s \in Slots : sl1[s] = IF s \in Finished(sl, n) THEN NoTask ELSE sl[s]
      /\ BusySlots(sl1) = BusySlots(sl) \ Finished(sl, n)
      /\ \A s \in BusySlots(sl1) : sl1[s] = sl[s]
  BY TickKitchen
<1> HIDE DEF sl1
<1>2. /\ SlotsType(sl) /\ \A s \in BusySlots(sl) : sl[s].finish_at >= NoTime
      /\ SlotsType(sl1) /\ \A s \in BusySlots(sl1) : sl1[s].finish_at >= NoTime
  BY <1>1 DEF Kitchen
<1>3. \A s \in BusySlots(sl) : sl[s].finish_at \in Int
  BY <1>2 DEF SlotsType, BusySlots, FreeSlots, Baking
<1>4. \A s \in Finished(sl, n) : s \in BusySlots(sl) /\ sl[s].finish_at <= n
  BY DEF Finished
<1>5. ASSUME NEW s \in Slots
      PROVE  Later(FreeTimes(sl, n)[s], n) = Later(FreeTimes(sl1, n)[s], n)
             /\ Later(FreeTimes(sl, n)[s], n) \in Int
  <2>1. FreeTimes(sl, n)[s] = IF sl[s] = NoTask THEN n ELSE sl[s].finish_at
    BY DEF FreeTimes
  <2>2. FreeTimes(sl1, n)[s] = IF sl1[s] = NoTask THEN n ELSE sl1[s].finish_at
    BY DEF FreeTimes
  <2>3. CASE s \in Finished(sl, n)
    <3>1. sl1[s] = NoTask /\ sl[s] # NoTask
      BY <1>1, <1>4, <2>3 DEF BusySlots, FreeSlots
    <3> QED BY <2>1, <2>2, <3>1, <1>3, <1>4, <2>3 DEF Later
  <2>4. CASE s \notin Finished(sl, n)
    <3>1. sl1[s] = sl[s]
      BY <1>1, <2>4
    <3>2. FreeTimes(sl, n)[s] \in Int
      BY <2>1, <1>3 DEF BusySlots, FreeSlots
    <3> QED BY <2>1, <2>2, <3>1, <3>2 DEF Later
  <2> QED BY <2>3, <2>4
<1>6. ASSUME NEW o \in Orders
      PROVE  Later(OnTrays(sl, o), n) = Later(OnTrays(sl1, o), n)
             /\ Later(OnTrays(sl, o), n) \in Int
  <2> DEFINE x == OnTrays(sl, o)
             y == OnTrays(sl1, o)
  <2>1. /\ x \in Int /\ x >= NoTime
        /\ \A s \in BusySlots(sl) : sl[s].task.order = o => sl[s].finish_at <= x
        /\ \/ x = NoTime
           \/ \E s \in BusySlots(sl) : sl[s].task.order = o /\ sl[s].finish_at = x
    BY <1>2, OnTraysBounds
  <2>2. /\ y \in Int /\ y >= NoTime
        /\ \A s \in BusySlots(sl1) : sl1[s].task.order = o => sl1[s].finish_at <= y
        /\ \/ y = NoTime
           \/ \E s \in BusySlots(sl1) : sl1[s].task.order = o /\ sl1[s].finish_at = y
    BY <1>2, OnTraysBounds
  <2> HIDE DEF x, y
  <2>3. y <= x
    <3>1. CASE y = NoTime
      BY <2>1, <3>1
    <3>2. CASE \E s \in BusySlots(sl1) : sl1[s].task.order = o /\ sl1[s].finish_at = y
      BY <3>2, <1>1, <2>1
    <3> QED BY <2>2, <3>1, <3>2
  <2>4. x <= n \/ x <= y
    <3>1. CASE x = NoTime
      BY <3>1
    <3>2. CASE \E s \in BusySlots(sl) : sl[s].task.order = o /\ sl[s].finish_at = x
      <4>1. PICK s \in BusySlots(sl) : sl[s].task.order = o /\ sl[s].finish_at = x
        BY <3>2
      <4>2. CASE s \in Finished(sl, n)
        BY <1>4, <4>1, <4>2
      <4>3. CASE s \notin Finished(sl, n)
        BY <1>1, <2>2, <4>1, <4>3
      <4> QED BY <4>2, <4>3
    <3> QED BY <2>1, <3>1, <3>2
  <2>5. Later(x, n) = Later(y, n) /\ Later(x, n) \in Int
    BY <2>1, <2>2, <2>3, <2>4 DEF Later
  <2> QED BY <2>5 DEF x, y
<1>7. /\ pair \in [Slots -> Slots]
      /\ \A s, r \in Slots : pair[s] = pair[r] => s = r
      /\ \A r \in Slots : \E s \in Slots : pair[s] = r
      /\ \A s \in Slots : Later(FreeTimes(sl, n)[s], n) <= Later(FreeTimes(sl1, n)[pair[s]], n)
      /\ \A s \in Slots : Later(FreeTimes(sl1, n)[s], n) <= Later(FreeTimes(sl, n)[pair[s]], n)
  BY <1>5
<1>8. \A o \in Orders : /\ Later(OnTrays(sl, o), n) <= Later(OnTrays(sl1, o), n)
                        /\ Later(OnTrays(sl1, o), n) <= Later(OnTrays(sl, o), n)
  BY <1>6
<1> HIDE DEF pair
<1>9. Ahead(p, n, p1, n, n)
  BY <1>7, <1>8 DEF Ahead, FirstPlan
<1>10. Ahead(p1, n, p, n, n)
  BY <1>7, <1>8 DEF Ahead, FirstPlan
<1> QED BY <1>9, <1>10 DEF sl1

\* A tick changes no estimate that lies ahead.
LEMMA ProjectTick ==
    ASSUME NEW sl, NEW q, Kitchen(sl, q), NEW n \in Int, n >= NoTime, NEW o \in Orders
    PROVE  Later(Project(sl, q, n)[o], n)
              = Later(Project(TickSlots(sl, q, n), TickQueue(sl, q, n), n)[o], n)
<1> DEFINE sl1 == Cleared(sl, n)
           sl2 == TickSlots(sl, q, n)
           q2 == TickQueue(sl, q, n)
           c == Cardinality(q)
           a == Later(Project(sl, q, n)[o], n)
           b == Later(Project(sl2, q2, n)[o], n)
<1>1. /\ SlotsType(sl) /\ QueueType(q)
      /\ \A t, u \in q : t.seq = u.seq => t = u
      /\ \A s \in BusySlots(sl) : sl[s].finish_at >= NoTime
  BY DEF Kitchen, Distinct
<1>2. Kitchen(sl1, q) /\ Kitchen(sl2, q2)
  BY TickKitchen
<1>3. PICK plans : /\ Rounds(plans, q, n)
                   /\ plans[0] = FirstPlan(sl, n)
                   /\ Project(sl, q, n) = plans[c].ready
  BY <1>1, ProjectRounds
<1>4. PICK plans2 : /\ Rounds(plans2, q, n)
                    /\ plans2[0] = FirstPlan(sl1, n)
                    /\ Project(sl2, q2, n) = plans2[c].ready
  <2>1. /\ SlotsType(sl1) /\ Distinct(sl1, q)
        /\ \A s \in BusySlots(sl1) : sl1[s].finish_at >= NoTime
    BY <1>2 DEF Kitchen
  <2> HIDE DEF sl1
  <2>2. sl2 = FilledSlots(sl1, q, n) /\ q2 = LeftInQueue(sl1, q)
    BY DEF TickSlots, TickQueue, sl1
  <2> HIDE DEF sl2, q2
  <2> QED BY <1>1, <2>1, <2>2, FillRounds
<1>5. Ahead(plans[0], n, plans2[0], n, n) /\ Ahead(plans2[0], n, plans[0], n, n)
  BY <1>3, <1>4, ClearedPlans
<1> HIDE DEF sl1, sl2, q2
<1>6. Ahead(plans[c], n, plans2[c], n, n)
  BY <1>1, <1>3, <1>4, <1>5, RoundsCompare
<1>7. Ahead(plans2[c], n, plans[c], n, n)
  BY <1>1, <1>3, <1>4, <1>5, RoundsCompare
<1>8. a <= b /\ b <= a
  BY <1>3, <1>4, <1>6, <1>7 DEF Ahead
<1>9. a \in Int /\ b \in Int
  BY <1>2, ProjectBounds DEF Later
<1> HIDE DEF a, b
<1>10. a = b
  BY <1>8, <1>9
<1> QED BY <1>10 DEF a, b, sl2, q2

\* The estimate of an order that a tick leaves in the kitchen is the same before
\* and after it, and is not over.
LEMMA ProjectTicked ==
    ASSUME NEW sl, NEW q, Kitchen(sl, q), NEW n \in Int, n >= NoTime, NEW o \in Orders,
           NEW t \in TasksOn(TickSlots(sl, q, n)) \cup TickQueue(sl, q, n), t.order = o
    PROVE  /\ Project(sl, q, n)[o]
                 = Project(TickSlots(sl, q, n), TickQueue(sl, q, n), n)[o]
           /\ Project(sl, q, n)[o] >= n
<1> DEFINE sl1 == Cleared(sl, n)
           sl2 == TickSlots(sl, q, n)
           q2 == TickQueue(sl, q, n)
           a == Project(sl, q, n)[o]
           b == Project(sl2, q2, n)[o]
<1>1. /\ Kitchen(sl2, q2)
      /\ BusySlots(sl1) = BusySlots(sl) \ Finished(sl, n)
      /\ \A s \in BusySlots(sl1) : sl1[s] = sl[s] /\ sl1[s].finish_at > n
      /\ \A s \in BusySlots(sl2) : sl2[s].finish_at >= n
      /\ TasksOn(sl2) \cup q2 = TasksOn(sl1) \cup q
  BY TickKitchen
<1>2. Later(a, n) = Later(b, n)
  BY ProjectTick
<1>3. /\ a \in Int
      /\ \A s \in BusySlots(sl) : sl[s].task.order = o => sl[s].finish_at <= a
      /\ \A u \in q : u.order = o => n + u.bake_seconds <= a
  BY ProjectBounds
<1>4. /\ b \in Int
      /\ \A s \in BusySlots(sl2) : sl2[s].task.order = o => sl2[s].finish_at <= b
      /\ \A u \in q2 : u.order = o => n + u.bake_seconds <= b
  <2> HIDE DEF sl2, q2
  <2> QED BY <1>1, ProjectBounds
<1>5. t \in TasksOn(sl2) \cup q2
  OBVIOUS
<1>6. /\ \A u \in q \cup q2 : u.bake_seconds \in Nat
      /\ \A s \in BusySlots(sl) : sl[s].finish_at \in Int
      /\ \A s \in BusySlots(sl2) : sl2[s].finish_at \in Int
  BY <1>1 DEF Kitchen, QueueType, BakeTask, SlotsType, BusySlots, FreeSlots, Baking
<1> HIDE DEF sl1, sl2, q2, a, b
<1>7. a >= n
  <2>1. CASE t \in q
    BY <1>3, <1>6, <2>1
  <2>2. CASE t \in TasksOn(sl1)
    <3>1. PICK s \in BusySlots(sl1) : t = sl1[s].task
      BY <2>2 DEF TasksOn
    <3> QED BY <1>1, <1>3, <1>6, <3>1
  <2> QED BY <1>1, <1>5, <2>1, <2>2
<1>8. b >= n
  <2>1. CASE t \in q2
    BY <1>4, <1>6, <2>1
  <2>2. CASE t \in TasksOn(sl2)
    <3>1. PICK s \in BusySlots(sl2) : t = sl2[s].task
      BY <2>2 DEF TasksOn
    <3> QED BY <1>1, <1>4, <1>6, <3>1
  <2> QED BY <1>5, <2>1, <2>2
<1>9. a = b
  BY <1>2, <1>3, <1>4, <1>7, <1>8 DEF Later
<1> QED BY <1>7, <1>9 DEF a, b, sl2, q2

=============================================================================
