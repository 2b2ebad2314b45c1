----------------------------- MODULE MCEstimates -----------------------------
(* Small instances of Estimates for TLC.                                   *)
EXTENDS Estimates, TLC

\* A walk-in, placed first, then an app order, then a VIP.
MCPriority == [o \in Orders |-> IF o = 1 THEN WALK_IN ELSE IF o = 2 THEN APP ELSE VIP]
MCFirstBake == [o \in Orders |-> IF o = 2 THEN 1 ELSE 2]
OneUnitEach == [o \in Orders |-> 1]

\* No order is paid for twice: the requests under way are of different orders.
DifferentOrders ==
    \A r, p \in Requests :
        r # p /\ req'[r] # Idle /\ req'[p] # Idle => req'[r].order # req'[p].order

MCPaidOnce == Init /\ [][Next /\ DifferentOrders]_vars

Symmetry == Permutations(Requests)
=============================================================================
