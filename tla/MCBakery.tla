------------------------------ MODULE MCBakery ------------------------------
(* Small instances of Bakery for TLC.                                      *)
EXTENDS Bakery

\* A walk-in of two snacks placed first, then a VIP, then an app order.
MCPriority == [o \in Orders |-> IF o = 1 THEN WALK_IN ELSE IF o = 2 THEN VIP ELSE APP]
MCUnits == [o \in Orders |-> IF o = 1 THEN 2 ELSE 1]
OneUnitEach == [o \in Orders |-> 1]

Symmetry == Permutations(Requests)
=============================================================================
