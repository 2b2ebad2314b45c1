--------------------------- MODULE MCKitchenEngine ---------------------------
(* Small instances of KitchenEngine for TLC.                               *)
EXTENDS KitchenEngine, TLC

\* A VIP unit of a second, an app order of two units that bake differently, a
\* walk-in of two seconds.
MCSpecs ==
    {<< <<VIP, SECOND>> >>,
     << <<APP, 2 * SECOND>>, <<APP, SECOND>> >>,
     << <<WALK_IN, 2 * SECOND>> >>}

Symmetry == Permutations(Orders)

\* The clock is bounded: at MaxTime the run is over.
TimeIsUp == now = MaxTime /\ UNCHANGED vars

MCSpec == Init /\ [][Next \/ TimeIsUp]_vars
=============================================================================
