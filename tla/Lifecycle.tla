------------------------------ MODULE Lifecycle ------------------------------
(***************************************************************************)
(* What the bakery keeps of an order, without engine, loop, requests or    *)
(* transactions: the steps its committed status may take, that it is paid  *)
(* for in the step that queues it and once only, and that it is shown as   *)
(* ready, and handed out, only when all of its snacks have been baked      *)
(* since the kitchen last took it up.  Module Bakery implements this       *)
(* specification.                                                          *)
(*                                                                         *)
(* The steps are those of the code that writes the status: place_order,    *)
(* pay, complete_order and, for the kitchen, _ALLOWED_PREV of              *)
(* orders/repository.py.  They are not those of _TRANSITIONS               *)
(* (orders/state_machine.py), which only pay consults: that table has no   *)
(* step from QUEUED to READY, and _ALLOWED_PREV has one.                   *)
(***************************************************************************)
CONSTANT Orders

VARIABLES
    status,   \* the committed status, "none" before the order is placed
    paid,     \* orders with a recorded payment
    made      \* orders whose snacks have all been baked since they were taken up

vars == <<status, paid, made>>

Init ==
    /\ status = [o \in Orders |-> "none"]
    /\ paid = {}
    /\ made = {}

Place(o) ==
    /\ status[o] = "none"
    /\ status' = [status EXCEPT ![o] = "pending_payment"]
    /\ UNCHANGED <<paid, made>>

\* The status and the payment are recorded together.
Pay(o) ==
    /\ status[o] = "pending_payment"
    /\ o \notin paid
    /\ status' = [status EXCEPT ![o] = "queued"]
    /\ paid' = paid \cup {o}
    /\ UNCHANGED made

\* Snacks are baked, of orders that have been placed.
Bake ==
    /\ made \subseteq made'
    /\ made' \subseteq made \cup {o \in Orders : status[o] # "none"}
    /\ UNCHANGED <<status, paid>>

\* The steps the kitchen takes an order through (_ALLOWED_PREV): READY may be
\* written although BAKING never was.
KitchenSteps == {<<"queued", "baking">>, <<"queued", "ready">>, <<"baking", "ready">>}

\* The kitchen writes, for any number of orders at once, how far they are.
Progress ==
    /\ \A o \in Orders :
          status'[o] # status[o] =>
             /\ <<status[o], status'[o]>> \in KitchenSteps
             /\ status'[o] = "ready" => o \in made
    /\ DOMAIN status' = Orders
    /\ UNCHANGED <<paid, made>>

PickUp(o) ==
    /\ status[o] = "ready"
    /\ status' = [status EXCEPT ![o] = "completed"]
    /\ UNCHANGED <<paid, made>>

\* The process stops: an order that is not yet ready will be taken up anew and
\* all its snacks baked, those that were already done included.
Restart ==
    /\ made' = {o \in made : status[o] \in {"ready", "completed"}}
    /\ UNCHANGED <<status, paid>>

Next ==
    \/ \E o \in Orders : Place(o) \/ Pay(o) \/ PickUp(o)
    \/ Bake \/ Progress \/ Restart

Spec == Init /\ [][Next]_vars

-----------------------------------------------------------------------------

\* An order that the kitchen works on, has finished or has handed out is paid
\* for, and it is ready only when it has been made.
PaidAndMade ==
    \A o \in Orders :
        /\ o \in paid <=> status[o] \notin {"none", "pending_payment"}
        /\ status[o] \in {"ready", "completed"} => o \in made

=============================================================================
