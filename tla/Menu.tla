-------------------------------- MODULE Menu --------------------------------
(***************************************************************************)
(* The menu while it is in use: items created, changed and deleted by some *)
(* requests (src/app/menu/service.py and repository.py) while others read  *)
(* them to place orders and to pay for them (src/app/orders/service.py,    *)
(* src/app/orders/specs.py).                                               *)
(*                                                                         *)
(* A request gives way at each statement it sends.  Its writes and its     *)
(* commit are one step: until the commit nobody sees them, and whoever     *)
(* writes the same row, or checks a foreign key against it, waits.         *)
(*                                                                         *)
(* Of the columns of an item, name, category and bake_seconds are patched  *)
(* as the price is; none of them decides anything here.                    *)
(***************************************************************************)
EXTENDS Naturals, Sequences

CONSTANTS
    Items,      \* ids of menu items; uuids, so one that is deleted never comes back
    NotYet,     \* an item before it is created
    Gone,       \* ... and after it is deleted
    Orders,     \* order ids
    Carts,      \* the lists of items an order may ask for, each item once (the session
                \* may answer a second read of an item with the object of the first)
    Requests,   \* requests served at the same time
    Prices,
    Null        \* a JSON null in a patch

MenuItem == [price: Prices, available: BOOLEAN]

ASSUME MenuAssumption ==
    /\ NotYet # Gone
    /\ NotYet \notin MenuItem /\ Gone \notin MenuItem
    /\ Carts \subseteq Seq(Items) \ {<< >>}
    /\ \A cart \in Carts : \A j, k \in DOMAIN cart : cart[j] = cart[k] => j = k
    /\ Null \notin Prices
    /\ Null \notin BOOLEAN

VARIABLES
    menu,    \* the table menu_item
    lines,   \* order_item as committed: <<item, unit_price>> per line, empty before placement
    req      \* where each request is

vars == <<menu, lines, req>>

\* A field that is not in the body of a PATCH is not in the domain.
Patches ==
    UNION {[{"price"} -> Prices \cup {Null}], [{"available"} -> BOOLEAN \cup {Null}],
           [price: Prices \cup {Null}, available: BOOLEAN \cup {Null}]}

Idle == [at |-> "idle"]
ReqStates ==
    {Idle}
    \cup [at: {"patch"}, item: Items, read: MenuItem, patch: Patches]
    \cup [at: {"delete", "delete_checked"}, item: Items]
    \cup [at: {"place"}, order: Orders, cart: Carts, taken: Seq(Items \X Prices)]
    \cup [at: {"pay"}, order: Orders, left: Seq(Items)]

Init ==
    /\ menu = [i \in Items |-> NotYet]
    /\ lines = [o \in Orders |-> << >>]
    /\ req = [r \in Requests |-> Idle]

-----------------------------------------------------------------------------

OnMenu(i) == menu[i] \notin {NotYet, Gone}

\* is_referenced: a committed order has the item.
Referenced(i) == \E o \in Orders : \E k \in DOMAIN lines[o] : lines[o][k][1] = i

Goto(r, state) == req' = [req EXCEPT ![r] = state]

\* The request is answered, with success or with an error.
Answer(r) == Goto(r, Idle)

\* create_item.
Create(i) ==
    /\ menu[i] = NotYet
    /\ \E row \in MenuItem : menu' = [menu EXCEPT ![i] = row]
    /\ UNCHANGED <<lines, req>>

\* update_item reads the item; the request ends here when there is none (404).
PatchGet(r, i, patch) ==
    /\ req[r] = Idle
    /\ OnMenu(i)
    /\ Goto(r, [at |-> "patch", item |-> i, read |-> menu[i], patch |-> patch])
    /\ UNCHANGED <<menu, lines>>

\* Mutant: a null in the body counts as a value.
MutUpdates(patch) == DOMAIN patch

\* The fields that are set: those in the body that are not null.
Updates(patch) == {f \in DOMAIN patch : patch[f] # Null}

\* Mutant: the UPDATE writes the whole object as it was read and set.
MutPatchWrite(r) ==
    /\ req[r].at = "patch"
    /\ LET i == req[r].item
           sets == Updates(req[r].patch)
       IN  IF sets = {} \/ ~OnMenu(i)
           THEN UNCHANGED menu
           ELSE menu' = [menu EXCEPT ![i] =
                            [f \in {"price", "available"} |->
                                IF f \in sets THEN req[r].patch[f] ELSE req[r].read[f]]]
    /\ Answer(r)
    /\ UNCHANGED lines

\* The flush writes the columns whose value is not the one that was read, if
\* there are any; it fails when the row has gone in the meantime.
PatchWrite(r) ==
    /\ req[r].at = "patch"
    /\ LET i == req[r].item
           sets == {f \in Updates(req[r].patch) : req[r].patch[f] # req[r].read[f]}
       IN  IF sets = {} \/ ~OnMenu(i)
           THEN UNCHANGED menu
           ELSE menu' = [menu EXCEPT ![i] =
                            [f \in {"price", "available"} |->
                                IF f \in sets THEN req[r].patch[f] ELSE @[f]]]
    /\ Answer(r)
    /\ UNCHANGED lines

\* delete_item reads the item (404 when there is none) ...
DeleteGet(r, i) ==
    /\ req[r] = Idle
    /\ OnMenu(i)
    /\ Goto(r, [at |-> "delete", item |-> i])
    /\ UNCHANGED <<menu, lines>>

\* ... asks whether an order has it (409) ...
DeleteCheck(r) ==
    /\ req[r].at = "delete"
    /\ IF Referenced(req[r].item)
       THEN Answer(r)
       ELSE Goto(r, [req[r] EXCEPT !.at = "delete_checked"])
    /\ UNCHANGED <<menu, lines>>

\* Mutant: without the foreign key, the check is all there is.
MutDeleteWrite(r) ==
    /\ req[r].at = "delete_checked"
    /\ menu' = [menu EXCEPT ![req[r].item] = Gone]
    /\ Answer(r)
    /\ UNCHANGED lines

\* ... and deletes it, unless the foreign key of order_item forbids it by now.
\* A row that another request has deleted already makes no difference.
DeleteWrite(r) ==
    /\ req[r].at = "delete_checked"
    /\ menu' = IF Referenced(req[r].item) THEN menu
               ELSE [menu EXCEPT ![req[r].item] = Gone]
    /\ Answer(r)
    /\ UNCHANGED lines

-----------------------------------------------------------------------------

\* place_order of a new order.
PlaceBegin(r, o, cart) ==
    /\ req[r] = Idle
    /\ lines[o] = << >>
    /\ \A q \in Requests : req[q].at = "place" => req[q].order # o
    /\ Goto(r, [at |-> "place", order |-> o, cart |-> cart, taken |-> << >>])
    /\ UNCHANGED <<menu, lines>>

\* _require_available.
Available(i) == OnMenu(i) /\ menu[i].available

\* The next line: its item has to be available, and its price is kept.
PlaceLine(r) ==
    /\ req[r].at = "place"
    /\ Len(req[r].taken) < Len(req[r].cart)
    /\ LET i == req[r].cart[Len(req[r].taken) + 1]
       IN  IF Available(i)
           THEN Goto(r, [req[r] EXCEPT !.taken = Append(@, <<i, menu[i].price>>)])
           ELSE Answer(r)
    /\ UNCHANGED <<menu, lines>>

\* The order and its lines are inserted, unless an item has gone: the foreign
\* key forbids it.
PlaceWrite(r) ==
    /\ req[r].at = "place"
    /\ Len(req[r].taken) = Len(req[r].cart)
    /\ lines' = IF \A k \in DOMAIN req[r].cart : OnMenu(req[r].cart[k])
                THEN [lines EXCEPT ![req[r].order] = req[r].taken] ELSE lines
    /\ Answer(r)
    /\ UNCHANGED menu

\* pay reads the order, which must be there (404).  That it must be pending as
\* well (409) is left to module Bakery: any placed order may be pending here.
PayGet(r, o) ==
    /\ req[r] = Idle
    /\ lines[o] # << >>
    /\ Goto(r, [at |-> "pay", order |-> o,
                left |-> [k \in DOMAIN lines[o] |-> lines[o][k][1]]])
    /\ UNCHANGED <<menu, lines>>

\* order_specs reads the next item for its bake time; the order cannot be paid
\* (nor recovered after a restart) when the item is missing.
PayLine(r) ==
    /\ req[r].at = "pay"
    /\ req[r].left # << >>
    /\ IF OnMenu(Head(req[r].left))
       THEN Goto(r, [req[r] EXCEPT !.left = Tail(@)])
       ELSE Answer(r)
    /\ UNCHANGED <<menu, lines>>

\* Enqueue, insert and commit, none of which touches the menu.
PayWrite(r) ==
    /\ req[r].at = "pay"
    /\ req[r].left = << >>
    /\ Answer(r)
    /\ UNCHANGED <<menu, lines>>

-----------------------------------------------------------------------------

Next ==
    \/ \E i \in Items : Create(i)
    \/ \E r \in Requests :
          \/ \E i \in Items : DeleteGet(r, i) \/ \E patch \in Patches : PatchGet(r, i, patch)
          \/ PatchWrite(r) \/ DeleteCheck(r) \/ DeleteWrite(r)
          \/ \E o \in Orders : PayGet(r, o) \/ \E cart \in Carts : PlaceBegin(r, o, cart)
          \/ PlaceLine(r) \/ PlaceWrite(r) \/ PayLine(r) \/ PayWrite(r)

Spec == Init /\ [][Next]_vars

-----------------------------------------------------------------------------
(* Properties.                                                             *)

\* Every variable has its type; no column is ever null.
TypeOK ==
    /\ menu \in [Items -> MenuItem \cup {NotYet, Gone}]
    /\ lines \in [Orders -> Seq(Items \X Prices)]
    /\ req \in [Requests -> ReqStates]

\* An order that has been placed can be paid, and recovered: none of its items
\* leaves the menu, although deletes look for references before they delete,
\* and placements at the items before they insert; and a payment under way
\* finds every item it has still to read.
ItemsStay ==
    /\ \A o \in Orders : \A k \in DOMAIN lines[o] : OnMenu(lines[o][k][1])
    /\ \A r \in Requests :
          req[r].at = "pay" => \A k \in DOMAIN req[r].left : OnMenu(req[r].left[k])

\* A column of an item changes only when a PATCH that names it ends, and to the
\* value it gives: concurrent updates of an item never undo one another's
\* columns, although each writes an object it read earlier.
OnlyNamedColumns ==
    \A i \in Items :
        OnMenu(i) /\ menu'[i] # menu[i] /\ menu'[i] # Gone =>
            \E r \in Requests :
                /\ req[r].at = "patch" /\ req'[r] = Idle /\ req[r].item = i
                /\ \A f \in {"price", "available"} :
                      menu'[i][f] # menu[i][f] =>
                          f \in DOMAIN req[r].patch /\ menu'[i][f] = req[r].patch[f]

NoLostUpdate == [][OnlyNamedColumns]_vars

=============================================================================
