----------------------------- MODULE MenuProofs -----------------------------
(***************************************************************************)
(* Safety of Menu for any number of items, orders and requests.            *)
(***************************************************************************)
EXTENDS Menu, TLAPS

\* A placement has taken its cart's items in order, one line for each.
TakenFromCart ==
    \A r \in Requests :
        req[r].at = "place" =>
            /\ Len(req[r].taken) <= Len(req[r].cart)
            /\ \A k \in DOMAIN req[r].taken : req[r].taken[k][1] = req[r].cart[k]

\* No item of a placed order leaves the menu.
LinesStay == \A o \in Orders : \A k \in DOMAIN lines[o] : OnMenu(lines[o][k][1])

\* A placement is of an order that has no lines and that no other one places.
PlacesNew ==
    \A r \in Requests :
        req[r].at = "place" =>
            /\ lines[req[r].order] = << >>
            /\ \A q \in Requests :
                  q # r /\ req[q].at = "place" => req[q].order # req[r].order

\* What a payment has still to read is what its order has.
LeftOfOrder ==
    \A r \in Requests :
        req[r].at = "pay" =>
            \A k \in DOMAIN req[r].left :
                \E j \in DOMAIN lines[req[r].order] :
                    lines[req[r].order][j][1] = req[r].left[k]

ReqInv == TakenFromCart /\ PlacesNew /\ LeftOfOrder

IInv == TypeOK /\ LinesStay /\ ReqInv

-----------------------------------------------------------------------------

\* A request that moves on is where it moves to, and the others stay.
LEMMA GotoReq ==
    ASSUME TypeOK, NEW r \in Requests, NEW st \in ReqStates, Goto(r, st)
    PROVE  /\ req' \in [Requests -> ReqStates]
           /\ req'[r] = st
           /\ \A q \in Requests : q # r => req'[q] = req[q]
BY DEF Goto, TypeOK

\* A request that is answered is idle, and the others stay.
LEMMA AnswerReq ==
    ASSUME TypeOK, NEW r \in Requests, Answer(r)
    PROVE  /\ req' \in [Requests -> ReqStates]
           /\ req'[r] = Idle
           /\ \A q \in Requests : q # r => req'[q] = req[q]
BY DEF Answer, Goto, TypeOK, ReqStates

\* The record of a request tells what it is about.
LEMMA ReqFields ==
    ASSUME TypeOK, NEW r \in Requests
    PROVE  /\ req[r].at = "patch" => req[r] \in [at: {"patch"}, item: Items,
                                                 read: MenuItem, patch: Patches]
           /\ req[r].at \in {"delete", "delete_checked"} =>
                 req[r] \in [at: {"delete", "delete_checked"}, item: Items]
           /\ req[r].at = "place" =>
                 req[r] \in [at: {"place"}, order: Orders, cart: Carts,
                             taken: Seq(Items \X Prices)]
           /\ req[r].at = "pay" => req[r] \in [at: {"pay"}, order: Orders, left: Seq(Items)]
BY DEF TypeOK, ReqStates, Idle

\* A request that is answered, or that goes on with a patch or a delete, leaves
\* nothing to show of the placements and payments.
LEMMA ReqKept ==
    ASSUME ReqInv, NEW r \in Requests, req'[r].at \notin {"place", "pay"},
           \A q \in Requests : q # r => req'[q] = req[q],
           lines' = lines
    PROVE  ReqInv'
<1>1. TakenFromCart'
  BY DEF ReqInv, TakenFromCart
<1>2. PlacesNew'
  BY DEF ReqInv, PlacesNew
<1>3. LeftOfOrder'
  BY DEF ReqInv, LeftOfOrder
<1> QED BY <1>1, <1>2, <1>3 DEF ReqInv

-----------------------------------------------------------------------------
(* The steps.                                                              *)

\* The empty menu and the empty tables satisfy the invariant.
THEOREM InitIInv == Init => IInv
BY MenuAssumption DEF Init, IInv, TypeOK, LinesStay, ReqInv, TakenFromCart, PlacesNew, LeftOfOrder, ReqStates, Idle

\* Creating an item.
LEMMA CreateStep ==
    ASSUME IInv, NEW i \in Items, Create(i)
    PROVE  IInv'
<1>1. PICK row \in MenuItem : menu' = [menu EXCEPT ![i] = row]
  BY DEF Create
<1>2. req' = req /\ lines' = lines
  BY DEF Create
<1>3. TypeOK'
  BY <1>1, <1>2 DEF IInv, TypeOK, Create
<1>4. LinesStay'
  <2>1. \A j \in Items : OnMenu(j) => j # i
    BY DEF OnMenu, Create
  <2>2. \A o \in Orders : \A k \in DOMAIN lines[o] : lines[o][k][1] \in Items
    BY DEF IInv, TypeOK
  <2>3. \A j \in Items : OnMenu(j) => OnMenu(j)'
    BY <1>1, <2>1 DEF OnMenu, IInv, TypeOK
  <2> QED BY <2>2, <2>3 DEF IInv, LinesStay, Create
<1>5. ReqInv'
  BY <1>2 DEF IInv, ReqInv, TakenFromCart, PlacesNew, LeftOfOrder
<1> QED BY <1>3, <1>4, <1>5 DEF IInv

\* An update leaves an item on the menu that is on it.
LEMMA PatchStep ==
    ASSUME IInv, NEW r \in Requests, PatchWrite(r)
    PROVE  IInv' /\ \A j \in Items : OnMenu(j)' <=> OnMenu(j)
<1> DEFINE i == req[r].item
           sets == {f \in Updates(req[r].patch) : req[r].patch[f] # req[r].read[f]}
<1>1. Answer(r)
  BY DEF PatchWrite
<1>2. /\ req' \in [Requests -> ReqStates]
      /\ req'[r] = Idle
      /\ \A q \in Requests : q # r => req'[q] = req[q]
  BY <1>1, AnswerReq DEF IInv
<1>3. /\ i \in Items
      /\ req[r].patch \in Patches
  BY ReqFields DEF IInv, PatchWrite
<1>4. CASE menu' = menu
  <2>1. ReqInv'
    BY <1>2, ReqKept DEF IInv, Idle, PatchWrite
  <2> QED BY <1>2, <1>4, <2>1 DEF IInv, TypeOK, LinesStay, OnMenu, PatchWrite
<1>5. CASE menu' # menu
  <2> DEFINE row == [f \in {"price", "available"} |->
                        IF f \in sets THEN req[r].patch[f] ELSE menu[i][f]]
  <2>1. OnMenu(i) /\ menu' = [menu EXCEPT ![i] = row]
    BY <1>5 DEF PatchWrite
  <2>2. menu[i] \in MenuItem
    BY <1>3, <2>1 DEF IInv, TypeOK, OnMenu
  <2>3. \A f \in sets : /\ f = "price" => req[r].patch[f] \in Prices
                        /\ f = "available" => req[r].patch[f] \in BOOLEAN
    BY <1>3 DEF Updates, Patches
  <2>4. row \in MenuItem
    BY <2>2, <2>3 DEF MenuItem
  <2> HIDE DEF row
  <2>5. \A j \in Items : OnMenu(j)' <=> OnMenu(j)
    <3>1. /\ menu'[i] = row
          /\ \A j \in Items : j # i => menu'[j] = menu[j]
      BY <1>3, <2>1 DEF IInv, TypeOK
    <3>2. row \notin {NotYet, Gone}
      BY <2>4, MenuAssumption
    <3> QED BY <2>1, <3>1, <3>2 DEF OnMenu
  <2>6. TypeOK'
    BY <1>2, <1>3, <2>1, <2>4 DEF IInv, TypeOK, PatchWrite
  <2>7. LinesStay'
    BY <2>5 DEF IInv, TypeOK, LinesStay, PatchWrite
  <2>8. ReqInv'
    BY <1>2, ReqKept DEF IInv, Idle, PatchWrite
  <2> QED BY <2>5, <2>6, <2>7, <2>8 DEF IInv
<1> QED BY <1>4, <1>5

\* A delete takes away an item that no order has.
LEMMA DeleteStep ==
    ASSUME IInv, NEW r \in Requests, DeleteWrite(r)
    PROVE  IInv'
<1> DEFINE i == req[r].item
<1>1. Answer(r)
  BY DEF DeleteWrite
<1>2. /\ req' \in [Requests -> ReqStates]
      /\ req'[r] = Idle
      /\ \A q \in Requests : q # r => req'[q] = req[q]
  BY <1>1, AnswerReq DEF IInv
<1>3. i \in Items
  BY ReqFields DEF IInv, DeleteWrite
<1>4. TypeOK'
  BY <1>2, <1>3 DEF IInv, TypeOK, DeleteWrite
<1>5. LinesStay'
  <2>1. CASE Referenced(i)
    BY <2>1 DEF IInv, LinesStay, OnMenu, DeleteWrite
  <2>2. CASE ~Referenced(i)
    <3>1. menu' = [menu EXCEPT ![i] = Gone] /\ lines' = lines
      BY <2>2 DEF DeleteWrite
    <3>2. \A o \in Orders : \A k \in DOMAIN lines[o] :
             lines[o][k][1] \in Items /\ lines[o][k][1] # i
      BY <2>2 DEF Referenced, IInv, TypeOK
    <3> QED BY <3>1, <3>2 DEF IInv, TypeOK, LinesStay, OnMenu
  <2> QED BY <2>1, <2>2
<1>6. ReqInv'
  BY <1>2, ReqKept DEF IInv, Idle, DeleteWrite
<1> QED BY <1>4, <1>5, <1>6 DEF IInv

\* Appending to a sequence.
LEMMA AppendedTo ==
    ASSUME NEW S, NEW s \in Seq(S), NEW e \in S
    PROVE  /\ Append(s, e) \in Seq(S)
           /\ Len(Append(s, e)) = Len(s) + 1
           /\ DOMAIN Append(s, e) = DOMAIN s \cup {Len(s) + 1}
           /\ Append(s, e)[Len(s) + 1] = e
           /\ \A k \in DOMAIN s : Append(s, e)[k] = s[k]
OBVIOUS

\* A placement takes the next line of its cart.
LEMMA PlaceLineStep ==
    ASSUME IInv, NEW r \in Requests, PlaceLine(r)
    PROVE  IInv'
<1> DEFINE n == Len(req[r].taken) + 1
           i == req[r].cart[n]
<1>1. /\ req[r] \in [at: {"place"}, order: Orders, cart: Carts, taken: Seq(Items \X Prices)]
      /\ req[r].cart \in Seq(Items)
      /\ n \in DOMAIN req[r].cart
      /\ i \in Items
  <2>1. req[r] \in [at: {"place"}, order: Orders, cart: Carts, taken: Seq(Items \X Prices)]
    BY ReqFields DEF IInv, PlaceLine
  <2>2. req[r].cart \in Seq(Items)
    BY <2>1, MenuAssumption
  <2>3. n \in DOMAIN req[r].cart
    BY <2>1, <2>2 DEF PlaceLine
  <2> QED BY <2>1, <2>2, <2>3
<1>2. CASE ~Available(i)
  <2>1. Answer(r)
    BY <1>2 DEF PlaceLine
  <2>2. /\ req' \in [Requests -> ReqStates]
        /\ req'[r] = Idle
        /\ \A q \in Requests : q # r => req'[q] = req[q]
    BY <2>1, AnswerReq DEF IInv
  <2>3. ReqInv'
    BY <2>2, ReqKept DEF IInv, Idle, PlaceLine
  <2> QED BY <2>2, <2>3 DEF IInv, TypeOK, LinesStay, OnMenu, PlaceLine
<1>3. CASE Available(i)
  <2> DEFINE line == <<i, menu[i].price>>
             st == [req[r] EXCEPT !.taken = Append(@, line)]
  <2>1. Goto(r, st)
    BY <1>3 DEF PlaceLine
  <2>2. menu[i] \in MenuItem
    BY <1>1, <1>3 DEF Available, OnMenu, IInv, TypeOK
  <2>3. line \in Items \X Prices
    BY <1>1, <2>2 DEF MenuItem
  <2>4. line[1] = i
    OBVIOUS
  <2> HIDE DEF line
  <2>5. req[r].taken \in Seq(Items \X Prices)
    BY <1>1
  <2>6. Append(req[r].taken, line) \in Seq(Items \X Prices)
    BY <2>3, <2>5, AppendedTo
  <2>7. /\ st \in [at: {"place"}, order: Orders, cart: Carts, taken: Seq(Items \X Prices)]
        /\ st.taken = Append(req[r].taken, line)
        /\ st.cart = req[r].cart
        /\ st.at = "place"
    BY <1>1, <2>6
  <2>8. st \in ReqStates
    BY <2>7 DEF ReqStates
  <2>9. /\ req' \in [Requests -> ReqStates]
        /\ req'[r] = st
        /\ \A q \in Requests : q # r => req'[q] = req[q]
    BY <2>1, <2>8, GotoReq DEF IInv
  <2>10. TypeOK' /\ LinesStay'
    BY <2>9 DEF IInv, TypeOK, LinesStay, OnMenu, PlaceLine
  <2>11. /\ Len(st.taken) <= Len(st.cart)
        /\ \A k \in DOMAIN st.taken : st.taken[k][1] = st.cart[k]
    <3>1. /\ Len(req[r].taken) < Len(req[r].cart)
          /\ \A k \in DOMAIN req[r].taken : req[r].taken[k][1] = req[r].cart[k]
      BY DEF IInv, ReqInv, TakenFromCart, PlaceLine
    <3>2. /\ Len(st.taken) = n
          /\ DOMAIN st.taken = DOMAIN req[r].taken \cup {n}
          /\ st.taken[n] = line
          /\ \A k \in DOMAIN req[r].taken : st.taken[k] = req[r].taken[k]
      BY <2>3, <2>7, <2>5, AppendedTo
    <3>3. n <= Len(req[r].cart)
      BY <1>1
    <3>4. \A k \in DOMAIN st.taken : st.taken[k][1] = req[r].cart[k]
      <4>1. \A k \in DOMAIN req[r].taken : st.taken[k][1] = req[r].cart[k]
        BY <3>1, <3>2
      <4>2. st.taken[n][1] = req[r].cart[n]
        BY <3>2, <2>4
      <4> QED BY <4>1, <4>2, <3>2
    <3> QED BY <3>2, <3>3, <3>4, <2>7
  <2>12. st.order = req[r].order /\ lines' = lines
    BY <1>1 DEF PlaceLine
  <2> HIDE DEF st
  <2>13. TakenFromCart'
    BY <2>9, <2>11 DEF IInv, ReqInv, TakenFromCart
  <2>14. PlacesNew'
    BY <2>7, <2>9, <2>12 DEF IInv, ReqInv, PlacesNew, PlaceLine
  <2>15. LeftOfOrder'
    <3> SUFFICES ASSUME NEW p \in Requests, req'[p].at = "pay", NEW k \in DOMAIN req'[p].left
                 PROVE  \E j \in DOMAIN lines'[req'[p].order] :
                           lines'[req'[p].order][j][1] = req'[p].left[k]
      BY DEF LeftOfOrder
    <3>1. req'[p] = req[p]
      BY <2>7, <2>9
    <3>2. \E j \in DOMAIN lines[req[p].order] : lines[req[p].order][j][1] = req[p].left[k]
      BY <3>1 DEF IInv, ReqInv, LeftOfOrder
    <3> QED BY <2>12, <3>1, <3>2
  <2> QED BY <2>10, <2>13, <2>14, <2>15 DEF IInv, ReqInv
<1> QED BY <1>2, <1>3

\* A placement is inserted when all its items are there.
LEMMA PlaceWriteStep ==
    ASSUME IInv, NEW r \in Requests, PlaceWrite(r)
    PROVE  IInv'
<1> DEFINE here == \A k \in DOMAIN req[r].cart : OnMenu(req[r].cart[k])
<1>1. Answer(r)
  BY DEF PlaceWrite
<1>2. /\ req' \in [Requests -> ReqStates]
      /\ req'[r] = Idle
      /\ \A q \in Requests : q # r => req'[q] = req[q]
  BY <1>1, AnswerReq DEF IInv
<1>3. /\ req[r] \in [at: {"place"}, order: Orders, cart: Carts, taken: Seq(Items \X Prices)]
      /\ req[r].cart \in Seq(Items)
  <2>1. req[r] \in [at: {"place"}, order: Orders, cart: Carts, taken: Seq(Items \X Prices)]
    BY ReqFields DEF IInv, PlaceWrite
  <2> QED BY <2>1, MenuAssumption
<1>4. CASE ~here
  <2>1. lines' = lines
    BY <1>4 DEF PlaceWrite
  <2>2. ReqInv'
    BY <1>2, <2>1, ReqKept DEF IInv, Idle
  <2> QED BY <1>2, <2>1, <2>2 DEF IInv, TypeOK, LinesStay, OnMenu, PlaceWrite
<1>5. CASE here
  <2>1. lines' = [lines EXCEPT ![req[r].order] = req[r].taken] /\ menu' = menu
    BY <1>5 DEF PlaceWrite
  <2>2. TypeOK'
    BY <1>2, <1>3, <2>1 DEF IInv, TypeOK, PlaceWrite
  <2>3. \A k \in DOMAIN req[r].taken : OnMenu(req[r].taken[k][1])
    BY <1>3, <1>5 DEF IInv, ReqInv, TakenFromCart, PlaceWrite
  <2>4. LinesStay'
    BY <1>3, <2>1, <2>3 DEF IInv, TypeOK, LinesStay, OnMenu
  <2>5. lines[req[r].order] = << >> /\ req[r].at = "place"
    BY DEF IInv, ReqInv, PlacesNew, PlaceWrite
  <2>6. \A o \in Orders : o # req[r].order => lines'[o] = lines[o]
    BY <2>1 DEF IInv, TypeOK
  <2>7. TakenFromCart'
    BY <1>2 DEF IInv, ReqInv, TakenFromCart, Idle
  <2>8. PlacesNew'
    <3> SUFFICES ASSUME NEW p \in Requests, req'[p].at = "place"
                 PROVE  /\ lines'[req'[p].order] = << >>
                        /\ \A q \in Requests :
                              q # p /\ req'[q].at = "place" => req'[q].order # req'[p].order
      BY DEF PlacesNew
    <3>1. p # r /\ req'[p] = req[p]
      BY <1>2 DEF Idle
    <3>2. req[p].order \in Orders /\ req[p].order # req[r].order
      BY <2>5, <3>1, ReqFields DEF IInv, ReqInv, PlacesNew
    <3>3. \A q \in Requests : req'[q].at = "place" => req'[q] = req[q]
      BY <1>2 DEF Idle
    <3> QED BY <2>6, <3>1, <3>2, <3>3 DEF IInv, ReqInv, PlacesNew
  <2>9. LeftOfOrder'
    <3> SUFFICES ASSUME NEW p \in Requests, req'[p].at = "pay", NEW k \in DOMAIN req'[p].left
                 PROVE  \E j \in DOMAIN lines'[req'[p].order] :
                           lines'[req'[p].order][j][1] = req'[p].left[k]
      BY DEF LeftOfOrder
    <3>1. p # r /\ req'[p] = req[p]
      BY <1>2 DEF Idle
    <3>2. PICK j \in DOMAIN lines[req[p].order] : lines[req[p].order][j][1] = req[p].left[k]
      BY <3>1 DEF IInv, ReqInv, LeftOfOrder
    <3>3. req[p].order \in Orders /\ req[p].order # req[r].order
      BY <2>5, <3>1, <3>2, ReqFields DEF IInv
    <3> QED BY <2>6, <3>1, <3>2, <3>3
  <2> QED BY <2>2, <2>4, <2>7, <2>8, <2>9 DEF IInv, ReqInv
<1> QED BY <1>4, <1>5

\* The steps that only read the tables, and the end of a payment.
LEMMA OtherSteps ==
    ASSUME IInv, NEW r \in Requests,
           \/ \E i \in Items : DeleteGet(r, i)
           \/ \E i \in Items, patch \in Patches : PatchGet(r, i, patch)
           \/ DeleteCheck(r)
           \/ \E o \in Orders, cart \in Carts : PlaceBegin(r, o, cart)
           \/ \E o \in Orders : PayGet(r, o)
           \/ PayLine(r)
           \/ PayWrite(r)
    PROVE  IInv' /\ menu' = menu
<1> DEFINE o == req'[r].order
           Kept ==
             /\ req' \in [Requests -> ReqStates]
             /\ \A q \in Requests : q # r => req'[q] = req[q]
             /\ menu' = menu /\ lines' = lines
           \* What its new state has to say of a placement or payment.
           Fresh ==
             req'[r].at = "place" =>
                /\ req'[r].taken = << >> /\ req'[r].cart \in Carts
                /\ lines[o] = << >>
                /\ \A q \in Requests : req[q].at = "place" => req[q].order # o
           Reads ==
             req'[r].at = "pay" =>
                \A k \in DOMAIN req'[r].left :
                   \E j \in DOMAIN lines[o] : lines[o][j][1] = req'[r].left[k]
           Holds == Kept /\ Fresh /\ Reads
<1>1. ASSUME Answer(r), menu' = menu, lines' = lines
      PROVE  Holds
  <2>1. /\ req' \in [Requests -> ReqStates]
        /\ req'[r] = Idle
        /\ \A q \in Requests : q # r => req'[q] = req[q]
    BY <1>1, AnswerReq DEF IInv
  <2> QED BY <1>1, <2>1 DEF Idle
<1>2. ASSUME NEW st \in ReqStates, Goto(r, st), menu' = menu, lines' = lines
      PROVE  Kept /\ req'[r] = st
  <2>1. /\ req' \in [Requests -> ReqStates]
        /\ req'[r] = st
        /\ \A q \in Requests : q # r => req'[q] = req[q]
    BY <1>2, GotoReq DEF IInv
  <2> QED BY <1>2, <2>1
<1>3. ASSUME NEW st \in ReqStates, Goto(r, st), st.at \notin {"place", "pay"},
             menu' = menu, lines' = lines
      PROVE  Holds
  <2>1. Kept /\ req'[r] = st
    BY <1>2, <1>3
  <2> QED BY <1>3, <2>1
<1>4. ASSUME \E i \in Items : DeleteGet(r, i)
      PROVE  Holds
  <2>1. PICK i \in Items : DeleteGet(r, i)
    BY <1>4
  <2>2. [at |-> "delete", item |-> i] \in ReqStates
    BY DEF ReqStates
  <2> QED BY <1>3, <2>1, <2>2 DEF DeleteGet
<1>5. ASSUME \E i \in Items, patch \in Patches : PatchGet(r, i, patch)
      PROVE  Holds
  <2>1. PICK i \in Items, patch \in Patches : PatchGet(r, i, patch)
    BY <1>5
  <2>2. OnMenu(i) => [at |-> "patch", item |-> i, read |-> menu[i], patch |-> patch] \in ReqStates
    BY DEF ReqStates, OnMenu, IInv, TypeOK
  <2> QED BY <1>3, <2>1, <2>2 DEF PatchGet
<1>6. ASSUME DeleteCheck(r)
      PROVE  Holds
  <2>1. req[r] \in [at: {"delete", "delete_checked"}, item: Items]
    BY <1>6, ReqFields DEF IInv, DeleteCheck
  <2>2. /\ [req[r] EXCEPT !.at = "delete_checked"] \in ReqStates
        /\ [req[r] EXCEPT !.at = "delete_checked"].at \notin {"place", "pay"}
    BY <2>1 DEF ReqStates
  <2> QED BY <1>1, <1>3, <1>6, <2>2 DEF DeleteCheck
<1>7. ASSUME \E p \in Orders, cart \in Carts : PlaceBegin(r, p, cart)
      PROVE  Holds
  <2>1. PICK p \in Orders, cart \in Carts : PlaceBegin(r, p, cart)
    BY <1>7
  <2>2. [at |-> "place", order |-> p, cart |-> cart, taken |-> << >>] \in ReqStates
    BY DEF ReqStates
  <2>3. /\ Kept
        /\ req'[r] = [at |-> "place", order |-> p, cart |-> cart, taken |-> << >>]
    BY <1>2, <2>1, <2>2 DEF PlaceBegin
  <2> QED BY <2>1, <2>3 DEF PlaceBegin
<1>8. ASSUME \E p \in Orders : PayGet(r, p)
      PROVE  Holds
  <2>1. PICK p \in Orders : PayGet(r, p)
    BY <1>8
  <2> DEFINE left == [k \in DOMAIN lines[p] |-> lines[p][k][1]]
  <2>2. left \in Seq(Items)
    <3>1. lines[p] \in Seq(Items \X Prices)
      BY DEF IInv, TypeOK
    <3> QED BY <3>1
  <2>3. [at |-> "pay", order |-> p, left |-> left] \in ReqStates
    BY <2>2 DEF ReqStates
  <2>4. Kept /\ req'[r] = [at |-> "pay", order |-> p, left |-> left]
    BY <1>2, <2>1, <2>3 DEF PayGet
  <2> QED BY <2>4
<1>9. ASSUME PayLine(r)
      PROVE  Holds
  <2> DEFINE st == [req[r] EXCEPT !.left = Tail(@)]
  <2>1. /\ req[r] \in [at: {"pay"}, order: Orders, left: Seq(Items)]
        /\ req[r].left # << >>
    BY <1>9, ReqFields DEF IInv, PayLine
  <2>2. /\ st \in ReqStates
        /\ st.at = "pay" /\ st.order = req[r].order /\ st.left = Tail(req[r].left)
    BY <2>1 DEF ReqStates
  <2>3. CASE Answer(r)
    BY <1>1, <1>9, <2>3 DEF PayLine
  <2>4. CASE Goto(r, st)
    <3>1. Kept /\ req'[r] = st
      BY <1>2, <1>9, <2>2, <2>4 DEF PayLine
    <3>2. \A k \in DOMAIN Tail(req[r].left) :
             k + 1 \in DOMAIN req[r].left /\ Tail(req[r].left)[k] = req[r].left[k + 1]
      BY <2>1
    <3> HIDE DEF st
    <3>3. Reads
      <4> SUFFICES ASSUME NEW k \in DOMAIN Tail(req[r].left)
                   PROVE  \E j \in DOMAIN lines[req[r].order] :
                             lines[req[r].order][j][1] = Tail(req[r].left)[k]
        BY <2>2, <3>1
      <4>1. k + 1 \in DOMAIN req[r].left /\ Tail(req[r].left)[k] = req[r].left[k + 1]
        BY <3>2
      <4>2. req[r].at = "pay"
        BY <2>1
      <4>3. \E j \in DOMAIN lines[req[r].order] :
               lines[req[r].order][j][1] = req[r].left[k + 1]
        BY <4>1, <4>2 DEF IInv, ReqInv, LeftOfOrder
      <4> QED BY <4>1, <4>3
    <3> QED BY <2>2, <3>1, <3>3
  <2> QED BY <1>9, <2>3, <2>4 DEF PayLine
<1>10. ASSUME PayWrite(r)
      PROVE  Holds
  BY <1>1, <1>10 DEF PayWrite
<1>11. Holds
  BY <1>4, <1>5, <1>6, <1>7, <1>8, <1>9, <1>10
<1>12. TypeOK' /\ LinesStay'
  BY <1>11 DEF IInv, TypeOK, LinesStay, OnMenu
<1>13. TakenFromCart'
  <2>1. req'[r].at = "place" =>
          /\ Len(req'[r].taken) <= Len(req'[r].cart)
          /\ \A k \in DOMAIN req'[r].taken : req'[r].taken[k][1] = req'[r].cart[k]
    <3>1. SUFFICES ASSUME req'[r].at = "place"
                   PROVE  /\ Len(req'[r].taken) <= Len(req'[r].cart)
                          /\ \A k \in DOMAIN req'[r].taken :
                                req'[r].taken[k][1] = req'[r].cart[k]
      OBVIOUS
    <3>2. req'[r].taken = << >> /\ req'[r].cart \in Seq(Items)
      BY <1>11, <3>1, MenuAssumption
    <3> QED BY <3>2
  <2> QED BY <1>11, <2>1 DEF IInv, ReqInv, TakenFromCart
<1>14. PlacesNew'
  BY <1>11 DEF IInv, ReqInv, PlacesNew
<1>15. LeftOfOrder'
  BY <1>11 DEF IInv, ReqInv, LeftOfOrder
<1> QED BY <1>11, <1>12, <1>13, <1>14, <1>15 DEF IInv, ReqInv

\* Every step preserves the invariant.
THEOREM NextIInv == IInv /\ [Next]_vars => IInv'
<1> SUFFICES ASSUME IInv, [Next]_vars PROVE IInv'
  OBVIOUS
<1>1. CASE UNCHANGED vars
  BY <1>1 DEF vars, IInv, TypeOK, LinesStay, ReqInv, TakenFromCart, PlacesNew, LeftOfOrder, OnMenu
<1>2. CASE Next
  BY <1>2, CreateStep, PatchStep, DeleteStep, PlaceLineStep, PlaceWriteStep, OtherSteps
  DEF Next
<1> QED BY <1>1, <1>2

\* The invariant holds of every state of every behaviour.
THEOREM SpecIInv == Spec => []IInv
BY InitIInv, NextIInv, PTL DEF Spec

-----------------------------------------------------------------------------
(* The properties of the runs.                                             *)

\* The variables keep their types, and no column is ever null.
THEOREM TypeCorrect == Spec => []TypeOK
<1>1. IInv => TypeOK
  BY DEF IInv
<1> QED BY <1>1, SpecIInv, PTL

\* No order that has been placed ever loses an item, so that none becomes
\* impossible to pay for or to recover, and no payment under way misses one.
THEOREM PlacedOrdersKeepTheirItems == Spec => []ItemsStay
<1>1. IInv => ItemsStay
  <2> SUFFICES ASSUME IInv, NEW r \in Requests, req[r].at = "pay", NEW k \in DOMAIN req[r].left
               PROVE  OnMenu(req[r].left[k])
    BY DEF IInv, LinesStay, ItemsStay
  <2>1. req[r].order \in Orders
    BY ReqFields DEF IInv
  <2> QED BY <2>1 DEF IInv, ReqInv, LeftOfOrder, LinesStay
<1> QED BY <1>1, SpecIInv, PTL

\* Concurrent updates of an item never undo one another's columns.
THEOREM UpdatesCompose == Spec => NoLostUpdate
<1>1. ASSUME IInv, [Next]_vars PROVE [OnlyNamedColumns]_vars
  <2>1. CASE UNCHANGED vars
    BY <2>1
  <2>2. ASSUME Next PROVE OnlyNamedColumns
    <3>1. SUFFICES ASSUME NEW i \in Items, OnMenu(i), menu'[i] # menu[i], menu'[i] # Gone
                   PROVE  \E r \in Requests :
                            /\ req[r].at = "patch" /\ req'[r] = Idle /\ req[r].item = i
                            /\ \A f \in {"price", "available"} :
                                  menu'[i][f] # menu[i][f] =>
                                      f \in DOMAIN req[r].patch
                                      /\ menu'[i][f] = req[r].patch[f]
      BY DEF OnlyNamedColumns
    <3>2. \A r \in Requests : ~PlaceLine(r) /\ ~PlaceWrite(r)
      BY <3>1 DEF PlaceLine, PlaceWrite
    <3>3. \A j \in Items : ~Create(j)
      BY <1>1, <3>1 DEF Create, OnMenu, IInv, TypeOK
    <3>4. \A r \in Requests : ~DeleteWrite(r)
      BY <1>1, <3>1 DEF DeleteWrite, IInv, TypeOK
    <3>5. PICK r \in Requests : PatchWrite(r)
      BY <1>1, <2>2, <3>1, <3>2, <3>3, <3>4, OtherSteps DEF Next
    <3> DEFINE sets == {f \in Updates(req[r].patch) : req[r].patch[f] # req[r].read[f]}
    <3>6. /\ Answer(r)
          /\ menu' = [menu EXCEPT ![req[r].item] =
                [f \in {"price", "available"} |->
                    IF f \in sets THEN req[r].patch[f] ELSE menu[req[r].item][f]]]
      BY <3>1, <3>5 DEF PatchWrite
    <3>7. req'[r] = Idle /\ req[r].at = "patch"
      BY <1>1, <3>5, <3>6 DEF Answer, Goto, IInv, TypeOK, PatchWrite
    <3>8. /\ req[r].item = i
          /\ menu'[i] = [f \in {"price", "available"} |->
                            IF f \in sets THEN req[r].patch[f] ELSE menu[i][f]]
      BY <1>1, <3>1, <3>6 DEF IInv, TypeOK
    <3>9. \A f \in {"price", "available"} :
             menu'[i][f] # menu[i][f] =>
                 f \in DOMAIN req[r].patch /\ menu'[i][f] = req[r].patch[f]
      BY <3>8 DEF Updates
    <3> QED BY <3>7, <3>8, <3>9
  <2> QED BY <1>1, <2>1, <2>2
<1> QED BY <1>1, SpecIInv, PTL DEF Spec, NoLostUpdate
=============================================================================
