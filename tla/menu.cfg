SPECIFICATION Spec
CONSTANTS
    Roll = Roll
    Tart = Tart
    Items = {Roll, Tart}
    NotYet = NotYet
    Gone = Gone
    Null = Null
    Orders = {o1}
    Carts <- MCCarts
    Requests = {r1, r2}
    Prices = {p1, p2}
SYMMETRY Symmetry
INVARIANTS
    TypeOK
    ItemsStay
PROPERTIES
    NoLostUpdate
