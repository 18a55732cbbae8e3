\* One request at a time on two products with units, one failing query.
CONSTANTS
    Users = {u1}
    Products = {p1, p2}
    Prices = {w1, w2}
    Slots = {s1}
    MinUnits <- MinusOne
    MaxUnits = 1
    MaxList = 4
    MaxFaults = 1
    None = None
SPECIFICATION Spec
SYMMETRY Symmetry
INVARIANTS ListAgrees ListInv
