\* Two requests at once on one product at two prices, with a unit to sell.
CONSTANTS
    Users = {u1}
    Products = {p1}
    Prices = {w1, w2}
    Slots = {s1, s2}
    MinUnits = 0
    MaxUnits = 1
    MaxList = 2
    MaxFaults = 0
    None = None
SPECIFICATION Spec
SYMMETRY Symmetry
INVARIANTS TypeOK EditsStay UnitsStay NullNeedsOverlap CopiesInv
