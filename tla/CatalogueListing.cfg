\* A product is created when the cached list has expired.
CONSTANTS
    Users = {u1}
    Products = {p1, p2}
    Prices = {w1}
    Slots = {s1}
    MinUnits = 0
    MaxUnits = 0
    MaxList = 2
    MaxFaults = 0
    None = None
SPECIFICATION Spec
INVARIANTS GetAllIsComplete
