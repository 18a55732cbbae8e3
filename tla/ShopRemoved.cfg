\* A removed line and a pair edit.
CONSTANTS
    Users = {u1}
    Products = {p1}
    LineIds = {i1, i2}
    Prices = {1}
    Quantities = {}
    Pairs = {1}
    MinUnits = 0
    MaxUnits = 2
    MinPrice = 0
    MaxPrice = 2
    None = None
SPECIFICATION Spec
SYMMETRY Symmetry
INVARIANT RemovedIsGone
