\* One cart, two lines of a product in it, one of them brought back; prices,
\* quantities and pairs are edited, with counts of any sign; the list expires.
CONSTANTS
    Users = {u1}
    Products = {p1}
    LineIds = {i1, i2}
    Prices = {1, 2}
    Quantities = {1}
    Pairs <- Signed
    MinUnits <- MinusOne
    MaxUnits = 2
    MinPrice = 0
    MaxPrice = 4
    None = None
SPECIFICATION Spec
SYMMETRY Symmetry
INVARIANTS TypeOK CartTotals UnitsNeverVanish ListLagsOneLine ShopInv
