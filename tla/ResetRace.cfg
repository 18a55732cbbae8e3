\* Two requests at once, one failing query, OTPs and tokens of every age.
CONSTANTS
    Users = {u1}
    Passwords = {p1, p2}
    OtpIds = {o1, o2, o3}
    KeyIds = {k1, k2}
    Slots = {s1, s2}
    Validity = 30
    Instants = {0, 5, 900}
    MaxFaults = 1
    None = None
SPECIFICATION Spec
SYMMETRY Symmetry
INVARIANTS TypeOK ActiveOtpBound OnlyNewestOtpWorks OtpUseBound KeyUseBound ResetChain ResetInv
