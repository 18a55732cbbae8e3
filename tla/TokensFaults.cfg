\* Two requests at once on one session, one failing query.
CONSTANTS
    Users = {u1}
    TokenIds = {t1, t2, t3, t4}
    Slots = {s1, s2}
    AdminStatuses = {"blocked"}
    MaxFaults = 1
    Expiry = FALSE
    NoUser = NoUser
    NoToken = NoToken
SPECIFICATION Spec
SYMMETRY Symmetry
INVARIANTS TypeOK FamilyIntegrity SessionInv LiveAccessBound
PROPERTIES ClosedStaysClosed BlockedUserOpensNoSession LogoutIsTruthful
