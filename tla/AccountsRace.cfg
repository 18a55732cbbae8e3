\* Two edits at once of one user and the user's role.
CONSTANTS
    Users = {u1}
    Passwords = {w1, w2}
    Roles = {r1}
    Perms = {p1}
    Slots = {s1, s2}
    None = None
SPECIFICATION Spec
SYMMETRY Symmetry
INVARIANTS TypeOK DeletedStaysDeleted ChosenPasswordStays RevokedIsRefused EditsInv SwitchStays FlagsInv
