\* An edit of an account overlaps a change of its password.
CONSTANTS
    Users = {u1}
    Passwords = {w1, w2}
    Roles = {r1}
    Perms = {p1}
    Slots = {s1, s2}
    None = None
SPECIFICATION Spec
PROPERTIES PasswordsChangeOnRequest
