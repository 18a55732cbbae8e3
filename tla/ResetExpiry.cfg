\* One request at a time, an OTP presented after the minutes the mail names.
CONSTANTS
    Users = {u1}
    Passwords = {p1, p2}
    OtpIds = {o1}
    KeyIds = {k1}
    Slots = {s1}
    Validity = 30
    Instants = {0, 31}
    MaxFaults = 0
    None = None
SPECIFICATION Spec
PROPERTY OtpExpiresAsMailed
