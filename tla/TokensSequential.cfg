\* One request at a time; a query fails, JWTs expire, tokens are misplaced;
\* a logout that has begun to close a session runs to its end.
CONSTANTS
    Users = {u1, u2}
    TokenIds = {t1, t2, t3}
    Slots = {s1}
    AdminStatuses = {}
    MaxFaults = 1
    Expiry = TRUE
    NoUser = NoUser
    NoToken = NoToken
SPECIFICATION FairSpec
PROPERTIES ImplementsSessions ClosingCompletes
