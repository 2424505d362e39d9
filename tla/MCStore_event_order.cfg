\* Event ids are committed out of order (spec.md 3(6)).
CONSTANTS
    Handlers = {h1, h2}
    Users = {u1, u2}
    GroupIds = {g1, g2}
    AddUserPerms <- MCAddUserPerms
    UlidRandom <- MCUlidRandom
    MaxMs = 2
    MaxRequests = 3
    MaxFailures = 0
    MaxCrashes = 0
    NoHandler = NoHandler
    NoTxn = NoTxn
SPECIFICATION Spec
PROPERTY EventIdsIncrease
CHECK_DEADLOCK FALSE
