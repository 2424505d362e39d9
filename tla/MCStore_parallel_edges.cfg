\* CreateGroup and AddUser of the same user and group, committed one after
\* the other, with no failing operation and no crash (spec.md 3(5)).
CONSTANTS
    Handlers = {h1, h2}
    Users = {u1, u2}
    GroupIds = {g1, g2}
    AddUserPerms <- MCAddUserPerms
    UlidRandom <- MCUlidRandom
    MaxMs = 2
    MaxRequests = 2
    MaxFailures = 0
    MaxCrashes = 0
    NoHandler = NoHandler
    NoTxn = NoTxn
SPECIFICATION Spec
INVARIANT PermissionEdgesUnique
CHECK_DEADLOCK FALSE
