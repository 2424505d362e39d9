\* load_graph after a clean restart loses permission edges (spec.md 4.4).
CONSTANTS
    Handlers = {h1, h2}
    Users = {u1, u2}
    GroupIds = {g1, g2}
    AddUserPerms <- MCAddUserPerms
    UlidRandom <- MCUlidRandom
    MaxMs = 2
    MaxRequests = 3
    MaxFailures = 0
    MaxCrashes = 1
    NoHandler = NoHandler
    NoTxn = NoTxn
SPECIFICATION Spec
PROPERTY RestartPreservesGraph
CHECK_DEADLOCK FALSE
