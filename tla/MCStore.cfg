\* Safety of the group write transactions with one failing LMDB operation
\* and one crash.
CONSTANTS
    Handlers = {h1, h2}
    Users = {u1, u2}
    GroupIds = {g1, g2}
    AddUserPerms <- MCAddUserPerms
    UlidRandom <- MCUlidRandom
    MaxMs = 2
    MaxRequests = 3
    MaxFailures = 1
    MaxCrashes = 1
    NoHandler = NoHandler
    NoTxn = NoTxn
SPECIFICATION Spec
INVARIANTS
    TypeOK
    CommittedStateInGraph
    ResponsesTruthful
CHECK_DEADLOCK FALSE
