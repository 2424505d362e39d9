\* get_permissions evaluates the shared graph after dropping its read
\* transaction, while a writer may be in flight or may have failed
\* (spec.md 4.2, 5 and 7).
CONSTANTS
    Handlers = {h1, h2}
    Users = {u1, u2}
    GroupIds = {g1, g2}
    AddUserPerms <- MCAddUserPerms
    UlidRandom <- MCUlidRandom
    MaxMs = 2
    MaxRequests = 3
    MaxFailures = 1
    MaxCrashes = 0
    NoHandler = NoHandler
    NoTxn = NoTxn
SPECIFICATION Spec
PROPERTY ReadsSeeOnlyCommitted
CHECK_DEADLOCK FALSE
