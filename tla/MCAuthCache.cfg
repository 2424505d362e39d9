CONSTANTS
    Self = Self
    Other = Other
    DfsHierarchies <- MCDfsHierarchies
    Objects <- MCObjects
    Levels <- MCLevels
    MaxPermitted = 2
    MaxCtxs = 2
SPECIFICATION Spec
CHECK_DEADLOCK FALSE
CONSTANTS
    CtxKinds = {"Resource"}
    DistinctIds = TRUE
    UserAttrs <- MCRegularUsers
INVARIANTS
    GrantSound
    PermissionMonotonic
    UpstreamDfsPaths
