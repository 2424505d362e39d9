\* Only update_object and get_object, two tasks.
CONSTANTS
    h1 = h1
    h2 = h2
    o1 = o1
    o2 = o2
    Handlers <- MCHandlers
    Objects <- MCObjects
    Ops <- MCUpdateOps
    MaxRequests = 3
    MaxVersion = 4
SPECIFICATION Spec
INVARIANT CacheMatchesDbWhenIdle
CHECK_DEADLOCK FALSE
