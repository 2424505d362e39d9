\* A sync_cache call that may fail, a second one that may repair it, and two
\* handlers writing through the cache while the maps are refilled.
CONSTANTS
    k1 = k1
    k2 = k2
    w1 = w1
    w2 = w2
    Keys <- MCKeys
    Writers <- MCWriters
    WriterEntry <- MCWriterEntry
    MaxVersion = 2
    MaxSyncs = 2
    MaxSyncFailures = 1
SPECIFICATION Spec
INVARIANTS
    
    CacheMatchesDbWhenQuiet
CHECK_DEADLOCK FALSE
