SPECIFICATION FairCacheSpec
CONSTANTS
    Procs = {p1, p2, p3}
    Watched = p1
    Nobody = Nobody
    LockWorks = TRUE
    MaxFaults = 1
    MaxS3Faults = 1
INVARIANTS CacheTypeOK NeverTorn PublishedOnce FailsForAReason OneAnswerWarmsTheCache
PROPERTIES EveryRequestEnds
