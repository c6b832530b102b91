CONSTANTS
    e1 = e1
    e2 = e2
    w1 = w1
    Executor <- TwoExecutors
    Writer <- OneWriter
    Object <- TwoObjects
    MaxRequests = 1
    WasArchived = FALSE
    MaxRetries = 2
    MaxFaults = 2
CHECK_DEADLOCK FALSE
SPECIFICATION FairSpec
INVARIANTS TypeOK FencedAdmitsNobody ManifestIntact StampedMeansDeleted
           AbortRestoresArchive
PROPERTIES KeepsContract ApprovedIsDecided
