CONSTANTS
    N = 2
    EventsPerTrial = 2
    ChunkSize = 2
    MaxRetries = 1
    MaxBatchQueue = 2
    FlushOnTrialEnd = TRUE
SPECIFICATION Spec
INVARIANTS
    EventInOnePlace
    AbandonedOnlyAfterRetries
PROPERTIES
    RequeueWithinLimit
    ImplementsEventDelivery
    FlushesEnd
