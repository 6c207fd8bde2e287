CONSTANTS
    N = 2
    Concurrency = 2
    Retries = 2
    FlushOnTrialEnd = TRUE
SPECIFICATION Spec
INVARIANTS
    OneCallAfterCancel
    FinalFlushSeesAll
PROPERTIES
    RetryAfterFailure
