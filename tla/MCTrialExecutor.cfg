CONSTANTS
    N = 3
    Concurrency = 2
    Retries = 0
    FlushOnTrialEnd = FALSE
SPECIFICATION Spec
INVARIANTS
    TypeOK
    ConcurrencyBound
    CancelledNeverStarted
    DisplayMatchesResults
    ReturnsAfterAll
PROPERTIES
    ImplementsBenchmarkRun
