CONSTANTS
    N = 2
    S = 2
    Graded = {1}
    MaxLookups = 2
SPECIFICATION Spec
INVARIANTS
    OwnTrace
    AllScored
    OnlyRacersCreateTwice
    MissingOnlyAfterFailure
PROPERTIES
    FinishTrialEnds
