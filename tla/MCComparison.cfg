CONSTANTS
    review = review
    lib = lib
    opus = opus
    Scenarios <- MCScenarios
    Models <- MCModels
    TrialsPerCombo = 1
    IsTTY = FALSE
    ValueOf <- MCValueOf
    Baselines <- MCBaselines
    KeyOrder <- MCKeyOrder
    MinSample = 2
SPECIFICATION CompareSpec
INVARIANTS
    DisplayAgreesWithSummaries
    EveryKeyAccounted
    PercentilesFit
    MeanFaithful
    DiffDirection
