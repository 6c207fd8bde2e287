CONSTANTS
    anthropic = anthropic
    opus = opus
    smoke = smoke
    review = review
    Scenarios <- MCScenarios
    Models <- MCModels
    TrialsPerCombo = 2
    IsTTY = TRUE
SPECIFICATION Spec
INVARIANT FailedTrialExitsWithOne
