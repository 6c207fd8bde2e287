CONSTANTS
    sonnet = sonnet
    smoke = smoke
    Scenarios <- MCScenarios
    Models <- MCModels
    TrialsPerCombo = 1
    IsTTY = TRUE
SPECIFICATION Spec
INVARIANT WithinTotals
