CONSTANTS
    t1 = t1
    t2 = t2
    t3 = t3
    smoke = smoke
    review = review
    NoExperiment = NoExperiment
    Trials = {t1, t2, t3}
    Scenarios = {smoke, review}
    ScenarioOf <- MCScenarioOf
    SpansOf <- MCSpansOf
    QueueSize = 2
SPECIFICATION Spec
INVARIANTS
    SpansInOwnExperiment
    UnrecordedOnlyAfterFailure
    NothingLeftBehind
