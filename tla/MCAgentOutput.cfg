CONSTANTS
    Turns <- MCTurns
    MaxEvents <- MCMaxEvents
    MaxMs = 2
    MaxAttempts <- MCMaxAttempts
SPECIFICATION Spec
INVARIANTS
    ResultOnOwnTool
    ThinkingWithItsAnswer
    StepTimesFit
    LatencyWithinWall
    ReasoningOfOwnGeneration
PROPERTIES
    ImplementsCallLog
