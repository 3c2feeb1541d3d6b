SPECIFICATION MCSpec
CONSTANTS
    EffectHosts = {h1, h2}
    Calls = {1, 2}
    ToolAnswers = {"succeeded"}
    MaxGeneration = 3
    NoHost = NoHost
INVARIANTS
    CancelledNeverRan
    ObservationKept
    StopReachesCalls
PROPERTIES
    SettledStands
    StopEndsTurn
\* A Turn that has ended stays as it is.
CHECK_DEADLOCK FALSE
