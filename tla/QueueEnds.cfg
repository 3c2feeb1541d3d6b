SPECIFICATION FairSpec
CONSTANTS
    Commands = {1, 2}
    KindOf <- Inputs
    GroupOf <- SecondApart
    Callers = {c1}
    Controllers = {k1}
    Start0 = 4
    MaxTime = 4
    MaxRev = 3
    MaxRetries = 1
    MaxInputs = 2
    MaxCrashes = 1
    None = None
ACTION_CONSTRAINT Apart
INVARIANTS
    NothingLeftOpen
PROPERTIES
    InterruptTakesEffect
    QueueDrains
