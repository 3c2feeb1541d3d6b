SPECIFICATION Spec
CONSTANTS
    Commands = {1, 2, 3, 4}
    KindOf <- Mixed
    GroupOf <- AllAlike
    Callers = {c1, c2}
    Controllers = {k1}
    Start0 = 4
    MaxTime = 5
    MaxRev = 3
    MaxRetries = 0
    MaxInputs = 0
    MaxCrashes = 0
    None = None
CONSTRAINT Small
SYMMETRY Symmetry
INVARIANTS
    LastEditIsSent
PROPERTIES
    QueueImplemented
    NoOvertaking
    HandoffIsWanted
CHECK_DEADLOCK FALSE
