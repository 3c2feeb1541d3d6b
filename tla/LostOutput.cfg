SPECIFICATION LateStopSpec
CONSTANTS
    ModelHosts = {h1}
    MaxAttempts = 1
    MaxFaults = 0
    NoHost = NoHost
INVARIANT
    SealedAfterDisplay
CHECK_DEADLOCK FALSE
