SPECIFICATION ModelSpec
CONSTANTS
    ModelHosts = {h1, h2}
    MaxAttempts = 2
    MaxFaults = 2
    NoHost = NoHost
INVARIANTS
    ModelTypeOK
    NoTransportOutlives
PROPERTIES
    EndStands
    StopKeepsOutput
    RequestSettles
\* Nothing is left to do once the request has ended.
CHECK_DEADLOCK FALSE
