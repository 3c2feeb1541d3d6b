SPECIFICATION MCSpec
CONSTANTS
    DeliveryHosts = {h1, h2}
    Receipts = {1, 2}
    MaxTurns = 3
    MaxFailures = 2
    NoHost = NoHost
INVARIANTS
    DeliveryTypeOK
    ReachesOnce
    NothingLeftBehind
PROPERTIES
    OpensOnce
    FirstEndSettles
\* A Conversation in which nothing is left to do stays as it is.
CHECK_DEADLOCK FALSE
