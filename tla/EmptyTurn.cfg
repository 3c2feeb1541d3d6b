SPECIFICATION MCSafe
CONSTANTS
    DeliveryHosts = {h1, h2}
    Receipts = {1}
    MaxTurns = 3
    MaxFailures = 2
    NoHost = NoHost
INVARIANTS
    TurnHasWork
\* A Conversation in which nothing is left to do stays as it is.
CHECK_DEADLOCK FALSE
