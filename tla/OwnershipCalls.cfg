SPECIFICATION Spec
CONSTANTS
    Hosts = {h1, h2}
    Calls = {c1, c2}
    Slots = {s1}
    Answers <- OneServes
    Faults = TRUE
    None = None
INVARIANTS
    OwnerHoldsRecord
    NoOrphanRecord
    RunBodyIsOwned
    CommandsHandBack
PROPERTIES
    ImplementsLock
    HandBackStands
CHECK_DEADLOCK FALSE
