SPECIFICATION FairSpec
CONSTANTS
    Hosts = {h1, h2}
    Calls = {c1}
    Slots = {s1, s2}
    Answers <- AnyAnswer
    Faults = FALSE
    None = None
PROPERTIES
    DeadOwnerIsReplaced
    CloseFreesRecord
CHECK_DEADLOCK FALSE
