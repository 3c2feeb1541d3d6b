SPECIFICATION FairSpec
CONSTANTS
    h1 = h1
    h2 = h2
    runner = runner
    child = child
    peer = peer
    c1 = c1
    c2 = c2
    c3 = c3
    Hosts = {h1, h2}
    Owners = {runner, peer}
    Callers = {c1, c3}
    HostOf <- TwoOwners
    OwnerOf <- OnePerOwner
    Duration = 1
    MaxTime = 1
    MaxGen = 3
    Released = Released
    None = None
PROPERTIES
    DeadHolderReplaced
CHECK_DEADLOCK FALSE
