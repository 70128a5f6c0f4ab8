SPECIFICATION RegistrySpec
CONSTANTS
    Protocol = Protocol  Other = Other  Unregistered = Unregistered
    n1 = n1  n2 = n2  n3 = n3
    Nodes = {n1, n2}
    Pubkeys = {k1, k2}
    Static = {}
    Workers = 2
    BatchSize = 1
    Settings <- FailingWalks
INVARIANT LockedOnceKnown
CHECK_DEADLOCK FALSE
