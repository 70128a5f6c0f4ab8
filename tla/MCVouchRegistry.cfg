SPECIFICATION RegistrySpec
CONSTANTS
    Protocol = Protocol  Other = Other  Unregistered = Unregistered
    n1 = n1  n2 = n2  n3 = n3
    Nodes <- MCNodes
    Pubkeys = {k1, k2}
    Static = {k1}
    Workers = 2
    BatchSize = 1
    Settings <- MCSettings
INVARIANTS
    SyncIsComplete
    LockedUntilFault
SYMMETRY MCSymmetry
CHECK_DEADLOCK FALSE
