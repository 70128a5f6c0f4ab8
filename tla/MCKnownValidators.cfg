CONSTANTS
    n1 = n1
    n2 = n2
    v1 = v1
    v2 = v2
    v3 = v3
    Nodes = {n1, n2}
    Views <- MCViews
    Streamers = {n1, n2}
    Seeds <- MCSeeds
    StartSlots = {1, 30}
    SlotsPerEpoch = 32
    MaxSlot = 76
    MaxSkip = 1
    Lag = 2
    MaxFails = 2
CHECK_DEADLOCK FALSE
SPECIFICATION FairSpec
INVARIANTS
    ReadyMeansKnown
    InstalledIsComplete
    KnownSetIsFresh
PROPERTY EventuallyReady
