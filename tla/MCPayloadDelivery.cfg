SPECIFICATION FairSpec
CONSTANTS
    c1 = c1  c2 = c2
    i1 = i1
    f1 = f1  f2 = f2
    noFork = noFork  noInstance = noInstance
    NoFork <- noFork
    NoInstance <- noInstance
    Calls <- MCCalls
    Instances <- MCInstances
    Slots <- MCSlots
    Forks <- MCForks
    Versions <- MCVersions
INVARIANTS
    OneBlockPerSlot
    NothingLostOnShutdown
PROPERTIES
    LedgerSpec
    StopCompletes
CHECK_DEADLOCK FALSE
