SPECIFICATION FairSpec
CONSTANTS
    Requests = {r1, r2, r3, r4, r5}
    MaxConcurrentBlocks = 2
INVARIANTS
    ConcurrencyLimit
    NoLostWakeup
PROPERTY
    WaitersServed
