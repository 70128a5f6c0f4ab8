SPECIFICATION DutiesSpec
CONSTANTS
    SlotsPerEpoch = 32
    Registered = {0, 1, 2, 3, 4}
    MaxSlot = 100
    MaxPending = 2
    Legs <- MCLegs
    Width = 16
INVARIANTS
    DutiesCoverNextSlot
    EmptyIsRetried
CHECK_DEADLOCK FALSE
