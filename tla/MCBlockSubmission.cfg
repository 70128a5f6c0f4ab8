CONSTANTS
    Submissions = {r1}
    Parents = {p1}
    Randaos = {a1, a2}
    SlotsPerEpoch = 2
    MaxSlot = 3
    ForkEpoch <- MCForkEpoch
    IgnorableValidationErrors = TRUE
    SimMayHang = TRUE
    DBMayFail = TRUE
CHECK_DEADLOCK FALSE
SPECIFICATION HandlerFairSpec
INVARIANTS
    SendNeverBlocks
    SavedIsVetted
    RecordIsTrue
PROPERTY UpcomingAttributesKept
PROPERTY HandlersReturn
