CONSTANTS
    N = 3
    Calls = {c1, c2}
    MaxSlot = 2
    AllowSyncing = FALSE
SPECIFICATION Spec
CHECK_DEADLOCK FALSE
INVARIANTS
    GivesUpAfterAll
    PublishedIsTrue
    SyncedIsPreferred
