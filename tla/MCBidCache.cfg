SPECIFICATION Spec
CONSTANTS
    Builders = {b1, b2}
    Values = {1, 2, 3}
    MaxSubmissions = 3
    Loads <- MCLoads
INVARIANTS
    HeaderHasPayload
    CopySourceExists
    NothingSavedAfterDelivery
    TopIsBest
PROPERTY
    AuctionSpec
CHECK_DEADLOCK FALSE
