SPECIFICATION FairSpec
CONSTANTS
    i1 = i1  i2 = i2
    b1 = b1  b2 = b2
    s1 = s1  s2 = s2
    nobody = nobody
    Nobody <- nobody
    Instances <- MCInstances
    Builders <- MCBuilders
    Ids = {"", "x"}
    Values = {1, 2}
    Amounts = {0, 2}
    Submissions <- MCSubmissions
    Setups <- MCSetups
    MaxSlot = 2
INVARIANTS
    InvalidIsFunded
    DemotionIsEffective
    RefundIsDue
PROPERTY WaitsEnd
CHECK_DEADLOCK FALSE
