SPECIFICATION Spec
CONSTANTS
    i1 = i1  i2 = i2
    f1 = f1  f2 = f2
    Instances <- MCInstances
    Validators = {v1}
    Fields <- MCFields
    MaxCalls = 3
    MaxTimestamp = 3
    Processors = {p1}
    QueueCap = 1
    KeepGoing = TRUE
    Traffic <- MCTraffic
SYMMETRY MCSymmetry
INVARIANTS
    StoredIsVerified
    StoresAgree
PROPERTIES
    DiscardIsRedundant
CHECK_DEADLOCK FALSE
