CONSTANTS
    Calls = {c1}
    SlotMs = 3
    Cutoff = 1
    Target = 1
    Safety = 1
    StopsBids = TRUE
    MayLeave = TRUE
    SlotsPerEpoch = 1
    ForkEpoch <- MCForkEpoch
    Scenarios <- MCScenarios
    Submissions = {s1, s2}
    MaxOpen = 1
    Names = {"", "deneb"}
    Expiry = 5
    PayloadCutoff = 1
    Horizon = 3
SPECIFICATION HSpec
CHECK_DEADLOCK FALSE
SYMMETRY SubmissionSymmetry
INVARIANTS
    DelayLeavesMargin
    ServedInTime
    ServedIsUnblinded
    BidsEndAfterStop
PROPERTY
    RecordedIsFound
