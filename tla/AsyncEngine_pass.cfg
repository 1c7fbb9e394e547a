CONSTANTS
    Clients = {c1, c2, c3}
    Rids = {r1, r2}
    RidOf <- SharedId
    MaxNumSeqs = 1
    MayRetract = FALSE
    None = none
SPECIFICATION FairSpec
INVARIANTS NoStrandedSlot
PROPERTIES OneFinalOutput Answered
CHECK_DEADLOCK FALSE
