SPECIFICATION Spec
CONSTANTS
    NumRanks = 2
    Rids = {1, 2, 3}
    NumSlots = 2
    MaxOps = 2
    Faults = {"all", "one"}
INVARIANTS RowsDifferByAborts SlotsAgree
PROPERTIES PlanEnds AllStop
