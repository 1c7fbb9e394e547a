CONSTANTS
    Requests = {1, 2, 3}
    Pages = {p1, p2, p3, p4, p5, p6}
    PageSize = 2
    MaxBatchSize = 2
    MaxScheduledTokens = 4
    PromptLens = {1, 2, 7}
    FullPromptPrefill = FALSE
    MaxBlocks = 2
    MayRetract = TRUE
SPECIFICATION Spec
SYMMETRY PageSymmetry
INVARIANTS TypeOK PagesAccounted FlightExclusive NoFault SlotsBounded
PROPERTIES ImplementsContract
