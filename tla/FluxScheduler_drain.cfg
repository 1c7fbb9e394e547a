CONSTANTS
    Requests = {1, 2, 3}
    Pages = {p1, p2, p3, p4, p5, p6, p7}
    PageSize = 2
    MaxBatchSize = 2
    MaxScheduledTokens = 4
    PromptLens = {2, 3}
    FullPromptPrefill = TRUE
    MaxBlocks = 1
SPECIFICATION DrainSpec
INVARIANTS CapacityExact
PROPERTIES EveryRequestEnds
\* every request may have ended and been erased
CHECK_DEADLOCK FALSE
