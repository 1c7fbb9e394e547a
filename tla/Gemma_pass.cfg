CONSTANTS
  Modes <- MCModes
  Buckets <- MCBuckets
  MaxSeqs = 3
  MaxLength = 7
  Canvas = 2
  Window = 2
  MaxSteps = 4
  Stability = 2
  Predictions <- MCPredictions
  Eos = 9
  EarlyStop = TRUE
  Calls <- MCCalls
  MaxCalls = 2
SPECIFICATION Spec
INVARIANTS KVCommitted SeesWindow BatchAgrees ResultExact
