CONSTANTS
  Cases <- MCCases
  Word = "w"
  Eos = "eos"
  End = "end"
  Mask = "mask"
  L = 3
  MaxSteps = 2
  Threshold = 2
SPECIFICATION Spec
INVARIANTS KVExact Causal Covered Lengths SeedKept
PROPERTY Ends
CHECK_DEADLOCK FALSE
