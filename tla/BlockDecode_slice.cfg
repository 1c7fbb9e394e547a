SPECIFICATION Spec
CONSTANTS
  L = 2
  Mask = Mask
  Delete = Delete
  Split = Split
  tokA = tokA
  tokB = tokB
  Eos = Eos
  Word = tokA
  Threshold = 1
  EditingThreshold = 0
  LowThreshold = 0
  Steps = 2
  MaxPostSteps = 2
  MaxStepsPerBlock = 4
  Outputs <- MCOutputs
  Cases <- MixedLengths
INVARIANT FirstTokensKept
