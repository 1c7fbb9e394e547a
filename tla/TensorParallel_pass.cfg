CONSTANTS
  VocabPad = 4
  NumTokens <- MCTokens
  ScoreTables <- MCScores
  Bias <- MCBias
  ChunkSize = 1
  BlockM = 2
  Configs <- MCConfigs
SPECIFICATION Spec
INVARIANTS
  ForwardExact
  AcceptedComplete
  RoutedWithin
CHECK_DEADLOCK FALSE
