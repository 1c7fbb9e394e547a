CONSTANTS
  PageSize = 2
  BlockLength = 2
  PagesPerSeq = 3
  Kinds <- MCKinds
  PrefillBuckets <- MCPrefillBuckets
  SchedulerPages = 6
  MaxSeqs = 2
  MaxRequests = 3
  MaxBlocks = 1
  MaxAborts = 1
SPECIFICATION Spec
INVARIANTS KVOwn AttendsOwn PaddingApart
CHECK_DEADLOCK FALSE
