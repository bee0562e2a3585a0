SPECIFICATION FairSpec
CONSTANTS
  Ids <- MCIds
  Timeouts = FALSE
  Errors = FALSE
  SlotNum = 2
  ChunkMax = 1
  MaxLen = 2
  MaxReq = 2
  RetryMax = 2
INVARIANT RequestPresent
INVARIANT OwnResult
PROPERTY RequestEnds
