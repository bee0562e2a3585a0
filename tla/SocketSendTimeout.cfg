SPECIFICATION Spec
CONSTANTS
  Ids <- MCIds
  Timeouts = TRUE
  Errors = TRUE
  SlotNum = 2
  ChunkMax = 1
  MaxLen = 1
  MaxReq = 2
  RetryMax = 2
INVARIANT NotOverstated
