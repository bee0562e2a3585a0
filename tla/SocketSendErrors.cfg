SPECIFICATION Spec
CONSTANTS
  Ids <- MCIds
  Timeouts = FALSE
  Errors = TRUE
  SlotNum = 2
  ChunkMax = 1
  MaxLen = 2
  MaxReq = 2
  RetryMax = 2
INVARIANT TypeOK
INVARIANT BufferStable
INVARIANT NoStaleBit
