SPECIFICATION Spec
CONSTANTS
  IdxMod = 28
  Size = 14
  SlotSize = 2
  Limit = 7
  BufLen = 3
  Slack = 1
  MaxSent = 18
  MaxChanges = 1
INVARIANT IsrAssert
\* A failed assertion stops the firmware.
CHECK_DEADLOCK FALSE
