SPECIFICATION Spec
CONSTANTS
  IdxMod = 4
  SlotNum = 2
  SlotCntMax = 3
  Faults = TRUE
  MaxMsg = 3
  MaxChunks = 5
  MaxEdges = 2
  MaxResets = 1
INVARIANTS TypeOK SlotAccounting PostedInRingOrder NoFillOverPosted CachedWithinPosted
PROPERTY ImplementsChannel
