SPECIFICATION Spec
CONSTANTS
  IdxMod = 6
  SlotNum = 3
  SlotCntMax = 2
  RxBufSlots = 1
  MaxFails = 1
  MaxMsg = 3
  MaxChunks = 4
  MaxResets = 1
INVARIANTS TypeOK RxAccounting RxPostedInRingOrder NoPostOverUnread LossBounded
PROPERTY ImplementsChannel
