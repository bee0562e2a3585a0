SPECIFICATION FairSpec
CONSTANTS
  IdxMod = 4
  SlotNum = 2
  SlotCntMax = 3
  RxBufSlots = 1
  MaxFails = 0
  MaxMsg = 3
  MaxChunks = 4
  MaxResets = 1
PROPERTIES SendEnds SentIsReceived
