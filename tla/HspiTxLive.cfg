SPECIFICATION FairSpec
CONSTANTS
  IdxMod = 6
  SlotNum = 3
  SlotCntMax = 2
  Faults = FALSE
  MaxMsg = 3
  MaxChunks = 5
  MaxEdges = 2
  MaxResets = 1
PROPERTIES ImplementsChannel PostedIsRead HostFollowsReboot
