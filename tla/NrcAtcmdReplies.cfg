SPECIFICATION FairSpec
CONSTANTS
  MaxPayload = 1
  MaxCmds = 3
  MaxRxd = 1
  MaxResets = 1
  MaxFaults = 1
INVARIANTS TypeOK ReplyOnce OwnReply
PROPERTY CommandEnds
\* The host may send nothing more.
CHECK_DEADLOCK FALSE
