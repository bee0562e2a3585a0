SPECIFICATION FairSpec
CONSTANTS
  BufMax = 2
  DoneEvent = FALSE
  MaxData = 3
  MaxModes = 2
  MaxExits = 2
INVARIANTS TypeOK ExitPrefixIdle ReportExact DataNotParsed
PROPERTY IdleIsTold
\* The host may stop.
CHECK_DEADLOCK FALSE
