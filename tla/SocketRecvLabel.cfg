SPECIFICATION Spec
CONSTANTS
  Ids <- MCIds
  DataLen = 1
  MaxData = 1
  MaxModes = 1
INVARIANT RxdOwn
