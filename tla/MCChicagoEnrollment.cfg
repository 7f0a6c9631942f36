SPECIFICATION Spec
CONSTANTS
  Required = 7
  FirstTip = 4
  MaxTips = 4
  MaxRun = 2
  Capacity = 11
INVARIANTS TypeOK NothingLost Unpackable
