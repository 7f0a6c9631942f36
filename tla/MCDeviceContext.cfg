CONSTANTS
  MaxGen = 3
  MaxDiscards = 1
  Stages = 2
  MaxStale = 1
SPECIFICATION LiveSpec
INVARIANTS
  TypeOK
  NoBreach
  Listening
  EpochsApart
PROPERTIES
  EpochIsLicensed
  ReleasedFromIdle
  OkMeansDone
  OperationsEnd
