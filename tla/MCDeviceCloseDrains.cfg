CONSTANTS
  MaxGen = 1
  MaxDiscards = 1
  Stages = 2
  MaxStale = 0
SPECIFICATION Spec
INVARIANTS
  CloseDrains
