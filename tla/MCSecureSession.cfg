SPECIFICATION LiveSpec
CONSTANTS
  Control <- MCControl
  AckOnly = {2, 3}
  HelloInputs = 2
  Inputs = 3
  Hello = 2
  Total = 4
  Chunks <- MCChunks
  MaxErrors = 2
INVARIANTS TypeOK NeverStalled InOrder
PROPERTIES SessionEnds
