SPECIFICATION Spec
CONSTANTS
  Release = {"old", "new"}
  MaxTrouble = 3
  Absent = "absent"
  Part = "part"
INVARIANTS TypeOK Outcome
PROPERTIES SafeSteps
