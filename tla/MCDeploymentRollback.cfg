SPECIFICATION Spec
CONSTANTS
  Release = {"old", "new"}
  MaxTrouble = 2
  Absent = "absent"
  Part = "part"
INVARIANTS BrokenIsRemovable
