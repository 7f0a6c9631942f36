CONSTANTS
  Reader = {r1, r2}
  HostPsk = {p1, p2, p3, p4}
  ForeignPsk = {w1, w2}
  Bb = {h1, h2}
  MaxGeneration = 5
  MaxTrouble = 5
  Absent = Absent
  Partial = Partial
SPECIFICATION Spec
INVARIANTS
  TypeOK
  NoOrphan
  ActiveIsProven
PROPERTIES
  OneE0PerReservation
  RecordSticks
SYMMETRY Symmetry
