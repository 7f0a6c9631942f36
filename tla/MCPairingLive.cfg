CONSTANTS
  Reader = {r1, r2}
  HostPsk = {p1, p2, p3}
  ForeignPsk = {w1, w2}
  Bb = {h1}
  MaxGeneration = 4
  MaxTrouble = 3
  Absent = Absent
  Partial = Partial
SPECIFICATION FairSpec
PROPERTIES
  Recovers
