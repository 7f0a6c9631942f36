CONSTANTS
  Psk = {p1, p2}
  Binding = {b1, b2}
  Payload = {x}
  MaxGeneration = 3
  None = None
  Spoiled = Spoiled
  Partial = Partial
SPECIFICATION Spec
INVARIANTS
  TypeOK
  AckedDurable
  OneAnswer
  NeverWedged
PROPERTIES
  ImplementsRegister
SYMMETRY Symmetry
