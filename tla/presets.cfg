SPECIFICATION Spec
CONSTANTS
  Callers = {c1, c2}
  Names = {"a", "b"}
  Predefined = {"a"}
  Values = {v1}
  Missing = missing
  Corrupt = corrupt
  Shipped = shipped
  Died = died
  NoAnswer = noanswer
  DiskFails = TRUE
SYMMETRY Symmetry
INVARIANTS
  TypeOK
  ListsRegular
  GetsExplained
PROPERTIES
  AtomicImplemented
