SPECIFICATION Spec
CONSTANTS
  Readers = {r1, r2}
  Writers = {w1}
  Ttl = 2
  MaxTime = 5
  MaxVersion = 3
SYMMETRY Symmetry
INVARIANTS
  TypeOK
  ReadsCatchUp
  ClearedIsCurrent
  NoneExplained
