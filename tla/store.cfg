SPECIFICATION Spec
CONSTANTS
  Writers = {w1, w2}
  Hostname = {"hostname"}
  Reverting = {"dns"}
  Intent = {"interval"}
  Values = {v1}
  Cleared = cleared
  Faults = {"host", "disk"}
SYMMETRY Symmetry
INVARIANTS
  TypeOK
  SettledWriteKept
  HostFollowsStore
PROPERTIES
  AtomicImplemented
