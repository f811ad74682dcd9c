SPECIFICATION Spec
CONSTANTS
  Clients = {w1}
  Nobody = nobody
  Callers = {c1, c2}
  Fids = {}
  HasEmbedded = TRUE
  Faults = {}
  Percentages = {}
INVARIANTS
  ConfirmRefusedWhilePending
