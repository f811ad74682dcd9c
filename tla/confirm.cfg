SPECIFICATION Spec
CONSTANTS
  Clients = {w1}
  Nobody = nobody
  Callers = {c1, c2}
  Fids = {}
  HasEmbedded = TRUE
  Faults = {"rauc", "spawn"}
  Percentages = {}
SYMMETRY Symmetry
INVARIANTS
  ConfirmedIsGood
  OutcomeIsLatest
  UndisturbedConfirmRefused
