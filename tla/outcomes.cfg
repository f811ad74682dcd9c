SPECIFICATION FairSpec
CONSTANTS
  Clients = {w1, w2}
  Nobody = nobody
  Callers = {}
  Fids = {f1}
  HasEmbedded = TRUE
  Faults = {"remove"}
  Percentages = {50}
INVARIANTS
  TypeOK
  ErrorExplained
  OutcomeIsLatest
  ProgressSettles
  StartedOwned
  UploadsBacked
PROPERTIES
  TrackCompleted
  StartedEnds
