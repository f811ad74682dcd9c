SPECIFICATION Spec
CONSTANTS
  Clients <- MCClients
  Runs <- MCRuns
  Bundles <- MCBundles
  Signed <- MCBundles
  Embedded <- MCEmbedded
  Server = Server
  Nobody = Nobody
  r1 = r1
  r2 = r2
  b1 = b1
  b2 = b2
INVARIANTS
  TypeOK
  NothingLeftBehind
  InstalledIsCarried
  ReportIsTrue
PROPERTY ServerFilesKept
