SPECIFICATION TransferSpec
CONSTANTS
  Clients = {w1}
  Nobody = nobody
  Callers = {}
  Fids = {f1}
  HasEmbedded = FALSE
  Faults = {"spawn"}
  Percentages = {}
  Patchers = {p1, p2}
  Bytes <- MCBytes
  Bundle <- MCBundle
  Ranges <- MCRanges
  Trailer <- MCTrailer
  Crlf <- MCCrlf
  Hole = hole
SYMMETRY Symmetry
INVARIANTS
  TransferTypeOK
  AcknowledgedBytesKept
PROPERTIES
  TrackImplemented
