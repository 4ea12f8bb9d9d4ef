CONSTANTS
  Calls = {c1, c2}
  Forced = {}
  MaxActive = 2
  InitSeq = 1
  Backends = {"sqlite", "postgres"}
  MayFail = TRUE
  MayRefuse = FALSE
  None = None
SPECIFICATION Spec
INVARIANTS EstablishedIsSaved
