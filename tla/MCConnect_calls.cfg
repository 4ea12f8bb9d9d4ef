CONSTANTS
  Calls = {c1, c2, c3}
  Forced = {c2}
  MaxActive = 2
  InitSeq = 1
  Backends = {"sqlite", "postgres"}
  MayFail = FALSE
  MayRefuse = FALSE
  None = None
SPECIFICATION FairSpec
INVARIANTS SomeoneConnects
PROPERTIES EveryCallReturns
