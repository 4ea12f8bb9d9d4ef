CONSTANTS
  Calls = {c1, c2, c3}
  Forced = {}
  MaxActive = 2
  InitSeq = 1
  Backends = {"sqlite", "postgres"}
  MayFail = TRUE
  MayRefuse = TRUE
  None = None
SPECIFICATION Spec
SYMMETRY Symmetry
INVARIANTS TypeOK HandshakeAgreement
PROPERTIES DetailsNeverReplaced
