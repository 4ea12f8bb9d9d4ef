CONSTANTS
  Requests = {r1, r2, r3}
  MaxActive = 3
  Kinds = {"mint", "update", "close"}
  Signers = {k1, k2}
  Keys = {k1, k2}
  InitKey = k1
  InitSeq = 1
  InitPkt = 1
  MaxU32 = 5
  Backend = "sqlite"
  MayFail = TRUE
  Refusable = {"recv", "header"}
  MayFailAck = TRUE
  Shared = TRUE
  None = None
SPECIFICATION Spec
SYMMETRY Symmetry
PROPERTIES StaysBehind StopAndWaitSpec
