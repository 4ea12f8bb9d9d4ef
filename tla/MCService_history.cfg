CONSTANTS
  Requests = {r1, r2}
  MaxActive = 2
  Kinds = {"mint"}
  Signers = {k1}
  Keys = {k1, k2}
  InitKey = k1
  InitSeq = 1
  InitPkt = 1
  MaxU32 = 9
  Backend = "sqlite"
  MayFail = FALSE
  Refusable = {}
  MayFailAck = FALSE
  Shared = FALSE
  None = None
SPECIFICATION FairSpec
INVARIANTS HistoryComplete
