CONSTANTS
  Requests = {r1, r2}
  MaxActive = 2
  Kinds = {"close"}
  Signers = {k1}
  Keys = {k1, k2}
  InitKey = k1
  InitSeq = 1
  InitPkt = 1
  MaxU32 = 9
  Backend = "postgres"
  MayFail = FALSE
  Refusable = {}
  MayFailAck = FALSE
  Shared = FALSE
  None = None
SPECIFICATION FairSpec
PROPERTIES CloseCloses
