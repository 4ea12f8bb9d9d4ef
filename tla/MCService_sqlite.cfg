CONSTANTS
  Requests = {r1, r2, r3}
  MaxActive = 2
  Kinds = {"mint", "burn", "update", "close"}
  Signers = {k1}
  Keys = {k1, k2}
  InitKey = k1
  InitSeq = 1
  InitPkt = 1
  MaxU32 = 9
  Backend = "sqlite"
  MayFail = FALSE
  Refusable = {"header"}
  MayFailAck = TRUE
  Shared = FALSE
  None = None
SPECIFICATION SerialFairSpec
INVARIANTS KeySync OkIsTrue NothingForgotten SerialSync AloneSucceeds
PROPERTIES EveryRequestReturns
