CONSTANTS
  Requests = {r1, r2, r3}
  MaxActive = 3
  Kinds = {"mint", "update", "close"}
  Signers = {k1, k2}
  Keys = {k1, k2}
  InitKey = k1
  InitSeq = 1
  InitPkt = 1
  MaxU32 = 5
  Backend = "postgres"
  MayFail = FALSE
  Refusable = {"recv"}
  MayFailAck = TRUE
  Shared = FALSE
  None = None
SPECIFICATION FairSpec
INVARIANTS SequenceSync KeySync
PROPERTIES EveryRequestReturns
