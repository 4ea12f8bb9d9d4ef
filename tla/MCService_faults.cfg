CONSTANTS
  Requests = {r1, r2, r3}
  MaxActive = 3
  Kinds = {"mint", "burn", "update", "close"}
  Signers = {k1, k2}
  Keys = {k1, k2}
  InitKey = k1
  InitSeq = 1
  InitPkt = 1
  MaxU32 = 3
  Backend = "postgres"
  MayFail = TRUE
  Refusable = {"recv", "transfer", "ack", "header"}
  MayFailAck = TRUE
  Shared = FALSE
  None = None
SPECIFICATION Spec
SYMMETRY Symmetry
INVARIANTS TypeOK OneProofBehind HistorySound OkIsTrue HistoryComplete ErrorIsTrue
