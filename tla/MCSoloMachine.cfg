SPECIFICATION SoloSpec
CONSTANTS
  Requests = {r1, r2}
  Calls = {c1}
  Adds = {a1, a2}
  MaxActive = 2
  Kinds = {"mint", "update"}
  Signers = {k1}
  Keys = {k1, k2}
  InitKey = k1
  InitSeq = 1
  InitPkt = 1
  MaxU32 = 9
  Backend = "sqlite"
  MayFail = FALSE
  Refusable = {}
  MayFailAck = TRUE
  Shared = FALSE
  None = None
INVARIANTS OneWriter NothingForgotten
PROPERTIES NothingReset ServiceIsolated ConnectIsolated EverybodyReturns
