CONSTANTS
  Ops = {o1, o2}
  Kinds = {"mint", "burn", "update", "add", "connect", "query"}
  Modes = {"cli", "server"}
  Hooks = 1
  MayFail = TRUE
  None = None
SPECIFICATION FairSpec
INVARIANTS
  TypeOK
  SuccessIsDrained
  OkIsAnnounced
  TellsTheTruth
PROPERTIES
  EventLogSpec
  EventsAreHandled
  EveryCommandEnds
