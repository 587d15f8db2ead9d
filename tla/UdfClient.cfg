SPECIFICATION FairSpec
CONSTANT MaxMeta = 2
INVARIANTS
  ExitTellsTheTruth
  ShutDownBeforeDelete
  NoSpuriousAbort
  StartsFromOneHandshake
  UnansweredCallsFailed
PROPERTY LostDatabaseEndsClient
