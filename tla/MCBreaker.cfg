SPECIFICATION FairSpec
CONSTANTS
  Calls = {c1, c2, c3}
  FailureThreshold = 3
  SuccessThreshold = 2
  Recovery = 2
  Replies <- ReplyKinds
  Report <- GenerationReport
INVARIANTS StreakExact
PROPERTIES TripJustified CloseJustified ReachesProbe RecoversWhenHealthy
