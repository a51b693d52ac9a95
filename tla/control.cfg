SPECIFICATION FairSpec
CONSTANTS
  Command = {"stop", "resume", "shutdown", "set", "redeem", "stranger"}
  MaxUpdates = 2
  PollLimit = 2
  Faults = {"flush", "poll", "channel", "config", "type", "crash", "ingestor"}
  ConditionId = {1, 2}
  Task = {"auto", "specific"}
  MaxRedeems = 2
  MaxConcurrent = 1
  MaxCrashes = 1
INVARIANTS TypeOK HandledOnce NothingLost PauseFollowsOperator StoppedByOperator
PROPERTIES SetTakesEffect ShutdownStops StaleNotProcessed
CHECK_DEADLOCK FALSE
