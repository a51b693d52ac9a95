SPECIFICATION Spec
CONSTANTS
  Command = {"redeem"}
  MaxUpdates = 3
  PollLimit = 2
  Faults = {"crash"}
  ConditionId = {1, 2, 3}
  Task = {"auto", "redeem"}
  MaxRedeems = 2
  MaxConcurrent = 2
  MaxCrashes = 1
INVARIANTS NothingLost
CHECK_DEADLOCK FALSE
