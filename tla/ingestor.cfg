SPECIFICATION FairIngestorSpec
CONSTANTS
  Duration = 3
  Lead = 2
  Ahead = 2
  MaxWait = 1
  Drift = 1
  HeartbeatDeadThreshold = 2
  MaxLost = 1
INVARIANTS IngestorTypeOK ExpiryFollowsCurrent SessionFollows FailuresExplained
PROPERTIES AnnouncedInOrder AnnouncementsContinue FeedCatchesUp HeartbeatRecovers
CHECK_DEADLOCK FALSE
