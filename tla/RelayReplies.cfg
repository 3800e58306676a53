CONSTANTS
  Newest = 2
  PostRetries = 1
  Faults = 2
SPECIFICATION FairSpec
INVARIANTS TypeOK PostedOnce NewestIsAnswered
PROPERTIES ReplyIsPosted WorkerIsReleased
CHECK_DEADLOCK FALSE
