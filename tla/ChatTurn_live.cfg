CONSTANTS
  Jobs = {1, 2}
  Instances = {"a", "b"}
  Nobody = Nobody
  KindOf <- UserAsync
  At <- Alternate
  MessageOf <- OwnMessages
  OrderedCommits = TRUE
  SlowHeartbeats = FALSE
  WaitsTimeOut = FALSE
  Budget <- StopCrashAndFault
SPECIFICATION FairSpec
PROPERTIES QueueMovesOn TurnsEnd
CHECK_DEADLOCK FALSE
