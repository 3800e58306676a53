CONSTANTS
  Jobs = {1, 2}
  Instances = {"a", "b"}
  Nobody = Nobody
  KindOf <- TicketUser
  At <- Alternate
  MessageOf <- OwnMessages
  OrderedCommits = FALSE
  SlowHeartbeats = TRUE
  WaitsTimeOut = TRUE
  Budget <- StopAndShutdown
SPECIFICATION Spec
INVARIANTS TypeOK SingleFlight ContextHasEarlierReplies CompleteMeansReplied
PROPERTY ImplementsOrderedTurns
CHECK_DEADLOCK FALSE
