CONSTANTS
  Jobs = {1, 2}
  Instances = {"a", "b"}
  Nobody = Nobody
  KindOf <- TicketUser
  At <- Alternate
  MessageOf <- OwnMessages
  OrderedCommits = TRUE
  SlowHeartbeats = FALSE
  WaitsTimeOut = FALSE
  Budget <- OneStop
SPECIFICATION Spec
PROPERTY StopIsNotOverwritten
CHECK_DEADLOCK FALSE
