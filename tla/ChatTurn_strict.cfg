CONSTANTS
  Jobs = {1, 2, 3}
  Instances = {"a", "b"}
  Nobody = Nobody
  KindOf <- UserRetryTicket
  At <- Alternate
  MessageOf <- FirstTwice
  OrderedCommits = TRUE
  SlowHeartbeats = FALSE
  WaitsTimeOut = TRUE
  Budget <- CrashAndFaults
SPECIFICATION Spec
INVARIANT StrictSingleFlight
CHECK_DEADLOCK FALSE
