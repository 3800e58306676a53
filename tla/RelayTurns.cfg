CONSTANTS
  MaxMsgs = 5
  Places = {here, there}
  MaxWaiting = 2
SPECIFICATION FairSpec
INVARIANTS TypeOK OneTurnAtATime
PROPERTIES ImplementsPlaceQueues AcceptedIsAnswered
CHECK_DEADLOCK FALSE
