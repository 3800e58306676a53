CONSTANTS
  Instances = {"a", "b"}
  Nobody = Nobody
  Runs = {"r1", "r2"}
  Schedules = {"daily", "once"}
  OneOff = {"once"}
  RetryLimit <- OneRetry
  None = None
  Trouble = 1
SPECIFICATION FairSpec
INVARIANTS TypeOK OneScheduler SingleRun OneOffRunsOnce
PROPERTIES SomeoneLeads ActiveStaysArmed
