CONSTANTS
  Threads = {"x", "y"}
  Runs = {"r1", "r2"}
  Nobody = Nobody
  Before <- OneEach
  Imported = {"x"}
  PerRound = 1
  Posts = 4
  Trouble = 1
SPECIFICATION FairSpec
INVARIANTS TypeOK SeenIsCopied ForkedForAReason EarlyStopIsSafe
PROPERTIES ContinuedIsLeftAlone CopiedInTheEnd
