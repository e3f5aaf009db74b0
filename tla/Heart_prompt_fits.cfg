CONSTANTS
  Context = 19
  MaxOutput = 2
  Template = 8
  Placeholder = 5
  ItemCost <- MCItemCost
  JoinCost = 1
  MaxEntries = 2
  Retention = 1
  BrainEnabled = TRUE
  MaxRetries = 1
  BackoffInitial = 1
  BackoffMax = 3
  Schedules <- MCSchedules
  MaxTime = 3
  MaxTicks = 2
  MaxRows = 3
  MaxChunks = 2
  MaxDowns = 1
  MaxStepsBack = 1
  Files <- MCFiles
  CurationReplies <- MCCurationReplies
  MaxLatency = 2
  Latencies = {1, 3}
  Dirs = {d1, d2}
  Reports = {1, 2}
  MaxFaults = 1
  MaxPublishes = 1
SPECIFICATION UseSpec
CHECK_DEADLOCK FALSE
INVARIANT PromptFits
