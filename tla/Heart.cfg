CONSTANTS
  Context = 10
  MaxOutput = 2
  Template = 4
  Placeholder = 2
  ItemCost <- MCItemCost
  JoinCost = 1
  MaxEntries = 2
  Retention = 1
  BrainEnabled = TRUE
  MaxRetries = 1
  BackoffInitial = 1
  BackoffMax = 3
  Schedules <- MCSchedules
  MaxTime = 3
  MaxTicks = 2
  MaxRows = 3
  MaxChunks = 2
  MaxDowns = 1
  MaxStepsBack = 1
  Files <- MCFiles
  CurationReplies <- MCCurationReplies
  MaxLatency = 2
  Latencies = {1, 3}
  Dirs = {d1, d2}
  Reports = {1, 2}
  MaxFaults = 1
  MaxPublishes = 1
SPECIFICATION UseSpec
CHECK_DEADLOCK FALSE
INVARIANTS
  PromptSound
  JournalSound
  NoTextTwice
  RepliesTamed
  BenchSound
  ReportsSound
PROPERTIES
  DecidedIsJournaled
  TickEnds
  OverwriteOnlyByRace
