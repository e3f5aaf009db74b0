SPECIFICATION FairSpec
CONSTANTS
  Runs = {r1, r2}
  QueueMaxDepth = 2
  MaxConcurrent = 1
  Cancellable = {r1, r2}
  MaxDowns = 2
INVARIANT
  NoStaleRowAfterBoot
PROPERTIES
  ImplementsLifecycle
  TasksEnd
