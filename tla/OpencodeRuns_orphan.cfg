SPECIFICATION Spec
CONSTANTS
  Runs = {r1}
  QueueMaxDepth = 1
  MaxConcurrent = 1
  Cancellable = {}
  MaxDowns = 1
INVARIANTS
  NoOrphanAfterCleanExit
