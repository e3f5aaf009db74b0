SPECIFICATION Spec
CONSTANTS
  Runs = {r1}
  QueueMaxDepth = 1
  MaxConcurrent = 1
  Cancellable = {r1}
  MaxDowns = 0
INVARIANTS
  NeverStuckQueued
