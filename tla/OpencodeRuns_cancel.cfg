SPECIFICATION Spec
CONSTANTS
  Runs = {r1, r2, r3}
  QueueMaxDepth = 2
  MaxConcurrent = 1
  Cancellable = {r1, r2, r3}
  MaxDowns = 0
SYMMETRY Symmetry
INVARIANTS
  LiveTaskOwnsOpenRow
  NothingLeaks
