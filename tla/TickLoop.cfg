\* run() and a direct call of tick_once() racing it: two failures or overruns trip the
\* breaker, a wait may draw more than an interval of jitter, three intervals of time.
CONSTANTS
  Callers = {m1}
  Interval = 2
  Jitter = 3
  OverrunAt = 2
  MaxFailures = 2
  AutoPause = TRUE
  Horizon = 7
SPECIFICATION FairSpec
INVARIANTS
  Breaker
  NoOverlap
PROPERTIES
  OneTickPerInterval
  StopEndsLoop
