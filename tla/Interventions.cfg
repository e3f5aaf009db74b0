\* Four runs, so that one can be resubmitted three times, one retry a run, and one
\* restart; two interventions an hour, which is a single instant of the clock here, a
\* cooldown of two ticks, three ticks a process.
CONSTANTS
  Runs = {r1, r2, r3, r4}
  None = None
  MaxRetries = 1
  CooldownTicks = 2
  MaxPerHour = 2
  Hour = 0
  FailureLimit = 2
  QueueMaxDepth = 1
  MaxTicks = 3
  MaxBoots = 1
  Horizon = 1
SPECIFICATION Spec
SYMMETRY Symmetry
INVARIANTS
  CooldownHeld
  HourlyCapHeld
  RetriesSound
