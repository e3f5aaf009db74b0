CONSTANTS
  p1 = p1
  p2 = p2
  NoLaunch = NoLaunch
  Free = Free
  Procs = {p1, p2}
  Bundled <- MCBundled
  Plans <- MCPlans
  Resolutions <- MCResolutions
  Users = {u1}
  Runs = {r1}
  LineBytes = {1, 2}
  MaxLines = 5
  MaxWriteErrors = 1
SPECIFICATION Spec
CHECK_DEADLOCK FALSE
INVARIANTS
  SchemaSound
  TotpReadable
  UsedIsUp
  TraceSound
PROPERTIES
  OrphansOnlyBySignal
  SpoolSound
  ToldEnds
