SPECIFICATION Spec
CONSTANTS
    Workers = {w1, w2}
    Names = {"ann", "bob"}
    Federated = "bob"
    MaxFailures <- MCMaxFailures
    Window = 1
    Lockout = 1
    SudoTtl = 1
    StateTtl = 1
    TokenTtl = 1
    MaxTime = 2
    MaxCalls = 2
    MaxStates = 1
    MaxEnrolments = 1
    MaxLosses = 1
SYMMETRY WorkersAlike
CHECK_DEADLOCK FALSE
INVARIANTS
  LockJustified
  BurstLocks
  SpentOnce
PROPERTY
  NoTokenForRefused
