SPECIFICATION MCSpec
CONSTANTS
    Workers = {w1, w2}
    Users = {"ann", "bob"}
    Groups = {"ops"}
    CustomRoles = {"custom"}
    Claims = {"staff"}
    MaxCalls = 2
    MaxSyncs = 1
SYMMETRY WorkersAlike
CHECK_DEADLOCK FALSE
INVARIANT
  SyncConverges
PROPERTIES
  LastAdminHeld
  ReferencesSound
  SyncKeepsOthers
