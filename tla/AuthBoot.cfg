SPECIFICATION Spec
CONSTANTS
    Resources = {"heart.tick", "auth.users", "me.profile"}
    AuthResources = {"auth.users"}
    SelfResources = {"me.profile"}
    Builds <- MCBuilds
    CustomRoles = {"custom"}
    Others = {"other"}
    MaxBoots = 3
CHECK_DEADLOCK FALSE
INVARIANTS
  GrantsMatchPolicy
  BootstrapTokens
PROPERTY
  CustomGrantsKept
