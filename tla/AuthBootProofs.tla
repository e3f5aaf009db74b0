--------------------------- MODULE AuthBootProofs ---------------------------
(***************************************************************************)
(* For every set of resources, builds, custom roles and users, and for any *)
(* number of boots and crashes: the reconciler reaches the policy, a boot  *)
(* leaves custom roles alone, the bootstrap identity holds one token at    *)
(* most and none while it is retired, and tombstones are final.            *)
(***************************************************************************)
EXTENDS AuthBoot, TLAPS

\* BUILTIN_ROLES lists the four roles, each once.
LEMMA RolesListed ==
    /\ Len(BUILTIN_ROLES) = 4
    /\ \A i \in 1 .. 4 : BUILTIN_ROLES[i] \in Builtin
    /\ \A s \in Builtin : \E i \in 1 .. 4 : s = BUILTIN_ROLES[i]
    /\ \A i, j \in 1 .. 4 : BUILTIN_ROLES[i] = BUILTIN_ROLES[j] => i = j
BY DEF BUILTIN_ROLES, Builtin

-----------------------------------------------------------------------------
(* Type correctness                                                        *)

\* TypeOK is inductive by itself: no table holds anything but its own rows.
THEOREM TypeCorrect == Spec => []TypeOK
<1>1. Init => TypeOK
  <2> SUFFICES ASSUME Init PROVE TypeOK
      OBVIOUS
  <2>1. conf \in Settings /\ identity \in BOOLEAN
      BY Zenon DEF Init, Settings
  <2>2. /\ pc \in Places /\ at \in 1 .. (Len(BUILTIN_ROLES) + 1) /\ boots \in Nat
        /\ build \in Catalog /\ resources \in Catalog
      BY BootAssumption, RolesListed DEF Init, Places, Catalog
  <2>3. /\ roles \subseteq Builtin /\ perms \subseteq Row /\ admins \subseteq Users
        /\ users \in [Users -> {"none", "active", "deleted"}]
        /\ tokens \in [Users -> Nat]
      BY DEF Init
  <2> QED
      BY <2>1, <2>2, <2>3 DEF TypeOK
<1>2. TypeOK /\ [Next]_vars => TypeOK'
  <2> SUFFICES ASSUME TypeOK, [Next]_vars PROVE TypeOK'
      OBVIOUS
  <2> USE BootAssumption, RolesListed DEF TypeOK
  <2>1. ASSUME NEW b \in Builds, NEW c \in Settings, StartBoot(b, c) PROVE TypeOK'
      BY <2>1 DEF StartBoot, Places, catalogVars, identityVars
  <2>2. ASSUME NEW r \in Resources, Upsert(r) PROVE TypeOK'
      BY <2>2 DEF Upsert, startVars, identityVars, Catalog
  <2>3. ASSUME NEW r \in Resources, Retire(r) PROVE TypeOK'
      BY <2>3 DEF Retire, startVars, identityVars, Catalog
  <2>4. CASE UpsertDone \/ RetireDone \/ SeedDone \/ ReconcileDone \/ Down
      BY <2>4 DEF UpsertDone, RetireDone, SeedDone, ReconcileDone, Down, Places,
                  startVars, catalogVars, identityVars
  <2>5. CASE SeedRole
      BY <2>5 DEF SeedRole, startVars, identityVars
  <2>6. CASE GrantRow
      BY <2>6 DEF GrantRow, Desired, startVars, identityVars
  <2>7. CASE RevokeRow
      BY <2>7 DEF RevokeRow, startVars, identityVars
  <2>8. CASE RoleReconciled
      BY <2>8 DEF RoleReconciled, startVars, catalogVars, identityVars
  <2>9. CASE BootstrapUntouched \/ ConfiguredIgnored
      BY <2>9 DEF BootstrapUntouched, ConfiguredIgnored, Places,
                  startVars, catalogVars, identityVars
  <2>10. CASE BootstrapRevoked \/ BootstrapRegenerated \/ BootstrapToken
              \/ ConfiguredToken
    <3>1. \E u \in Users : \E n \in {0, tokens[u] + 1} :
              tokens' = [tokens EXCEPT ![u] = n]
        BY <2>10 DEF BootstrapRevoked, BootstrapRegenerated, BootstrapToken,
                     ConfiguredToken, Users
    <3>2. tokens' \in [Users -> Nat]
        BY <3>1
    <3>3. pc' \in Places
        BY <2>10 DEF BootstrapRevoked, BootstrapRegenerated, BootstrapToken,
                     ConfiguredToken, Places
    <3> QED
        BY <2>10, <3>2, <3>3
           DEF BootstrapRevoked, BootstrapRegenerated, BootstrapToken,
               ConfiguredToken, startVars, catalogVars
  <2>11. CASE BootstrapUser \/ ConfiguredUser
      BY <2>11 DEF BootstrapUser, ConfiguredUser, Places, Users,
                   startVars, catalogVars
  <2>12. CASE BootstrapIdentity
    <3>1. identity' \in BOOLEAN
        BY <2>12, Zenon DEF BootstrapIdentity
    <3>2. pc' \in Places
        BY <2>12 DEF BootstrapIdentity, Places
    <3> QED
        BY <2>12, <3>1, <3>2 DEF BootstrapIdentity, startVars, catalogVars
  <2>13. CASE BootstrapAssign \/ ConfiguredAssign
      BY <2>13 DEF BootstrapAssign, ConfiguredAssign, Places, Users,
                   startVars, catalogVars
  <2>14. ASSUME NEW u \in Others, CreateUser(u) PROVE TypeOK'
      BY <2>14 DEF CreateUser, Users, startVars, catalogVars
  <2>15. ASSUME NEW u \in Users, AssignAdmin(u) \/ IssueToken(u) \/ DeleteUser(u)
         PROVE  TypeOK'
      BY <2>15 DEF AssignAdmin, IssueToken, DeleteUser, startVars, catalogVars
  <2>16. ASSUME NEW role \in CustomRoles, NEW rows \in SUBSET Grantable(role),
                ReplaceGrants(role, rows)
         PROVE  TypeOK'
      BY <2>16 DEF ReplaceGrants, Grantable, startVars, identityVars
  <2>17. CASE UNCHANGED vars
      BY <2>17 DEF vars
  <2> QED
      BY <2>1, <2>2, <2>3, <2>4, <2>5, <2>6, <2>7, <2>8, <2>9, <2>10, <2>11, <2>12,
         <2>13, <2>14, <2>15, <2>16, <2>17 DEF Next
<1> QED
    BY <1>1, <1>2, PTL DEF Spec

-----------------------------------------------------------------------------
(* The reconciler                                                          *)

Reconciled == {"reconcile"} \cup Provisioning

Synced == {"seed"} \cup Reconciled

\* What each stage of the boot has already achieved, and the next one relies on.
CatalogInv ==
    /\ pc = "retire" => \A r \in Resources : build[r] # {} => resources[r] = build[r]
    /\ pc \in Synced => resources = build
    /\ pc = "seed" => \A i \in 1 .. 4 : i < at => BUILTIN_ROLES[i] \in roles
    /\ pc \in Reconciled => roles = Builtin
    /\ pc = "reconcile" =>
          \A i \in 1 .. 4 :
              i < at => RowsOf(BUILTIN_ROLES[i]) = Desired(BUILTIN_ROLES[i], build)
    /\ pc \in Provisioning =>
          \A i \in 1 .. 4 : RowsOf(BUILTIN_ROLES[i]) = Desired(BUILTIN_ROLES[i], build)

\* A step that leaves the catalog tables alone and stays among the later stages.
CatalogUntouched == UNCHANGED <<build, resources, roles, perms>>

LEMMA UntouchedKeeps ==
    ASSUME CatalogInv, CatalogUntouched, pc \in Provisioning, pc' \in Provisioning
    PROVE  CatalogInv'
BY DEF CatalogInv, CatalogUntouched, RowsOf, Desired, Synced, Reconciled, Provisioning

LEMMA CatalogInductive == TypeOK /\ TypeOK' /\ CatalogInv /\ [Next]_vars => CatalogInv'
<1> SUFFICES ASSUME TypeOK, TypeOK', CatalogInv, [Next]_vars PROVE CatalogInv'
    OBVIOUS
<1>1. ASSUME NEW b \in Builds, NEW c \in Settings, StartBoot(b, c) PROVE CatalogInv'
    BY <1>1 DEF StartBoot, CatalogInv, Synced, Reconciled, Provisioning
<1>2. ASSUME NEW r \in Resources, Upsert(r) PROVE CatalogInv'
    BY <1>2 DEF Upsert, CatalogInv, Synced, Reconciled, Provisioning
<1>3. ASSUME NEW r \in Resources, Retire(r) PROVE CatalogInv'
    BY <1>3 DEF Retire, CatalogInv, Synced, Reconciled, Provisioning, TypeOK, Catalog,
                startVars
<1>4. CASE UpsertDone
    BY <1>4 DEF UpsertDone, CatalogInv, Synced, Reconciled, Provisioning,
                startVars, catalogVars
<1>5. CASE RetireDone
  <2>1. \A r \in Resources : resources[r] = build[r]
      BY <1>5 DEF RetireDone, CatalogInv
  <2>2. resources = build
      BY <2>1 DEF TypeOK, Catalog
  <2>3. pc' = "seed" /\ at' = 1 /\ build' = build /\ resources' = resources
      BY <1>5 DEF RetireDone, startVars, catalogVars
  <2> QED
      BY <2>2, <2>3 DEF CatalogInv, Synced, Reconciled, Provisioning
<1>6. CASE SeedRole
    BY <1>6, RolesListed DEF SeedRole, CatalogInv, Synced, Reconciled, Provisioning,
                TypeOK, startVars
<1>7. CASE SeedDone
  <2>1. \A i \in 1 .. 4 : BUILTIN_ROLES[i] \in roles
      BY <1>7, RolesListed DEF SeedDone, CatalogInv, TypeOK
  <2>2. roles = Builtin
    <3>1. roles \subseteq Builtin
        BY DEF TypeOK
    <3>2. ASSUME NEW s \in Builtin PROVE s \in roles
        BY <2>1, RolesListed
    <3> QED
        BY <3>1, <3>2
  <2> QED
      BY <1>7, <2>2 DEF SeedDone, CatalogInv, Synced, Reconciled, Provisioning,
                startVars, catalogVars
<1>8. CASE GrantRow \/ RevokeRow
  <2>1. PICK row \in Row : /\ row.role = BUILTIN_ROLES[at]
                           /\ perms' = perms \cup {row} \/ perms' = perms \ {row}
      BY <1>8 DEF GrantRow, RevokeRow, Desired, RowsOf, TypeOK
  <2>2. /\ pc = "reconcile" /\ pc' = pc /\ at' = at /\ at \in 1 .. 4
        /\ build' = build /\ resources' = resources /\ roles' = roles
      BY <1>8, RolesListed DEF GrantRow, RevokeRow, TypeOK, startVars
  <2>3. ASSUME NEW i \in 1 .. 4, i < at
        PROVE  RowsOf(BUILTIN_ROLES[i])' = RowsOf(BUILTIN_ROLES[i])
      BY <2>1, <2>2, <2>3, RolesListed DEF RowsOf
  <2>4. ASSUME NEW i \in 1 .. 4, i < at
        PROVE  RowsOf(BUILTIN_ROLES[i])' = Desired(BUILTIN_ROLES[i], build)
      BY <2>2, <2>3, <2>4 DEF CatalogInv
  <2> QED
      BY <2>2, <2>4 DEF CatalogInv, Synced, Reconciled, Provisioning, RowsOf, Desired
<1>9. CASE RoleReconciled
  <2>1. /\ pc = "reconcile" /\ pc' = pc /\ at' = at + 1 /\ at \in 1 .. 4
        /\ build' = build /\ resources' = resources /\ roles' = roles /\ perms' = perms
        /\ RowsOf(BUILTIN_ROLES[at]) = Desired(BUILTIN_ROLES[at], resources)
      BY <1>9, RolesListed DEF RoleReconciled, TypeOK, startVars, catalogVars
  <2>2. resources = build
      BY <2>1 DEF CatalogInv, Synced, Reconciled
  <2>3. ASSUME NEW i \in 1 .. 4, i < at + 1
        PROVE  RowsOf(BUILTIN_ROLES[i]) = Desired(BUILTIN_ROLES[i], build)
    <3>1. i < at \/ i = at
        BY <2>1, <2>3
    <3> QED
        BY <2>1, <2>2, <3>1 DEF CatalogInv
  <2> QED
      BY <2>1, <2>2, <2>3 DEF CatalogInv, Synced, Reconciled, Provisioning, RowsOf, Desired
<1>10. CASE ReconcileDone
  <2>1. /\ pc = "reconcile" /\ pc' = "bootstrap"
        /\ build' = build /\ resources' = resources /\ roles' = roles /\ perms' = perms
        /\ \A i \in 1 .. 4 : i < at
      BY <1>10, RolesListed DEF ReconcileDone, TypeOK, startVars, catalogVars
  <2> QED
      BY <2>1 DEF CatalogInv, Synced, Reconciled, Provisioning, RowsOf, Desired
<1>11. CASE \/ BootstrapUntouched \/ BootstrapRevoked \/ BootstrapRegenerated
            \/ BootstrapUser \/ BootstrapIdentity \/ BootstrapAssign
            \/ BootstrapToken \/ ConfiguredIgnored \/ ConfiguredUser
            \/ ConfiguredAssign \/ ConfiguredToken
  <2>1. CatalogUntouched /\ pc \in Provisioning /\ pc' \in Provisioning
      BY <1>11 DEF BootstrapUntouched, BootstrapRevoked, BootstrapRegenerated,
             BootstrapUser, BootstrapIdentity, BootstrapAssign, BootstrapToken,
             ConfiguredIgnored, ConfiguredUser, ConfiguredAssign, ConfiguredToken,
             CatalogUntouched, Provisioning, startVars, catalogVars
  <2> QED
      BY <2>1, UntouchedKeeps
<1>12. CASE \/ \E u \in Others : CreateUser(u)
            \/ \E u \in Users : AssignAdmin(u) \/ IssueToken(u) \/ DeleteUser(u)
  <2>1. CatalogUntouched /\ pc \in Provisioning /\ pc' \in Provisioning
      BY <1>12 DEF CreateUser, AssignAdmin, IssueToken, DeleteUser, Callable,
             CatalogUntouched, Provisioning, startVars, catalogVars
  <2> QED
      BY <2>1, UntouchedKeeps
<1>13. ASSUME NEW role \in CustomRoles, NEW rows \in SUBSET Grantable(role),
              ReplaceGrants(role, rows)
       PROVE  CatalogInv'
  <2>1. /\ pc = "up" /\ pc' = "up" /\ build' = build
        /\ resources' = resources /\ roles' = roles
        /\ perms' = (perms \ RowsOf(role)) \cup rows
      BY <1>13 DEF ReplaceGrants, Callable, startVars
  <2>2. role \notin Builtin /\ \A row \in rows : row.role = role
      BY BootAssumption DEF Grantable
  <2>3. ASSUME NEW i \in 1 .. 4
        PROVE  RowsOf(BUILTIN_ROLES[i])' = RowsOf(BUILTIN_ROLES[i])
      BY <2>1, <2>2, RolesListed DEF RowsOf
  <2> QED
      BY <2>1, <2>3 DEF CatalogInv, Synced, Reconciled, Provisioning, RowsOf, Desired
<1>14. CASE Down
    BY <1>14 DEF Down, CatalogInv, Synced, Reconciled, Provisioning
<1>15. CASE UNCHANGED vars
    BY <1>15 DEF vars, CatalogInv, RowsOf, Desired
<1> QED
    BY <1>1, <1>2, <1>3, <1>4, <1>5, <1>6, <1>7, <1>8, <1>9, <1>10, <1>11, <1>12, <1>13,
       <1>14, <1>15 DEF Next

\* Whatever was left by earlier builds and wherever earlier boots crashed, a boot that
\* has reconciled holds this build's catalog and the policy's grants, row for row.
THEOREM ReconcilerReachesPolicy == Spec => []GrantsMatchPolicy
<1>1. Init => CatalogInv
    BY DEF Init, CatalogInv, Synced, Reconciled, Provisioning
<1>2. TypeOK /\ CatalogInv => GrantsMatchPolicy
  <2> SUFFICES ASSUME TypeOK, CatalogInv, pc \in Provisioning
               PROVE  /\ resources = build
                      /\ roles = Builtin
                      /\ \A s \in Builtin : RowsOf(s) = Desired(s, build)
      BY DEF GrantsMatchPolicy
  <2>1. resources = build /\ roles = Builtin
      BY DEF CatalogInv, Synced, Reconciled
  <2>2. ASSUME NEW s \in Builtin PROVE RowsOf(s) = Desired(s, build)
    <3>1. PICK i \in 1 .. 4 : s = BUILTIN_ROLES[i]
        BY RolesListed
    <3> QED
        BY <3>1 DEF CatalogInv
  <2> QED
      BY <2>1, <2>2
<1> QED
    BY <1>1, <1>2, CatalogInductive, TypeCorrect, PTL DEF Spec

-----------------------------------------------------------------------------
(* The bootstrap identity                                                  *)

FirstBoot == {"bootstrap_identity", "bootstrap_assign", "bootstrap_token"}

AfterBootstrap == {"configured", "configured_assign", "configured_token", "up"}

\* The token of the bootstrap user is written last on a first boot, and only there or
\* where there is none; a user who is not there has neither token nor identity.
TokenInv ==
    /\ tokens["bootstrap"] \in {0, 1}
    /\ users["bootstrap"] = "none" => tokens["bootstrap"] = 0 /\ identity = FALSE
    /\ pc \in FirstBoot =>
          tokens["bootstrap"] = 0 /\ users["bootstrap"] # "none" /\ conf.bootstrap = TRUE
    /\ (pc \in AfterBootstrap /\ conf.security = TRUE /\ conf.bootstrap = FALSE
            /\ identity = TRUE) => tokens["bootstrap"] = 0

LEMMA TokenInductive == TypeOK /\ TokenInv /\ [Next]_vars => TokenInv'
<1> SUFFICES ASSUME TypeOK, TokenInv, [Next]_vars PROVE TokenInv'
    OBVIOUS
<1> DEFINE B == "bootstrap"
<1>0. B \in Users /\ "configured" \in Users /\ B # "configured"
    BY DEF Users
<1>1. ASSUME NEW b \in Builds, NEW c \in Settings, StartBoot(b, c) PROVE TokenInv'
    BY <1>1 DEF StartBoot, TokenInv, FirstBoot, AfterBootstrap, identityVars
<1>2. CASE \/ \E r \in Resources : Upsert(r) \/ Retire(r)
           \/ UpsertDone \/ RetireDone \/ SeedRole \/ SeedDone
           \/ GrantRow \/ RevokeRow \/ RoleReconciled \/ ReconcileDone \/ Down
    BY <1>2 DEF Upsert, Retire, UpsertDone, RetireDone, SeedRole, SeedDone, GrantRow,
           RevokeRow, RoleReconciled, ReconcileDone, Down, TokenInv, FirstBoot,
           AfterBootstrap, identityVars, startVars
<1>3. CASE BootstrapUntouched
    BY <1>3, Zenon DEF BootstrapUntouched, TokenInv, FirstBoot, AfterBootstrap,
           identityVars, startVars
<1>4. CASE BootstrapRevoked
    BY <1>4, <1>0 DEF BootstrapRevoked, TokenInv, FirstBoot, AfterBootstrap, startVars, TypeOK
<1>5. CASE BootstrapRegenerated
    BY <1>5, <1>0 DEF BootstrapRegenerated, TokenInv, FirstBoot, AfterBootstrap, startVars, TypeOK
<1>6. CASE BootstrapUser
    BY <1>6, <1>0 DEF BootstrapUser, TokenInv, FirstBoot, AfterBootstrap, startVars, TypeOK, Existing
<1>7. CASE BootstrapIdentity \/ BootstrapAssign
    BY <1>7, <1>0 DEF BootstrapIdentity, BootstrapAssign, TokenInv, FirstBoot, AfterBootstrap, startVars
<1>8. CASE BootstrapToken
    BY <1>8, <1>0 DEF BootstrapToken, TokenInv, FirstBoot, AfterBootstrap, startVars, TypeOK
<1>9. CASE ConfiguredIgnored \/ ConfiguredAssign
    BY <1>9, <1>0 DEF ConfiguredIgnored, ConfiguredAssign, TokenInv, FirstBoot, AfterBootstrap,
           startVars, identityVars
<1>10. CASE ConfiguredUser \/ ConfiguredToken
    BY <1>10, <1>0 DEF ConfiguredUser, ConfiguredToken, TokenInv, FirstBoot, AfterBootstrap,
           startVars, TypeOK
<1>11. ASSUME NEW u \in Others, CreateUser(u) PROVE TokenInv'
    BY <1>11, <1>0, BootAssumption DEF CreateUser, TokenInv, FirstBoot, AfterBootstrap,
           startVars, TypeOK, Users, Callable
<1>12. ASSUME NEW u \in Users, AssignAdmin(u) PROVE TokenInv'
    BY <1>12 DEF AssignAdmin, TokenInv, FirstBoot, AfterBootstrap, startVars
<1>13. ASSUME NEW u \in Users, IssueToken(u) PROVE TokenInv'
  <2>1. CASE u # B
      BY <1>13, <1>0, <2>1 DEF IssueToken, TokenInv, FirstBoot, AfterBootstrap, startVars, TypeOK
  <2>2. CASE u = B
      BY <1>13, <1>0, <2>2 DEF IssueToken, TokenInv, FirstBoot, AfterBootstrap, startVars, TypeOK, Callable
  <2> QED BY <2>1, <2>2
<1>14. ASSUME NEW u \in Users, DeleteUser(u) PROVE TokenInv'
    BY <1>14, <1>0 DEF DeleteUser, TokenInv, FirstBoot, AfterBootstrap, startVars, TypeOK, Callable
<1>15. ASSUME NEW role \in CustomRoles, NEW rows \in SUBSET Grantable(role),
              ReplaceGrants(role, rows)
       PROVE  TokenInv'
    BY <1>15 DEF ReplaceGrants, TokenInv, FirstBoot, AfterBootstrap, startVars, identityVars
<1>16. CASE UNCHANGED vars
    BY <1>16 DEF vars, TokenInv
<1> QED
    BY <1>1, <1>2, <1>3, <1>4, <1>5, <1>6, <1>7, <1>8, <1>9, <1>10, <1>11, <1>12, <1>13,
       <1>14, <1>15, <1>16 DEF Next

\* TokenInv holds throughout.
LEMMA TokenInvariant == Spec => []TokenInv
<1>1. Init => TokenInv
    BY DEF Init, TokenInv, FirstBoot, AfterBootstrap, Users
<1> QED
    BY <1>1, TokenInductive, TypeCorrect, PTL DEF Spec

\* The bootstrap identity never holds a second token, for any interleaving of crashed
\* first boots, changes of the setting and calls of the token routes.
THEOREM OneBootstrapToken == Spec => []BootstrapTokenUnique
<1>1. TokenInv => BootstrapTokenUnique
    BY DEF TokenInv, BootstrapTokenUnique
<1> QED
    BY <1>1, TokenInvariant, PTL

\* A daemon that runs with the bootstrap admin disabled leaves it without a token.
THEOREM RetiredHoldsNoToken == Spec => []RetiredBootstrapSilent
<1>1. TypeOK /\ TokenInv => RetiredBootstrapSilent
    BY DEF TypeOK, Settings, TokenInv, RetiredBootstrapSilent, AfterBootstrap
<1> QED
    BY <1>1, TokenInvariant, TypeCorrect, PTL

\* Both together: one token at most, and none once retired (auth/bootstrap.py).
THEOREM BootstrapTokensSound == Spec => []BootstrapTokens
    BY OneBootstrapToken, RetiredHoldsNoToken, PTL DEF BootstrapTokens

-----------------------------------------------------------------------------
(* What a boot may not do                                                  *)

\* No boot and no call brings a deleted user back: both provisioning steps that create
\* a user found no row of that name, a tombstone included.
THEOREM TombstonesFinal == Spec => TombstoneFinal
<1>1. ASSUME TypeOK, Next PROVE KeepsTombstones
  <2> USE DEF KeepsTombstones
  <2>0. "bootstrap" \in Users /\ "configured" \in Users /\ "bootstrap" # "configured"
      BY DEF Users
  <2>1. CASE users' = users
      BY <2>1
  <2>2. CASE BootstrapUser
      BY <2>2, <2>0 DEF BootstrapUser, Existing, TypeOK
  <2>3. CASE ConfiguredUser
    <3>1. "configured" \notin Existing
        BY <2>3, <2>0 DEF ConfiguredUser, NonBootstrapUsers
    <3> QED
        BY <2>3, <2>0, <3>1 DEF ConfiguredUser, Existing, TypeOK
  <2>4. ASSUME NEW u \in Others, CreateUser(u) PROVE KeepsTombstones
      BY <2>4 DEF CreateUser, TypeOK, Users
  <2>5. ASSUME NEW u \in Users, DeleteUser(u) PROVE KeepsTombstones
      BY <2>5 DEF DeleteUser, TypeOK
  <2> QED
      BY <1>1, <2>1, <2>2, <2>3, <2>4, <2>5
         DEF Next, StartBoot, Upsert, Retire, UpsertDone, RetireDone, SeedRole, SeedDone,
             GrantRow, RevokeRow, RoleReconciled, ReconcileDone, BootstrapUntouched,
             BootstrapRevoked, BootstrapRegenerated, BootstrapIdentity, BootstrapAssign,
             BootstrapToken, ConfiguredIgnored, ConfiguredAssign, ConfiguredToken,
             AssignAdmin, IssueToken, ReplaceGrants, Down, identityVars
<1>2. TypeOK /\ [Next]_vars => [KeepsTombstones]_vars
    BY <1>1
<1> QED
    BY <1>2, TypeCorrect, PTL DEF Spec, TombstoneFinal

\* Every step of a boot leaves the grants of custom roles as they are, but for those
\* on a resource it retires.
THEOREM BootKeepsCustomGrants == Spec => CustomGrantsKept
<1>1. ASSUME TypeOK, Next, pc # "up" PROVE KeepsCustomGrants
  <2>1. CASE perms' = perms /\ resources' = resources
      BY <2>1 DEF KeepsCustomGrants, StillCatalogued
  <2>2. ASSUME NEW r \in Resources, Upsert(r) PROVE KeepsCustomGrants
      BY <2>2 DEF Upsert, KeepsCustomGrants, StillCatalogued, TypeOK, Catalog
  <2>3. ASSUME NEW r \in Resources, Retire(r) PROVE KeepsCustomGrants
    <3>1. /\ resources[r] # {} /\ resources'[r] = {}
          /\ \A s \in Resources \ {r} : resources'[s] = resources[s]
        BY <2>3, <1>1 DEF Retire, TypeOK, Catalog
    <3>2. perms' = {row \in perms : row.resource # r}
        BY <2>3 DEF Retire
    <3>3. ASSUME NEW row \in Row
          PROVE  row \in perms' <=> row \in perms /\ StillCatalogued(row.resource)
      <4>1. CASE row.resource = r
          BY <3>1, <3>2, <4>1 DEF StillCatalogued
      <4>2. CASE row.resource # r
        <5>1. row.resource \in Resources \ {r}
            BY <4>2 DEF Row
        <5>2. resources'[row.resource] = resources[row.resource]
            BY <3>1, <5>1
        <5> QED
            BY <3>2, <4>2, <5>2 DEF StillCatalogued
      <4> QED
          BY <4>1, <4>2
    <3> QED
        BY <3>3 DEF KeepsCustomGrants
  <2>4. ASSUME NEW slug \in Builtin, NEW row \in Row, row.role = slug,
               resources' = resources,
               perms' = perms \cup {row} \/ perms' = perms \ {row}
        PROVE  KeepsCustomGrants
    <3>1. row.role \notin CustomRoles
        BY <2>4, BootAssumption
    <3> QED
        BY <2>4, <3>1 DEF KeepsCustomGrants, StillCatalogued
  <2>5. CASE GrantRow
    <3>1. at \in 1 .. 4 /\ resources' = resources
        BY <1>1, <2>5, RolesListed DEF GrantRow, TypeOK
    <3>2. BUILTIN_ROLES[at] \in Builtin
        BY <3>1, RolesListed
    <3>3. PICK row \in Desired(BUILTIN_ROLES[at], resources) \ perms :
                  perms' = perms \cup {row}
        BY <2>5 DEF GrantRow
    <3>4. row \in Row /\ row.role = BUILTIN_ROLES[at]
        BY <3>3 DEF Desired
    <3> QED
        BY <2>4, <3>1, <3>2, <3>3, <3>4
  <2>6. CASE RevokeRow
    <3>1. at \in 1 .. 4 /\ resources' = resources
        BY <1>1, <2>6, RolesListed DEF RevokeRow, TypeOK
    <3>2. BUILTIN_ROLES[at] \in Builtin
        BY <3>1, RolesListed
    <3>3. PICK row \in RowsOf(BUILTIN_ROLES[at])
                       \ Desired(BUILTIN_ROLES[at], resources) :
                  perms' = perms \ {row}
        BY <2>6 DEF RevokeRow
    <3>4. row \in Row /\ row.role = BUILTIN_ROLES[at]
        BY <1>1, <3>3 DEF RowsOf, TypeOK
    <3> QED
        BY <2>4, <3>1, <3>2, <3>3, <3>4
  <2> QED
      BY <1>1, <2>1, <2>2, <2>3, <2>5, <2>6
         DEF Next, StartBoot, UpsertDone, RetireDone, SeedRole, SeedDone,
             RoleReconciled, ReconcileDone, BootstrapUntouched,
             BootstrapRevoked, BootstrapRegenerated, BootstrapUser, BootstrapIdentity,
             BootstrapAssign, BootstrapToken, ConfiguredIgnored, ConfiguredUser,
             ConfiguredAssign, ConfiguredToken, CreateUser, AssignAdmin, IssueToken,
             DeleteUser, ReplaceGrants, Callable, Down, catalogVars
<1>2. TypeOK /\ [Next]_vars => [pc # "up" => KeepsCustomGrants]_vars
    BY <1>1
<1> QED
    BY <1>2, TypeCorrect, PTL DEF Spec, CustomGrantsKept

=============================================================================
