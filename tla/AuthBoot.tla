------------------------------ MODULE AuthBoot ------------------------------
(***************************************************************************)
(* What a boot of the daemon does to the identity tables: it catalogues    *)
(* the resources the routes of this build declare, reconciles the grants   *)
(* of the builtin roles against that catalog and provisions the bootstrap  *)
(* admin and the configured admin.  Every repository call commits a        *)
(* transaction of its own, so a crash may fall between any two of them and *)
(* the next boot, possibly of another build or with another configuration, *)
(* starts from what was committed.                                         *)
(*                                                                         *)
(* While the daemon is up the management API creates users and custom      *)
(* roles and deletes users; each such call is one step here.               *)
(***************************************************************************)
EXTENDS Naturals, Sequences, FiniteSets

CONSTANTS Resources,        \* the resource names any build declares
          AuthResources,    \* those named "auth...."
          SelfResources,    \* those named "me...."
          Builds,           \* the catalogs of the builds that may be started
          CustomRoles,      \* roles defined by an administrator
          Others,           \* users created over the API
          MaxBoots          \* bound: how often the daemon is started

Verb == {"GET", "POST", "PUT", "PATCH", "DELETE"}

\* A catalog gives the verbs the routes of a resource serve; a resource that is
\* not catalogued serves none.
Catalog == [Resources -> SUBSET Verb]

BUILTIN_ROLES == <<"read", "write", "maintain", "admin">>

Builtin == {BUILTIN_ROLES[i] : i \in DOMAIN BUILTIN_ROLES}

Users == {"bootstrap", "configured"} \cup Others

ASSUME BootAssumption ==
    /\ Builds \subseteq Catalog
    /\ AuthResources \subseteq Resources
    /\ SelfResources \subseteq Resources
    /\ CustomRoles \cap Builtin = {}
    /\ Others \cap {"bootstrap", "configured"} = {}
    /\ MaxBoots \in Nat

\* The settings a boot is started with: security.enabled,
\* security.bootstrap_admin_enabled, and whether ADMIN_USERNAME and API_TOKEN
\* are set.
Settings == [security : BOOLEAN, bootstrap : BOOLEAN, configured : BOOLEAN]

VARIABLES pc,         \* where the boot is; "up" and "down" are the daemon itself
          at,         \* the builtin role whose grants are being reconciled
          build,      \* the catalog this build's routes declare
          conf,       \* the settings of this boot
          resources,  \* table resources: the verbs column by name
          roles,      \* table roles: the rows by slug
          perms,      \* table role_permissions
          users,      \* table users: "none", "active" or "deleted" (tombstone)
          identity,   \* whether the local-bootstrap identity row exists
          admins,     \* users with the admin role assigned
          tokens,     \* api_token credentials of each user
          boots       \* starts so far

catalogVars == <<resources, roles, perms>>

identityVars == <<users, identity, admins, tokens>>

startVars == <<build, conf, boots>>

vars == <<pc, at, build, conf, resources, roles, perms,
          users, identity, admins, tokens, boots>>

Places == {"down", "upsert", "retire", "seed", "reconcile", "bootstrap",
           "bootstrap_identity", "bootstrap_assign", "bootstrap_token",
           "configured", "configured_assign", "configured_token", "up"}

Row == [role : Builtin \cup CustomRoles, resource : Resources, verb : Verb]

Init ==
    /\ pc = "down"
    /\ at = 1
    /\ build \in Builds
    /\ conf = [security |-> TRUE, bootstrap |-> TRUE, configured |-> FALSE]
    /\ resources = [r \in Resources |-> {}]
    /\ roles = {}
    /\ perms = {}
    /\ users = [u \in Users |-> "none"]
    /\ identity = FALSE
    /\ admins = {}
    /\ tokens = [u \in Users |-> 0]
    /\ boots = 0

-----------------------------------------------------------------------------
(* The policy                                                              *)

permitted_verbs(slug, resource) ==
    IF resource \in SelfResources THEN Verb
    ELSE IF resource \in AuthResources /\ slug \notin {"maintain", "admin"} THEN {}
    ELSE IF slug = "read" THEN {"GET"}
    ELSE IF slug = "write" THEN Verb \ {"DELETE"}
    ELSE Verb

\* The rows reconcile_builtin_roles() wants for one role.
Desired(slug, catalog) ==
    {row \in Row : /\ row.role = slug
                   /\ row.verb \in permitted_verbs(slug, row.resource)
                   /\ row.verb \in catalog[row.resource]}

RowsOf(role) == {row \in perms : row.role = role}

\* assert_grants_grantable(): catalogued, not a me.* resource, a served verb.
Grantable(role) ==
    {row \in Row : /\ row.role = role
                   /\ row.resource \notin SelfResources
                   /\ row.verb \in resources[row.resource]}

-----------------------------------------------------------------------------
(* Boot: sync_resources and reconcile_builtin_roles                        *)

StartBoot(b, c) ==
    /\ pc = "down"
    /\ boots < MaxBoots
    /\ boots' = boots + 1
    /\ pc' = "upsert"
    /\ build' = b
    /\ conf' = c
    /\ UNCHANGED <<at, catalogVars, identityVars>>

Upsert(r) ==
    /\ pc = "upsert"
    /\ resources[r] # build[r]
    /\ build[r] # {}
    /\ resources' = [resources EXCEPT ![r] = build[r]]
    /\ UNCHANGED <<pc, at, startVars, roles, perms, identityVars>>

UpsertDone ==
    /\ pc = "upsert"
    /\ \A r \in Resources : build[r] # {} => resources[r] = build[r]
    /\ pc' = "retire"
    /\ UNCHANGED <<at, startVars, catalogVars, identityVars>>

\* Deleting a resource cascades to the grants on it, of every role.
Retire(r) ==
    /\ pc = "retire"
    /\ build[r] = {}
    /\ resources[r] # {}
    /\ resources' = [resources EXCEPT ![r] = {}]
    /\ perms' = {row \in perms : row.resource # r}
    /\ UNCHANGED <<pc, at, startVars, roles, identityVars>>

RetireDone ==
    /\ pc = "retire"
    /\ \A r \in Resources : build[r] = {} => resources[r] = {}
    /\ pc' = "seed"
    /\ at' = 1
    /\ UNCHANGED <<startVars, catalogVars, identityVars>>

\* ensure_builtin(): the roles are seeded in order, each once.
SeedRole ==
    /\ pc = "seed"
    /\ at <= Len(BUILTIN_ROLES)
    /\ roles' = roles \cup {BUILTIN_ROLES[at]}
    /\ at' = at + 1
    /\ UNCHANGED <<pc, startVars, resources, perms, identityVars>>

SeedDone ==
    /\ pc = "seed"
    /\ at > Len(BUILTIN_ROLES)
    /\ pc' = "reconcile"
    /\ at' = 1
    /\ UNCHANGED <<startVars, catalogVars, identityVars>>

\* The rows missing from a role are inserted before its surplus rows are deleted.
GrantRow ==
    /\ pc = "reconcile"
    /\ at <= Len(BUILTIN_ROLES)
    /\ \E row \in Desired(BUILTIN_ROLES[at], resources) \ perms :
           perms' = perms \cup {row}
    /\ UNCHANGED <<pc, at, startVars, resources, roles, identityVars>>

\* Mutant: the diff is taken against the rows of every role.
RevokeRowMutant ==
    /\ pc = "reconcile"
    /\ at <= Len(BUILTIN_ROLES)
    /\ Desired(BUILTIN_ROLES[at], resources) \subseteq perms
    /\ \E row \in {p \in perms : p.role \notin Builtin \ {BUILTIN_ROLES[at]}}
                  \ Desired(BUILTIN_ROLES[at], resources) :
           perms' = perms \ {row}
    /\ UNCHANGED <<pc, at, startVars, resources, roles, identityVars>>

RevokeRow ==
    /\ pc = "reconcile"
    /\ at <= Len(BUILTIN_ROLES)
    /\ Desired(BUILTIN_ROLES[at], resources) \subseteq perms
    /\ \E row \in RowsOf(BUILTIN_ROLES[at]) \ Desired(BUILTIN_ROLES[at], resources) :
           perms' = perms \ {row}
    /\ UNCHANGED <<pc, at, startVars, resources, roles, identityVars>>

\* Mutant: the surplus rows of a role are left in place.
RoleReconciledMutant ==
    /\ pc = "reconcile"
    /\ at <= Len(BUILTIN_ROLES)
    /\ Desired(BUILTIN_ROLES[at], resources) \subseteq perms
    /\ at' = at + 1
    /\ UNCHANGED <<pc, startVars, catalogVars, identityVars>>

RoleReconciled ==
    /\ pc = "reconcile"
    /\ at <= Len(BUILTIN_ROLES)
    /\ RowsOf(BUILTIN_ROLES[at]) = Desired(BUILTIN_ROLES[at], resources)
    /\ at' = at + 1
    /\ UNCHANGED <<pc, startVars, catalogVars, identityVars>>

ReconcileDone ==
    /\ pc = "reconcile"
    /\ at > Len(BUILTIN_ROLES)
    /\ pc' = "bootstrap"
    /\ at' = 1
    /\ UNCHANGED <<startVars, catalogVars, identityVars>>

-----------------------------------------------------------------------------
(* Boot: ensure_bootstrap_admin                                            *)

Existing == {u \in Users : users[u] # "none"}

\* Security off, nothing to revoke, a live credential, or a user who is already
\* there: nothing is written.
BootstrapUntouched ==
    /\ pc = "bootstrap"
    /\ \/ ~conf.security
       \/ conf.security /\ ~conf.bootstrap /\ ~identity
       \/ conf.security /\ conf.bootstrap /\ identity /\ tokens["bootstrap"] > 0
       \/ conf.security /\ conf.bootstrap /\ ~identity /\ Existing # {}
    /\ pc' = "configured"
    /\ UNCHANGED <<at, startVars, catalogVars, identityVars>>

BootstrapRevoked ==
    /\ pc = "bootstrap"
    /\ conf.security /\ ~conf.bootstrap /\ identity
    /\ tokens' = [tokens EXCEPT !["bootstrap"] = 0]
    /\ pc' = "configured"
    /\ UNCHANGED <<at, startVars, catalogVars, users, identity, admins>>

\* Mutant: a live credential is rotated by adding another.
BootstrapRegeneratedMutant ==
    /\ pc = "bootstrap"
    /\ conf.security /\ conf.bootstrap /\ identity
    /\ tokens' = [tokens EXCEPT !["bootstrap"] = @ + 1]
    /\ pc' = "configured"
    /\ UNCHANGED <<at, startVars, catalogVars, users, identity, admins>>

BootstrapRegenerated ==
    /\ pc = "bootstrap"
    /\ conf.security /\ conf.bootstrap /\ identity
    /\ tokens["bootstrap"] = 0
    /\ tokens' = [tokens EXCEPT !["bootstrap"] = @ + 1]
    /\ pc' = "configured"
    /\ UNCHANGED <<at, startVars, catalogVars, users, identity, admins>>

\* The genuine first boot: four transactions, one after the other.
BootstrapUser ==
    /\ pc = "bootstrap"
    /\ conf.security /\ conf.bootstrap /\ ~identity
    /\ Existing = {}
    /\ users' = [users EXCEPT !["bootstrap"] = "active"]
    /\ pc' = "bootstrap_identity"
    /\ UNCHANGED <<at, startVars, catalogVars, identity, admins, tokens>>

BootstrapIdentity ==
    /\ pc = "bootstrap_identity"
    /\ identity' = TRUE
    /\ pc' = "bootstrap_assign"
    /\ UNCHANGED <<at, startVars, catalogVars, users, admins, tokens>>

BootstrapAssign ==
    /\ pc = "bootstrap_assign"
    /\ admins' = admins \cup {"bootstrap"}
    /\ pc' = "bootstrap_token"
    /\ UNCHANGED <<at, startVars, catalogVars, users, identity, tokens>>

BootstrapToken ==
    /\ pc = "bootstrap_token"
    /\ tokens' = [tokens EXCEPT !["bootstrap"] = @ + 1]
    /\ pc' = "configured"
    /\ UNCHANGED <<at, startVars, catalogVars, users, identity, admins>>

-----------------------------------------------------------------------------
(* Boot: ensure_configured_admin                                           *)

\* Every user but the one the bootstrap identity names; tombstones count.
NonBootstrapUsers == Existing \ (IF identity THEN {"bootstrap"} ELSE {})

ConfiguredIgnored ==
    /\ pc = "configured"
    /\ \/ ~conf.security
       \/ ~conf.configured
       \/ NonBootstrapUsers # {}
    /\ pc' = "up"
    /\ UNCHANGED <<at, startVars, catalogVars, identityVars>>

ConfiguredUser ==
    /\ pc = "configured"
    /\ conf.security /\ conf.configured
    /\ NonBootstrapUsers = {}
    /\ users' = [users EXCEPT !["configured"] = "active"]
    /\ pc' = "configured_assign"
    /\ UNCHANGED <<at, startVars, catalogVars, identity, admins, tokens>>

ConfiguredAssign ==
    /\ pc = "configured_assign"
    /\ admins' = admins \cup {"configured"}
    /\ pc' = "configured_token"
    /\ UNCHANGED <<at, startVars, catalogVars, users, identity, tokens>>

ConfiguredToken ==
    /\ pc = "configured_token"
    /\ tokens' = [tokens EXCEPT !["configured"] = @ + 1]
    /\ pc' = "up"
    /\ UNCHANGED <<at, startVars, catalogVars, users, identity, admins>>

-----------------------------------------------------------------------------
(* The daemon is up: the management API, one call per step                 *)

\* A principal resolve_principal() gives the admin role.  Which credential it
\* presents, a token or a password session, is not told apart.
Administrator(u) == users[u] = "active" /\ u \in admins

\* With security off every route answers without a caller.
Callable == pc = "up" /\ (~conf.security \/ \E u \in Users : Administrator(u))

CreateUser(u) ==
    /\ Callable
    /\ users[u] = "none"
    /\ users' = [users EXCEPT ![u] = "active"]
    /\ UNCHANGED <<pc, at, startVars, catalogVars, identity, admins, tokens>>

AssignAdmin(u) ==
    /\ Callable
    /\ users[u] # "none"
    /\ admins' = admins \cup {u}
    /\ UNCHANGED <<pc, at, startVars, catalogVars, users, identity, tokens>>

\* POST /auth/users/{id}/tokens: never for the bootstrap identity, and only the
\* first token of a user.
IssueToken(u) ==
    /\ Callable
    /\ users[u] = "active"
    /\ ~(identity /\ u = "bootstrap")
    /\ tokens[u] = 0
    /\ tokens' = [tokens EXCEPT ![u] = 1]
    /\ UNCHANGED <<pc, at, startVars, catalogVars, users, identity, admins>>

\* DELETE /auth/users/{id}: refused for the last administrator; the tombstone
\* takes the credentials and the roles with it and leaves the identity row.
DeleteUser(u) ==
    /\ Callable
    /\ users[u] = "active"
    /\ \E v \in Users \ {u} : Administrator(v)
    /\ users' = [users EXCEPT ![u] = "deleted"]
    /\ admins' = admins \ {u}
    /\ tokens' = [tokens EXCEPT ![u] = 0]
    /\ UNCHANGED <<pc, at, startVars, catalogVars, identity>>

\* POST and PATCH /auth/roles: the whole grant set of a custom role is replaced.
ReplaceGrants(role, rows) ==
    /\ Callable
    /\ rows \subseteq Grantable(role)
    /\ perms' = (perms \ RowsOf(role)) \cup rows
    /\ UNCHANGED <<pc, at, startVars, resources, roles, identityVars>>

\* A crash at any point of the boot, or the end of a daemon that was up.
Down ==
    /\ pc # "down"
    /\ pc' = "down"
    /\ at' = 1
    /\ UNCHANGED <<startVars, catalogVars, identityVars>>

Next ==
    \/ \E b \in Builds, c \in Settings : StartBoot(b, c)
    \/ \E r \in Resources : Upsert(r) \/ Retire(r)
    \/ UpsertDone \/ RetireDone
    \/ SeedRole \/ SeedDone
    \/ GrantRow \/ RevokeRow \/ RoleReconciled \/ ReconcileDone
    \/ BootstrapUntouched \/ BootstrapRevoked \/ BootstrapRegenerated
    \/ BootstrapUser \/ BootstrapIdentity \/ BootstrapAssign \/ BootstrapToken
    \/ ConfiguredIgnored \/ ConfiguredUser \/ ConfiguredAssign \/ ConfiguredToken
    \/ \E u \in Others : CreateUser(u)
    \/ \E u \in Users : AssignAdmin(u) \/ IssueToken(u) \/ DeleteUser(u)
    \/ \E role \in CustomRoles : \E rows \in SUBSET Grantable(role) :
           ReplaceGrants(role, rows)
    \/ Down

Spec == Init /\ [][Next]_vars

-----------------------------------------------------------------------------
(* Properties                                                              *)

TypeOK ==
    /\ pc \in Places
    /\ at \in 1 .. (Len(BUILTIN_ROLES) + 1)
    /\ build \in Catalog
    /\ conf \in Settings
    /\ resources \in Catalog
    /\ roles \subseteq Builtin
    /\ perms \subseteq Row
    /\ users \in [Users -> {"none", "active", "deleted"}]
    /\ identity \in BOOLEAN
    /\ admins \subseteq Users
    /\ tokens \in [Users -> Nat]
    /\ boots \in Nat

Provisioning == {"bootstrap", "bootstrap_identity", "bootstrap_assign",
                 "bootstrap_token", "configured", "configured_assign",
                 "configured_token", "up"}

\* Once a boot has reconciled, the catalog is the one this build declares and each
\* builtin role holds exactly the verbs the policy permits and a route serves,
\* whatever an earlier build left behind and wherever an earlier boot crashed
\* (auth/reconciler.py, sync_resources and reconcile_builtin_roles).
GrantsMatchPolicy ==
    pc \in Provisioning =>
        /\ resources = build
        /\ roles = Builtin
        /\ \A s \in Builtin : RowsOf(s) = Desired(s, build)

StillCatalogued(r) == resources[r] # {} => resources'[r] # {}

\* The grants of the custom roles after a step are those before it, without the ones
\* on a resource the step retires.
KeepsCustomGrants ==
    \A role \in CustomRoles, row \in Row :
        row.role = role =>
            (row \in perms' <=> row \in perms /\ StillCatalogued(row.resource))

\* A boot neither takes a grant from a custom role nor gives it one: only the
\* retirement of a resource does, and then of every grant on it
\* (reconcile_builtin_roles is scoped to builtin roles).
CustomGrantsKept == [][pc # "up" => KeepsCustomGrants]_vars

\* The bootstrap identity never holds two api tokens, however often first boots
\* crash, the setting is turned off and on, and the API mints tokens
\* (auth/bootstrap.py, auth/management.py assert_not_bootstrap_identity).
BootstrapTokenUnique == tokens["bootstrap"] <= 1

\* While the daemon runs with bootstrap_admin_enabled = false, the bootstrap identity
\* holds no api token: the boot revoked it and no route mints another
\* (auth/bootstrap.py, "so it stops authenticating").
RetiredBootstrapSilent ==
    (pc = "up" /\ conf.security /\ ~conf.bootstrap /\ identity)
        => tokens["bootstrap"] = 0

\* The break-glass identity of a deployment: one token at most, and none once retired.
BootstrapTokens == BootstrapTokenUnique /\ RetiredBootstrapSilent

KeepsTombstones == \A u \in Users : users[u] = "deleted" => users'[u] = "deleted"

\* A tombstone is one-way: no later boot brings a deleted user back, the configured
\* admin included, although its environment variables are still set
\* (ensure_configured_admin counts tombstoned rows as users).
TombstoneFinal == [][KeepsTombstones]_vars

=============================================================================
