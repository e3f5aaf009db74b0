-------------------------------- MODULE Rbac --------------------------------
(***************************************************************************)
(* The management API over the identity tables, with concurrent calls.     *)
(*                                                                         *)
(* A call is served in steps, each on its own transaction or read: the     *)
(* bearer token is resolved to a principal, the principal is authorized,   *)
(* the handler checks its guards, and only then it writes.  Other calls    *)
(* may commit between any two of these steps.  Next to them a login over   *)
(* an identity provider reconciles the roles it maps, one row at a time.   *)
(*                                                                         *)
(* A user, group, role or mapping of the model is a row id: what is        *)
(* deleted is not created again.                                           *)
(***************************************************************************)
EXTENDS Naturals, FiniteSets

CONSTANTS Workers,      \* calls being served at the same time
          Users, Groups, CustomRoles,
          Claims,       \* claim values of the identity provider
          MaxCalls,     \* bound: calls served in all
          MaxSyncs      \* bound: logins over the provider

BuiltinRoles == {"admin", "maintain", "read"}

Roles == BuiltinRoles \cup CustomRoles

\* Two permissions tell the rules apart: one on an auth.* resource, one on another.
Perm == {"auth", "plain"}

Subjects == Users \cup Groups

\* role_assignments is unique on subject and role; source says who made the row.
Row == [subject : Subjects, role : Roles, source : {"local", "idp"}]

Mapping == [claim : Claims, role : Roles]

Lifetime == {"none", "live", "gone"}

ASSUME RbacAssumption ==
    /\ BuiltinRoles \cap CustomRoles = {}
    /\ Users \cap Groups = {}
    /\ MaxCalls \in Nat /\ MaxSyncs \in Nat

VARIABLES users,      \* "none", "active", "inactive" or "deleted" (tombstone)
          groups,     \* table groups
          members,    \* table user_groups
          roles,      \* table roles, the custom rows
          grants,     \* table role_permissions of the custom roles
          rows,       \* table role_assignments
          mappings,   \* table role_mappings
          creds,      \* the kinds of credential each user holds
          req,        \* the call each worker serves
          sync,       \* the login whose mapped roles are being reconciled
          calls, syncs

tables == <<users, groups, members, roles, grants, rows, mappings, creds>>

vars == <<users, groups, members, roles, grants, rows, mappings, creds,
          req, sync, calls, syncs>>

UserCall ==
    [name : {"delete_user", "deactivate", "activate", "set_password",
             "issue_token", "revoke_token"}, user : Users]
    \cup [name : {"create_user"}, user : Users, password : BOOLEAN]

AssignmentCall == [name : {"assign", "unassign"}, subject : Subjects, role : Roles]

GroupCall ==
    [name : {"create_group", "delete_group"}, group : Groups]
    \cup [name : {"add_member", "remove_member"}, group : Groups, user : Users]

RoleCall ==
    [name : {"create_role"}, role : CustomRoles, perms : SUBSET Perm]
    \cup [name : {"update_role"}, role : Roles, perms : SUBSET Perm]
    \cup [name : {"delete_role"}, role : Roles]

MappingCall == [name : {"create_mapping", "delete_mapping"}, map : Mapping]

Call == UserCall \cup AssignmentCall \cup GroupCall \cup RoleCall \cup MappingCall

Idle == [pc |-> "idle"]

NoSync == [pc |-> "idle"]

-----------------------------------------------------------------------------
(* Queries                                                                 *)

RolesOf(u) ==
    {row.role : row \in {x \in rows : \/ x.subject = u
                                      \/ <<u, x.subject>> \in members}}

\* Active, not deleted, and holding the role directly or through a group.
Admins == {u \in Users : users[u] = "active" /\ "admin" \in RolesOf(u)}

MembersOf(g) == {u \in Users : <<u, g>> \in members}

Carries(g, role) == \E row \in rows : row.subject = g /\ row.role = role

Exists(role) == role \in BuiltinRoles \cup {r \in CustomRoles : roles[r] = "live"}

GrantsOf(role) ==
    IF role \in CustomRoles THEN grants[role]
    ELSE IF role = "read" THEN {"plain"} ELSE Perm

\* The principal is the set of role ids its user held when the token was resolved;
\* what they grant is read when it is needed.
GrantsOfAll(principal) == UNION {GrantsOf(role) : role \in principal}

SubjectExists(s) ==
    s \in {u \in Users : users[u] # "none"} \cup {g \in Groups : groups[g] = "live"}

Live(u) == users[u] \in {"active", "inactive"}

-----------------------------------------------------------------------------
(* Guards of auth/management.py                                            *)

AdminRemains(losing) == Admins \ losing # {}

MayGrant(principal, perms) ==
    /\ "auth" \in perms => "admin" \in principal
    /\ perms \subseteq GrantsOfAll(principal)

MayAssign(principal, role) ==
    /\ role = "admin" => "admin" \in principal
    /\ MayGrant(principal, GrantsOf(role))

\* Whose admin access the call may end; the guard refuses when nobody else has any.
Losing(c) ==
    IF c.name = "unassign" /\ c.subject \in Groups THEN MembersOf(c.subject)
    ELSE IF c.name = "unassign" THEN {c.subject}
    ELSE IF c.name = "delete_group" THEN MembersOf(c.group)
    ELSE {c.user}

\* Mutant: a member leaves an administrators' group unguarded.
GuardsAdminMutant(c) ==
    \/ c.name \in {"delete_user", "deactivate"}
    \/ c.name = "unassign" /\ c.role = "admin"
    \/ c.name = "delete_group" /\ Carries(c.group, "admin")

GuardsAdmin(c) ==
    \/ c.name \in {"delete_user", "deactivate"}
    \/ c.name = "unassign" /\ c.role = "admin"
    \/ c.name \in {"delete_group", "remove_member"} /\ Carries(c.group, "admin")

UserPasses(c) ==
    c \in UserCall /\ c.name # "create_user" =>
        Live(c.user) /\ (c.name = "issue_token" => "api_token" \notin creds[c.user])

\* A tombstoned user still exists as a subject, and as a member.
AssignmentPasses(principal, c) ==
    c \in AssignmentCall =>
        /\ Exists(c.role)
        /\ c.name = "assign" => MayAssign(principal, c.role) /\ SubjectExists(c.subject)

GroupPasses(c) ==
    c \in GroupCall /\ c.name # "create_group" => groups[c.group] = "live"

\* Mutant: the role's assignments are left to ON DELETE CASCADE.
RolePassesMutant(principal, c) ==
    c \in RoleCall =>
        /\ c.name \in {"update_role", "delete_role"} => Exists(c.role) /\ c.role \in CustomRoles
        /\ c.name \in {"create_role", "update_role"} => MayGrant(principal, c.perms)

\* A builtin role is never edited or deleted, a role in use not deleted.
RolePasses(principal, c) ==
    c \in RoleCall =>
        /\ c.name \in {"update_role", "delete_role"} => Exists(c.role) /\ c.role \in CustomRoles
        /\ c.name \in {"create_role", "update_role"} => MayGrant(principal, c.perms)
        /\ c.name = "delete_role" => \A row \in rows : row.role # c.role

MappingPasses(principal, c) ==
    c \in MappingCall =>
        /\ c.name = "create_mapping" => Exists(c.map.role) /\ MayAssign(principal, c.map.role)
        /\ c.name = "delete_mapping" => mappings[c.map] = "live"

\* What a handler and its repository check before the transaction that writes.
Passes(principal, c) ==
    /\ UserPasses(c) /\ AssignmentPasses(principal, c) /\ GroupPasses(c)
    /\ RolePasses(principal, c) /\ MappingPasses(principal, c)
    /\ GuardsAdmin(c) => AdminRemains(Losing(c))

-----------------------------------------------------------------------------
(* The steps of a call up to its write                                     *)

\* resolve_principal(): the roles are read once, here.
Authenticate(w, u, sudo) ==
    /\ req[w] = Idle
    /\ calls < MaxCalls
    /\ users[u] = "active"
    /\ req' = [req EXCEPT ![w] = [pc |-> "authenticated", principal |-> RolesOf(u),
                                  sudo |-> sudo]]
    /\ calls' = calls + 1
    /\ UNCHANGED <<tables, sync, syncs>>

\* authorize(): the routes are sensitive, so whoever is no admin needs a sudo grant.
Authorized(r) ==
    /\ "auth" \in GrantsOfAll(r.principal)
    /\ "admin" \in r.principal \/ r.sudo

Authorize(w, c) ==
    /\ req[w].pc = "authenticated"
    /\ Authorized(req[w])
    /\ req' = [req EXCEPT ![w] = [pc |-> "authorized", principal |-> @.principal, call |-> c]]
    /\ UNCHANGED <<tables, sync, calls, syncs>>

\* fresh is history: no other write committed since the guards were read.
Check(w) ==
    /\ req[w].pc = "authorized"
    /\ Passes(req[w].principal, req[w].call)
    /\ req' = [req EXCEPT ![w] = [pc |-> "checked", call |-> @.call, fresh |-> TRUE]]
    /\ UNCHANGED <<tables, sync, calls, syncs>>

Refuse(w) ==
    /\ \/ req[w].pc = "authenticated" /\ ~Authorized(req[w])
       \/ req[w].pc = "authorized" /\ ~Passes(req[w].principal, req[w].call)
    /\ req' = [req EXCEPT ![w] = Idle]
    /\ UNCHANGED <<tables, sync, calls, syncs>>

Stale(r) == IF r.pc \in {"checked", "password", "assign", "revoke"}
            THEN [r EXCEPT !.fresh = FALSE] ELSE r

\* The write of worker w commits; what the others have read is now old.
Commits(w, name) ==
    /\ req[w].pc = "checked"
    /\ req[w].call.name = name
    /\ req' = [v \in Workers |-> IF v = w THEN Idle ELSE Stale(req[v])]
    /\ sync' = Stale(sync)
    /\ UNCHANGED <<calls, syncs>>

-----------------------------------------------------------------------------
(* The writes: api/routes/users.py                                         *)

CreateUser(w) ==
    LET c == req[w].call IN
    /\ req[w].pc = "checked"
    /\ c.name = "create_user"
    /\ users[c.user] = "none"
    /\ users' = [users EXCEPT ![c.user] = "active"]
    /\ req' = [v \in Workers |-> IF v # w THEN Stale(req[v])
                                 ELSE IF c.password
                                 THEN [pc |-> "password", call |-> c, fresh |-> TRUE]
                                 ELSE Idle]
    /\ sync' = Stale(sync)
    /\ UNCHANGED <<groups, members, roles, grants, rows, mappings, creds, calls, syncs>>

\* DuplicateError, where the unique index refuses a user, group, role or mapping that
\* exists, and a foreign key that refuses a row whose parent does not.
ConstraintFails(w) ==
    LET c == req[w].call IN
    /\ req[w].pc = "checked"
    /\ \/ c.name = "create_user" /\ users[c.user] # "none"
       \/ c.name = "create_group" /\ groups[c.group] # "none"
       \/ c.name = "create_role" /\ roles[c.role] # "none"
       \/ c.name = "create_mapping" /\ (mappings[c.map] # "none" \/ ~Exists(c.map.role))
       \/ c.name = "add_member" /\ (users[c.user] = "none" \/ groups[c.group] # "live")
       \/ c.name = "update_role" /\ ~Exists(c.role)
    /\ req' = [req EXCEPT ![w] = Idle]
    /\ UNCHANGED <<tables, sync, calls, syncs>>

\* The password of a user just created, in a transaction of its own.
FirstPassword(w) ==
    /\ req[w].pc = "password"
    /\ creds' = [creds EXCEPT ![req[w].call.user] = @ \cup {"password"}]
    /\ req' = [v \in Workers |-> IF v = w THEN Idle ELSE Stale(req[v])]
    /\ sync' = Stale(sync)
    /\ UNCHANGED <<users, groups, members, roles, grants, rows, mappings, calls, syncs>>

SetCredential(w) ==
    LET c == req[w].call IN
    /\ \/ Commits(w, "set_password") /\ creds' = [creds EXCEPT ![c.user] = @ \cup {"password"}]
       \/ Commits(w, "issue_token") /\ creds' = [creds EXCEPT ![c.user] = @ \cup {"api_token"}]
       \/ Commits(w, "revoke_token") /\ creds' = [creds EXCEPT ![c.user] = @ \ {"api_token"}]
    /\ UNCHANGED <<users, groups, members, roles, grants, rows, mappings>>

\* A tombstone stays one whatever active says.
SetActive(w) ==
    LET u == req[w].call.user IN
    /\ \/ /\ Commits(w, "activate")
          /\ users' = [users EXCEPT ![u] = IF @ = "deleted" THEN @ ELSE "active"]
       \/ /\ Commits(w, "deactivate")
          /\ users' = [users EXCEPT ![u] = IF @ = "deleted" THEN @ ELSE "inactive"]
    /\ UNCHANGED <<groups, members, roles, grants, rows, mappings, creds>>

DeleteUser(w) ==
    LET u == req[w].call.user IN
    /\ Commits(w, "delete_user")
    /\ users' = [users EXCEPT ![u] = "deleted"]
    /\ rows' = {row \in rows : row.subject # u}
    /\ members' = {pair \in members : pair[1] # u}
    /\ creds' = [creds EXCEPT ![u] = {}]
    /\ UNCHANGED <<groups, roles, grants, mappings>>

-----------------------------------------------------------------------------
(* Groups, assignments, roles and mappings                                 *)

CreateGroup(w) ==
    LET g == req[w].call.group IN
    /\ Commits(w, "create_group")
    /\ groups[g] = "none"
    /\ groups' = [groups EXCEPT ![g] = "live"]
    /\ UNCHANGED <<users, members, roles, grants, rows, mappings, creds>>

\* Memberships cascade; the assignments have no foreign key and go by hand.
DeleteGroup(w) ==
    LET g == req[w].call.group IN
    /\ Commits(w, "delete_group")
    /\ groups' = [groups EXCEPT ![g] = "gone"]
    /\ rows' = {row \in rows : row.subject # g}
    /\ members' = {pair \in members : pair[2] # g}
    /\ UNCHANGED <<users, roles, grants, mappings, creds>>

SetMember(w) ==
    LET c == req[w].call IN
    /\ \/ /\ Commits(w, "add_member")
          /\ users[c.user] # "none" /\ groups[c.group] = "live"
          /\ members' = members \cup {<<c.user, c.group>>}
       \/ Commits(w, "remove_member") /\ members' = members \ {<<c.user, c.group>>}
    /\ UNCHANGED <<users, groups, roles, grants, rows, mappings, creds>>

\* ON CONFLICT DO NOTHING keeps the source of a row that exists.
Insert(subject, role, source) ==
    IF Carries(subject, role) \/ ~Exists(role) THEN rows
    ELSE rows \cup {[subject |-> subject, role |-> role, source |-> source]}

Assign(w) ==
    LET c == req[w].call IN
    /\ Commits(w, "assign")
    /\ rows' = Insert(c.subject, c.role, "local")
    /\ UNCHANGED <<users, groups, members, roles, grants, mappings, creds>>

\* By hand, a row goes whoever made it.
Unassign(w) ==
    LET c == req[w].call IN
    /\ Commits(w, "unassign")
    /\ rows' = {row \in rows : ~(row.subject = c.subject /\ row.role = c.role)}
    /\ UNCHANGED <<users, groups, members, roles, grants, mappings, creds>>

\* A role and its grants in one transaction.
CreateRole(w) ==
    LET c == req[w].call IN
    /\ Commits(w, "create_role")
    /\ roles[c.role] = "none"
    /\ roles' = [roles EXCEPT ![c.role] = "live"]
    /\ grants' = [grants EXCEPT ![c.role] = c.perms]
    /\ UNCHANGED <<users, groups, members, rows, mappings, creds>>

\* The whole grant set of a role is replaced.
UpdateRole(w) ==
    LET c == req[w].call IN
    /\ Commits(w, "update_role")
    /\ Exists(c.role)
    /\ grants' = [grants EXCEPT ![c.role] = c.perms]
    /\ UNCHANGED <<users, groups, members, roles, rows, mappings, creds>>

\* Grants, assignments and mappings of the role cascade.
DeleteRole(w) ==
    LET role == req[w].call.role IN
    /\ Commits(w, "delete_role")
    /\ roles' = [roles EXCEPT ![role] = "gone"]
    /\ grants' = [grants EXCEPT ![role] = {}]
    /\ rows' = {row \in rows : row.role # role}
    /\ mappings' = [x \in Mapping |-> IF x.role = role /\ mappings[x] = "live" THEN "gone"
                                      ELSE mappings[x]]
    /\ UNCHANGED <<users, groups, members, creds>>

SetMapping(w) ==
    LET x == req[w].call.map IN
    /\ \/ /\ Commits(w, "create_mapping")
          /\ mappings[x] = "none" /\ Exists(x.role)
          /\ mappings' = [mappings EXCEPT ![x] = "live"]
       \/ Commits(w, "delete_mapping") /\ mappings' = [mappings EXCEPT ![x] = "gone"]
    /\ UNCHANGED <<users, groups, members, roles, grants, rows, creds>>

-----------------------------------------------------------------------------
(* The roles of a login over the provider: auth/role_sync.py               *)

Mapped(claims) == {x.role : x \in {y \in Mapping : mappings[y] = "live" /\ y.claim \in claims}}

FromProvider(u) == {row.role : row \in {x \in rows : x.subject = u /\ x.source = "idp"}}

\* Mutant: a role held through a group counts as assigned.
SyncBeginMutant(u, claims) ==
    /\ sync = NoSync
    /\ syncs < MaxSyncs
    /\ users[u] = "active"
    /\ syncs' = syncs + 1
    /\ sync' = [pc |-> "assign", user |-> u, desired |-> Mapped(claims), fresh |-> TRUE,
                add |-> Mapped(claims) \ RolesOf(u),
                drop |-> FromProvider(u) \ Mapped(claims)]
    /\ UNCHANGED <<tables, req, calls>>

SyncBegin(u, claims) ==
    /\ sync = NoSync
    /\ syncs < MaxSyncs
    /\ users[u] = "active"
    /\ syncs' = syncs + 1
    /\ sync' = [pc |-> "assign", user |-> u, desired |-> Mapped(claims), fresh |-> TRUE,
                add |-> Mapped(claims) \ FromProvider(u),
                drop |-> FromProvider(u) \ Mapped(claims)]
    /\ UNCHANGED <<tables, req, calls>>

\* The write of a sync leaves every checked call with an old view.
SyncWrites == req' = [v \in Workers |-> Stale(req[v])] /\ UNCHANGED <<calls, syncs>>

\* A role deleted since then fails the foreign key, and the login with it.
SyncAssign(role) ==
    /\ sync.pc = "assign"
    /\ role \in sync.add
    /\ rows' = Insert(sync.user, role, "idp")
    /\ sync' = IF Exists(role) THEN [sync EXCEPT !.add = @ \ {role}] ELSE NoSync
    /\ SyncWrites
    /\ UNCHANGED <<users, groups, members, roles, grants, mappings, creds>>

\* Mutant: the row goes whoever made it.
SyncRevokeMutant(role) ==
    /\ sync.pc = "assign" /\ sync.add = {}
    /\ role \in sync.drop
    /\ rows' = {row \in rows : ~(row.subject = sync.user /\ row.role = role)}
    /\ sync' = [sync EXCEPT !.drop = @ \ {role}]
    /\ SyncWrites
    /\ UNCHANGED <<users, groups, members, roles, grants, mappings, creds>>

SyncRevoke(role) ==
    /\ sync.pc = "assign" /\ sync.add = {}
    /\ role \in sync.drop
    /\ rows' = rows \ {[subject |-> sync.user, role |-> role, source |-> "idp"]}
    /\ sync' = [sync EXCEPT !.drop = @ \ {role}]
    /\ SyncWrites
    /\ UNCHANGED <<users, groups, members, roles, grants, mappings, creds>>

SyncEnd ==
    /\ sync.pc = "assign"
    /\ sync.add = {} /\ sync.drop = {}
    /\ sync' = NoSync
    /\ UNCHANGED <<tables, req, calls, syncs>>

-----------------------------------------------------------------------------

Write(w) ==
    \/ CreateUser(w) \/ FirstPassword(w) \/ ConstraintFails(w)
    \/ SetCredential(w) \/ SetActive(w) \/ DeleteUser(w)
    \/ CreateGroup(w) \/ DeleteGroup(w) \/ SetMember(w)
    \/ Assign(w) \/ Unassign(w)
    \/ CreateRole(w) \/ UpdateRole(w) \/ DeleteRole(w) \/ SetMapping(w)

SyncStep == \/ \E role \in Roles : SyncAssign(role) \/ SyncRevoke(role)
            \/ SyncEnd

Next ==
    \/ \E w \in Workers :
          \/ \E u \in Users, sudo \in BOOLEAN : Authenticate(w, u, sudo)
          \/ \E c \in Call : Authorize(w, c)
          \/ Check(w) \/ Refuse(w) \/ Write(w)
    \/ \E u \in Users, claims \in SUBSET Claims : SyncBegin(u, claims)
    \/ SyncStep

-----------------------------------------------------------------------------
(* Properties                                                              *)

TypeOK ==
    /\ users \in [Users -> {"none", "active", "inactive", "deleted"}]
    /\ groups \in [Groups -> Lifetime]
    /\ members \subseteq Users \X Groups
    /\ roles \in [CustomRoles -> Lifetime]
    /\ grants \in [CustomRoles -> SUBSET Perm]
    /\ rows \subseteq Row
    /\ mappings \in [Mapping -> Lifetime]
    /\ creds \in [Users -> SUBSET {"password", "api_token"}]
    /\ DOMAIN req = Workers
    /\ \A x, y \in rows : x.subject = y.subject /\ x.role = y.role => x = y
    /\ \A r \in CustomRoles : grants[r] # {} => roles[r] = "live"

\* A write whose guards were read before somebody else's write.
StaleWrite == \E w \in Workers : /\ req[w].pc \in {"checked", "password"}
                                 /\ req'[w] = Idle
                                 /\ ~req[w].fresh

KeepsAdmin ==
    (Admins # {} /\ Admins' = {}) => StaleWrite \/ SyncStep

\* No call ends the last active administrator's access, however it is held, unless
\* another call wrote between its check and its write; a login over the provider is
\* not guarded (assert_admin_remains and its callers in auth/management.py).
LastAdminHeld == [][KeepsAdmin]_vars

RowHolds(row) == Exists(row.role) /\ SubjectExists(row.subject)

DecidedByGuards ==
    \/ StaleWrite
    \/ \A w \in Workers :
          DeleteRole(w) => \A row \in rows : row.role # req[w].call.role

\* A role that somebody still holds is deleted, and its assignments cascade, only when
\* the assignment was made between the check and the DELETE (RoleInUseError: "the
\* cascade must never be the mechanism that decides this").
CascadeOnlyByRace == [][DecidedByGuards]_vars

NewDangling == \E row \in rows' : ~RowHolds(row)' /\ (row \notin rows \/ RowHolds(row))

\* An assignment of a group that is gone appears only when the group was deleted
\* between the existence check and the INSERT; no assignment outlives its role.
DanglingOnlyByRace == [][NewDangling => StaleWrite \/ SyncStep]_vars

\* The step that deletes a user leaves no membership, assignment or credential behind,
\* so a tombstone has roles again only when a call names it afterwards
\* (UserRepository.soft_delete, "this must never leave a half-purged user").
TombstonePurged ==
    [][\A u \in Users : (users[u] # "deleted" /\ users'[u] = "deleted")
          => creds'[u] = {} /\ RolesOf(u)' = {}]_vars

\* What the tables hold refers to what exists, whichever calls come and go at once.
ReferencesSound ==
    []TypeOK /\ CascadeOnlyByRace /\ DanglingOnlyByRace /\ TombstonePurged

Others(u, table) == {row \in table : row.source # "idp" \/ row.subject # u}

\* A login over the provider never takes, adds or relabels an assignment of another
\* user or one made by hand, whatever calls commit between its steps
\* (sync_mapped_roles, "scoped to source=provider throughout").
SyncKeepsOthers == [][SyncStep => Others(sync.user, rows) = Others(sync.user, rows')]_vars

\* A sync that nobody disturbed ends with the provider's rows being the desired roles,
\* but for those the user was given by hand.
SyncConverges ==
    (sync.pc = "assign" /\ sync.fresh /\ sync.add = {} /\ sync.drop = {}) =>
        FromProvider(sync.user) =
            {r \in sync.desired : [subject |-> sync.user, role |-> r, source |-> "local"] \notin rows}

=============================================================================
