----------------------------- MODULE RbacProofs ------------------------------
(***************************************************************************)
(* Proofs about Rbac: its types, that the last administrator is kept, that *)
(* the tables refer to what exists, and what a login over the provider may *)
(* touch.  They hold for any number of users, groups, roles, claims, calls *)
(* and logins, from any well-typed tables.                                 *)
(***************************************************************************)
EXTENDS Rbac, TLAPS

\* Any tables, with no call and no login in progress.
Quiet == TypeOK /\ req = [w \in Workers |-> Idle] /\ sync = NoSync

Spec == Quiet /\ [][Next]_vars

\* What a call carries at each place.
Request ==
    [pc : {"idle"}]
    \cup [pc : {"authenticated"}, principal : SUBSET Roles, sudo : BOOLEAN]
    \cup [pc : {"authorized"}, principal : SUBSET Roles, call : Call]
    \cup [pc : {"checked"}, call : Call, fresh : BOOLEAN]
    \cup [pc : {"password"}, call : {c \in Call : c.name = "create_user"}, fresh : BOOLEAN]

Sync ==
    [pc : {"idle"}]
    \cup [pc : {"assign"}, user : Users, desired : SUBSET Roles, fresh : BOOLEAN,
          add : SUBSET Roles, drop : SUBSET Roles]

TypeInv == TypeOK /\ sync \in Sync /\ req \in [Workers -> Request]

-----------------------------------------------------------------------------
(* Types                                                                   *)

(* What the name of a call says of its fields.                             *)
LEMMA CallFields ==
    ASSUME NEW c \in Call
    PROVE  /\ c.name \in {"delete_user", "deactivate", "activate", "set_password",
                          "issue_token", "revoke_token", "create_user"} => c.user \in Users
           /\ c.name \in {"add_member", "remove_member"} => c.user \in Users
           /\ c.name \in {"create_group", "delete_group", "add_member", "remove_member"}
                => c.group \in Groups
           /\ c.name \in {"assign", "unassign"} => c.subject \in Subjects /\ c.role \in Roles
           /\ c.name = "create_role" => c.role \in CustomRoles
           /\ c.name \in {"create_role", "update_role"} => c.perms \in SUBSET Perm
           /\ c.name \in {"update_role", "delete_role"} => c.role \in Roles
           /\ c.name \in {"create_mapping", "delete_mapping"} => c.map \in Mapping
<1>1. CASE c \in UserCall
  BY <1>1 DEF UserCall
<1>2. CASE c \in AssignmentCall
  BY <1>2 DEF AssignmentCall
<1>3. CASE c \in GroupCall
  BY <1>3 DEF GroupCall
<1>4. CASE c \in RoleCall
  BY <1>4 DEF RoleCall
<1>5. CASE c \in MappingCall
  BY <1>5 DEF MappingCall
<1>6. QED
  BY <1>1, <1>2, <1>3, <1>4, <1>5 DEF Call

(* The roles somebody holds are roles.                                     *)
LEMMA RolesOfTyped == ASSUME TypeOK, NEW u PROVE RolesOf(u) \subseteq Roles
<1>1. \A row \in rows : row.role \in Roles
  BY DEF TypeOK, Row
<1>2. QED
  BY <1>1 DEF RolesOf

(* What is old keeps its type and its place.                               *)
LEMMA StaleTyped ==
    ASSUME NEW r \in Request
    PROVE  /\ Stale(r) \in Request /\ Stale(r).pc = r.pc
           /\ r.pc \in {"checked", "password"} => Stale(r).call = r.call /\ ~Stale(r).fresh
<1>1. CASE r \in [pc : {"checked"}, call : Call, fresh : BOOLEAN]
  BY <1>1 DEF Request, Stale
<1>2. CASE r \in [pc : {"password"}, call : {c \in Call : c.name = "create_user"},
                  fresh : BOOLEAN]
  BY <1>2 DEF Request, Stale
<1>3. CASE r.pc \notin {"checked", "password"}
  BY <1>3 DEF Request, Stale
<1>4. QED
  BY <1>1, <1>2, <1>3 DEF Request

LEMMA StaleSync ==
    ASSUME NEW r \in Sync
    PROVE  Stale(r) \in Sync /\ Stale(r).pc = r.pc /\ (r.pc = "assign" => ~Stale(r).fresh)
  BY DEF Sync, Stale

(* A commit leaves its worker idle and the others typed.                   *)
LEMMA CommitTyped ==
    ASSUME TypeInv, NEW w \in Workers, NEW name, Commits(w, name)
    PROVE  /\ sync' \in Sync /\ req' \in [Workers -> Request]
           /\ req[w].pc = "checked" /\ req[w].call \in Call /\ req[w].call.name = name
<1>1. Idle \in Request
  BY DEF Request, Idle
<1>2. \A v \in Workers : Stale(req[v]) \in Request
  BY StaleTyped DEF TypeInv
<1>3. req' \in [Workers -> Request]
  BY <1>1, <1>2 DEF Commits
<1>4. sync' \in Sync
  BY StaleSync DEF Commits, TypeInv
<1>5. req[w].pc = "checked" => req[w].call \in Call
  BY DEF TypeInv, Request
<1>6. QED
  BY <1>3, <1>4, <1>5 DEF Commits

(* A step of one worker that writes no table.                              *)
LEMMA QuietStep ==
    ASSUME TypeInv, NEW w \in Workers, NEW r \in Request, req' = [req EXCEPT ![w] = r],
           UNCHANGED tables, sync' \in Sync
    PROVE  TypeInv'
  BY DEF TypeInv, TypeOK, tables

(* A row for a subject and a role there is keeps the table well typed.     *)
LEMMA InsertTyped ==
    ASSUME TypeOK, NEW subject \in Subjects, NEW role \in Roles, NEW source \in {"local", "idp"}
    PROVE  /\ Insert(subject, role, source) \subseteq Row
           /\ \A x, y \in Insert(subject, role, source) :
                  x.subject = y.subject /\ x.role = y.role => x = y
  BY DEF TypeOK, Insert, Carries, Row

(* Every step keeps the types, and whatever a worker writes.               *)
LEMMA StepTyped == TypeInv /\ [Next]_vars => TypeInv'
<1> SUFFICES ASSUME TypeInv, [Next]_vars PROVE TypeInv'
  OBVIOUS
<1> USE RbacAssumption
<1>1. ASSUME NEW w \in Workers, NEW u \in Users, NEW sudo \in BOOLEAN,
             Authenticate(w, u, sudo)
      PROVE  TypeInv'
  <2>1. [pc |-> "authenticated", principal |-> RolesOf(u), sudo |-> sudo] \in Request
    BY RolesOfTyped DEF TypeInv, Request
  <2>2. QED
    BY <1>1, <2>1, QuietStep DEF Authenticate, TypeInv
<1>2. ASSUME NEW w \in Workers, NEW c \in Call, Authorize(w, c) PROVE TypeInv'
  <2>1. [pc |-> "authorized", principal |-> req[w].principal, call |-> c] \in Request
    BY <1>2 DEF TypeInv, Request, Authorize
  <2>2. req' = [req EXCEPT ![w] = [pc |-> "authorized", principal |-> req[w].principal,
                                   call |-> c]]
    BY <1>2 DEF Authorize, TypeInv
  <2>3. QED
    BY <1>2, <2>1, <2>2, QuietStep DEF Authorize, TypeInv
<1>3. ASSUME NEW w \in Workers, Check(w) PROVE TypeInv'
  <2>1. [pc |-> "checked", call |-> req[w].call, fresh |-> TRUE] \in Request
    BY <1>3 DEF TypeInv, Request, Check
  <2>2. req' = [req EXCEPT ![w] = [pc |-> "checked", call |-> req[w].call, fresh |-> TRUE]]
    BY <1>3 DEF Check, TypeInv
  <2>3. QED
    BY <1>3, <2>1, <2>2, QuietStep DEF Check, TypeInv
<1>4. ASSUME NEW w \in Workers, Refuse(w) \/ ConstraintFails(w) PROVE TypeInv'
  <2>1. Idle \in Request
    BY DEF Request, Idle
  <2>2. QED
    BY <1>4, <2>1, QuietStep DEF Refuse, ConstraintFails, TypeInv
<1>5. ASSUME NEW w \in Workers, CreateUser(w) PROVE TypeInv'
  <2>1. Idle \in Request /\ \A v \in Workers : Stale(req[v]) \in Request
    BY StaleTyped DEF Request, Idle, TypeInv
  <2>2. req[w].call \in Call /\ req[w].call.name = "create_user"
    BY <1>5 DEF CreateUser, TypeInv, Request
  <2>3. [pc |-> "password", call |-> req[w].call, fresh |-> TRUE] \in Request
    BY <2>2 DEF Request
  <2>4. req' \in [Workers -> Request]
    BY <1>5, <2>1, <2>3 DEF CreateUser
  <2>5. sync' \in Sync
    BY <1>5, StaleSync DEF CreateUser, TypeInv
  <2>6. QED
    BY <1>5, <2>4, <2>5 DEF CreateUser, TypeInv, TypeOK
<1>6. ASSUME NEW w \in Workers, FirstPassword(w) PROVE TypeInv'
  <2>1. Idle \in Request /\ \A v \in Workers : Stale(req[v]) \in Request
    BY StaleTyped DEF Request, Idle, TypeInv
  <2>2. req' \in [Workers -> Request] /\ sync' \in Sync
    BY <1>6, <2>1, StaleSync DEF FirstPassword, TypeInv
  <2>3. QED
    BY <1>6, <2>2 DEF FirstPassword, TypeInv, TypeOK
<1>7. ASSUME NEW w \in Workers, SetCredential(w) PROVE TypeInv'
  <2>1. req' \in [Workers -> Request] /\ sync' \in Sync
    BY <1>7, CommitTyped DEF SetCredential
  <2>2. QED
    BY <1>7, <2>1 DEF SetCredential, TypeInv, TypeOK
<1>8. ASSUME NEW w \in Workers, SetActive(w) PROVE TypeInv'
  <2>1. req' \in [Workers -> Request] /\ sync' \in Sync
    BY <1>8, CommitTyped DEF SetActive
  <2>2. users' \in [Users -> {"none", "active", "inactive", "deleted"}]
    BY <1>8 DEF SetActive, TypeInv, TypeOK
  <2>3. QED
    BY <1>8, <2>1, <2>2 DEF SetActive, TypeInv, TypeOK
<1>9. ASSUME NEW w \in Workers, DeleteUser(w) PROVE TypeInv'
  <2>1. req' \in [Workers -> Request] /\ sync' \in Sync
    BY <1>9, CommitTyped DEF DeleteUser
  <2>2. QED
    BY <1>9, <2>1 DEF DeleteUser, TypeInv, TypeOK
<1>10. ASSUME NEW w \in Workers, CreateGroup(w) \/ DeleteGroup(w) PROVE TypeInv'
  <2>1. req' \in [Workers -> Request] /\ sync' \in Sync
    BY <1>10, CommitTyped DEF CreateGroup, DeleteGroup
  <2>2. QED
    BY <1>10, <2>1 DEF CreateGroup, DeleteGroup, TypeInv, TypeOK, Lifetime
<1>11. ASSUME NEW w \in Workers, SetMember(w) PROVE TypeInv'
  <2>1. req' \in [Workers -> Request] /\ sync' \in Sync
    BY <1>11, CommitTyped DEF SetMember
  <2>2. members' \subseteq Users \X Groups
    <3>1. CASE Commits(w, "add_member")
      <4>1. req[w].call.user \in Users /\ req[w].call.group \in Groups
        BY <3>1, CommitTyped, CallFields
      <4>2. QED
        BY <1>11, <4>1 DEF SetMember, TypeInv, TypeOK
    <3>2. CASE Commits(w, "remove_member") /\ ~Commits(w, "add_member")
      BY <1>11, <3>2 DEF SetMember, TypeInv, TypeOK
    <3>3. QED
      BY <1>11, <3>1, <3>2 DEF SetMember
  <2>3. QED
    BY <1>11, <2>1, <2>2 DEF SetMember, TypeInv, TypeOK
<1>12. ASSUME NEW w \in Workers, Assign(w) PROVE TypeInv'
  <2>1. req' \in [Workers -> Request] /\ sync' \in Sync
    BY <1>12, CommitTyped DEF Assign
  <2>2. req[w].call.subject \in Subjects /\ req[w].call.role \in Roles
    BY <1>12, CommitTyped, CallFields DEF Assign
  <2>3. rows' \subseteq Row /\ \A x, y \in rows' : x.subject = y.subject /\ x.role = y.role
                                                    => x = y
    BY <1>12, <2>2, InsertTyped DEF Assign, TypeInv
  <2>4. QED
    BY <1>12, <2>1, <2>3 DEF Assign, TypeInv, TypeOK
<1>13. ASSUME NEW w \in Workers, Unassign(w) PROVE TypeInv'
  <2>1. req' \in [Workers -> Request] /\ sync' \in Sync
    BY <1>13, CommitTyped DEF Unassign
  <2>2. QED
    BY <1>13, <2>1 DEF Unassign, TypeInv, TypeOK
<1>14. ASSUME NEW w \in Workers, CreateRole(w) \/ UpdateRole(w) \/ DeleteRole(w) PROVE TypeInv'
  <2>1. req' \in [Workers -> Request] /\ sync' \in Sync
    BY <1>14, CommitTyped DEF CreateRole, UpdateRole, DeleteRole
  <2>2. CASE CreateRole(w)
    <3>1. req[w].call.perms \in SUBSET Perm
      BY <2>2, CommitTyped, CallFields DEF CreateRole
    <3>2. QED
      BY <2>1, <2>2, <3>1 DEF CreateRole, TypeInv, TypeOK, Lifetime
  <2>3. CASE UpdateRole(w)
    <3>1. req[w].call.perms \in SUBSET Perm
      BY <2>3, CommitTyped, CallFields DEF UpdateRole
    <3>2. \A r \in CustomRoles : r = req[w].call.role => roles[r] = "live"
      BY <2>3 DEF UpdateRole, Exists
    <3>3. QED
      BY <2>1, <2>3, <3>1, <3>2 DEF UpdateRole, TypeInv, TypeOK
  <2>4. CASE DeleteRole(w)
    <3>1. mappings' \in [Mapping -> Lifetime]
      BY <2>4 DEF DeleteRole, TypeInv, TypeOK, Lifetime
    <3>2. QED
      BY <2>1, <2>4, <3>1 DEF DeleteRole, TypeInv, TypeOK, Lifetime
  <2>5. QED
    BY <1>14, <2>2, <2>3, <2>4
<1>15. ASSUME NEW w \in Workers, SetMapping(w) PROVE TypeInv'
  <2>1. req' \in [Workers -> Request] /\ sync' \in Sync
    BY <1>15, CommitTyped DEF SetMapping
  <2>2. QED
    BY <1>15, <2>1 DEF SetMapping, TypeInv, TypeOK, Lifetime
<1>16. ASSUME NEW u \in Users, NEW claims \in SUBSET Claims, SyncBegin(u, claims) PROVE TypeInv'
  <2>1. Mapped(claims) \subseteq Roles
    <3>1. \A x \in Mapping : x.role \in Roles
      BY DEF Mapping
    <3>2. QED
      BY <3>1 DEF Mapped
  <2>2. FromProvider(u) \subseteq Roles
    <3>1. \A row \in rows : row.role \in Roles
      BY DEF TypeInv, TypeOK, Row
    <3>2. QED
      BY <3>1 DEF FromProvider
  <2>3. sync' \in Sync
    BY <1>16, <2>1, <2>2 DEF SyncBegin, Sync
  <2>4. QED
    BY <1>16, <2>3 DEF SyncBegin, TypeInv, TypeOK, tables
<1>17. ASSUME NEW role \in Roles, SyncAssign(role) \/ SyncRevoke(role) PROVE TypeInv'
  <2>1. req' \in [Workers -> Request]
    BY <1>17, StaleTyped DEF SyncAssign, SyncRevoke, SyncWrites, TypeInv
  <2>2. sync.user \in Users /\ sync' \in Sync
    BY <1>17 DEF SyncAssign, SyncRevoke, NoSync, TypeInv, Sync
  <2>3. rows' \subseteq Row /\ \A x, y \in rows' : x.subject = y.subject /\ x.role = y.role
                                                    => x = y
    BY <1>17, <2>2, InsertTyped DEF SyncAssign, SyncRevoke, TypeInv, TypeOK, Subjects
  <2>4. QED
    BY <1>17, <2>1, <2>2, <2>3 DEF SyncAssign, SyncRevoke, TypeInv, TypeOK
<1>18. CASE SyncEnd \/ UNCHANGED vars
  BY <1>18 DEF SyncEnd, vars, tables, NoSync, Sync, TypeInv, TypeOK
<1>19. QED
  BY <1>1, <1>2, <1>3, <1>4, <1>5, <1>6, <1>7, <1>8, <1>9, <1>10, <1>11, <1>12, <1>13, <1>14,
     <1>15, <1>16, <1>17, <1>18 DEF Next, Write, SyncStep

(* Whatever calls and logins run at once, the tables stay well typed: an   *)
(* assignment is there once, and only a role that exists grants anything.  *)
THEOREM TypeCorrect == Spec => []TypeOK
<1>1. Quiet => TypeInv
  BY DEF Quiet, TypeInv, Request, Idle, Sync, NoSync
<1>2. TypeInv => TypeOK
  BY DEF TypeInv
<1>3. QED
  BY StepTyped, <1>1, <1>2, PTL DEF Spec

-----------------------------------------------------------------------------
(* What a check still promises at the write                                *)

Passed(c) == \E principal \in SUBSET Roles : Passes(principal, c)

\* A call that nobody disturbed still passes, and no builtin role is up for deletion.
Promise(r) ==
    r.pc = "checked" =>
        /\ r.fresh => Passed(r.call)
        /\ r.call.name = "delete_role" => r.call.role \in CustomRoles

PromiseInv == \A w \in Workers : Promise(req[w])

(* What passes depends on the tables only.                                 *)
LEMMA PassesByTables == ASSUME UNCHANGED tables, NEW c PROVE Passed(c)' <=> Passed(c)
<1> USE DEF tables
<1>1. \A u : RolesOf(u)' = RolesOf(u)
  BY DEF RolesOf
<1>2. Admins' = Admins
  BY <1>1 DEF Admins
<1>3. \A g : MembersOf(g)' = MembersOf(g)
  BY DEF MembersOf
<1>4. \A role : Exists(role)' <=> Exists(role)
  BY DEF Exists
<1>5. \A role : GrantsOf(role)' = GrantsOf(role)
  BY DEF GrantsOf
<1>6. \A principal : GrantsOfAll(principal)' = GrantsOfAll(principal)
  BY <1>5 DEF GrantsOfAll
<1>7. \A principal, perms : MayGrant(principal, perms)' <=> MayGrant(principal, perms)
  BY <1>6 DEF MayGrant
<1>8. \A principal, role : MayAssign(principal, role)' <=> MayAssign(principal, role)
  BY <1>5, <1>7 DEF MayAssign
<1>9. Losing(c)' = Losing(c)
  BY <1>3 DEF Losing
<1>10. GuardsAdmin(c)' <=> GuardsAdmin(c)
  BY DEF GuardsAdmin, Carries
<1>11. AdminRemains(Losing(c))' <=> AdminRemains(Losing(c))
  BY <1>2, <1>9 DEF AdminRemains
<1>12. \A s : SubjectExists(s)' <=> SubjectExists(s)
  BY DEF SubjectExists
<1>13. /\ UserPasses(c)' <=> UserPasses(c)
       /\ GroupPasses(c)' <=> GroupPasses(c)
  BY DEF UserPasses, GroupPasses, Live
<1>14. ASSUME NEW principal PROVE Passes(principal, c)' <=> Passes(principal, c)
  <2>1. AssignmentPasses(principal, c)' <=> AssignmentPasses(principal, c)
    BY <1>4, <1>8, <1>12 DEF AssignmentPasses
  <2>2. RolePasses(principal, c)' <=> RolePasses(principal, c)
    BY <1>4, <1>7 DEF RolePasses
  <2>3. MappingPasses(principal, c)' <=> MappingPasses(principal, c)
    BY <1>4, <1>8 DEF MappingPasses
  <2>4. QED
    BY <1>10, <1>11, <1>13, <2>1, <2>2, <2>3 DEF Passes
<1>15. QED
  BY <1>14 DEF Passed

(* A write leaves the others with an old view, and any other step leaves   *)
(* the tables as they were checked.                                        *)
LEMMA StepPromise == TypeInv /\ PromiseInv /\ [Next]_vars => PromiseInv'
<1> SUFFICES ASSUME TypeInv, PromiseInv, [Next]_vars PROVE PromiseInv'
  OBVIOUS
<1>1. ASSUME UNCHANGED tables PROVE \A c : Passed(c)' <=> Passed(c)
  BY <1>1, PassesByTables
<1>2. ASSUME NEW w \in Workers, NEW r, req' = [req EXCEPT ![w] = r], Promise(r)',
             UNCHANGED tables
      PROVE  PromiseInv'
  BY <1>1, <1>2 DEF PromiseInv, Promise, TypeInv
<1>3. ASSUME \A v \in Workers : req'[v] = Stale(req[v]) \/ req'[v].pc # "checked"
      PROVE  PromiseInv'
  <2>1. \A v \in Workers : Stale(req[v]).pc = "checked" =>
           /\ ~Stale(req[v]).fresh
           /\ Stale(req[v]).call.name = "delete_role" => Stale(req[v]).call.role \in CustomRoles
    BY StaleTyped DEF TypeInv, PromiseInv, Promise
  <2>2. QED
    BY <1>3, <2>1 DEF PromiseInv, Promise
<1>4. ASSUME NEW w \in Workers, NEW name, Commits(w, name) PROVE PromiseInv'
  BY <1>3, <1>4 DEF Commits, Idle
<1>5. ASSUME NEW w \in Workers, NEW u \in Users, NEW sudo \in BOOLEAN,
             Authenticate(w, u, sudo)
      PROVE  PromiseInv'
  <2>1. Promise([pc |-> "authenticated", principal |-> RolesOf(u), sudo |-> sudo])'
    BY DEF Promise
  <2>2. QED
    BY <1>2, <1>5 DEF Authenticate, PromiseInv, Promise
<1>6. ASSUME NEW w \in Workers, NEW c \in Call, Authorize(w, c) PROVE PromiseInv'
  BY <1>2, <1>6 DEF Authorize, Promise
<1>7. ASSUME NEW w \in Workers, Check(w) PROVE PromiseInv'
  <2>1. Passed(req[w].call) /\ (req[w].call.name = "delete_role" => req[w].call.role \in CustomRoles)
    <3>1. req[w].principal \in SUBSET Roles /\ req[w].call \in Call
      BY <1>7 DEF Check, TypeInv, Request
    <3>2. req[w].call.name = "delete_role" => req[w].call \in RoleCall
      BY <3>1 DEF Call, UserCall, AssignmentCall, GroupCall, RoleCall, MappingCall
    <3>3. QED
      BY <1>7, <3>1, <3>2 DEF Check, Passed, Passes, RolePasses
  <2>2. UNCHANGED tables /\ req' = [req EXCEPT ![w] = [pc |-> "checked", call |-> req[w].call,
                                                      fresh |-> TRUE]]
    BY <1>7 DEF Check, TypeInv
  <2>3. QED
    BY <1>1, <2>1, <2>2 DEF PromiseInv, Promise, TypeInv
<1>8. ASSUME NEW w \in Workers, Refuse(w) \/ ConstraintFails(w) PROVE PromiseInv'
  BY <1>2, <1>8 DEF Refuse, ConstraintFails, Promise, Idle
<1>9. ASSUME NEW w \in Workers, CreateUser(w) \/ FirstPassword(w) PROVE PromiseInv'
  BY <1>3, <1>9 DEF CreateUser, FirstPassword, Idle
<1>10. ASSUME NEW w \in Workers,
              \/ SetCredential(w) \/ SetActive(w) \/ DeleteUser(w) \/ CreateGroup(w)
              \/ DeleteGroup(w) \/ SetMember(w) \/ Assign(w) \/ Unassign(w) \/ CreateRole(w)
              \/ UpdateRole(w) \/ DeleteRole(w) \/ SetMapping(w)
       PROVE  PromiseInv'
  BY <1>4, <1>10 DEF SetCredential, SetActive, DeleteUser, CreateGroup, DeleteGroup, SetMember,
                     Assign, Unassign, CreateRole, UpdateRole, DeleteRole, SetMapping
<1>11. ASSUME NEW role \in Roles, SyncAssign(role) \/ SyncRevoke(role) PROVE PromiseInv'
  BY <1>3, <1>11 DEF SyncAssign, SyncRevoke, SyncWrites
<1>12. CASE UNCHANGED <<req, tables>>
  BY <1>1, <1>12 DEF PromiseInv, Promise
<1>13. ASSUME NEW u \in Users, NEW claims \in SUBSET Claims, SyncBegin(u, claims)
       PROVE  PromiseInv'
  BY <1>12, <1>13 DEF SyncBegin
<1>14. CASE SyncEnd \/ UNCHANGED vars
  BY <1>12, <1>14 DEF SyncEnd, vars, tables
<1>15. QED
  BY <1>5, <1>6, <1>7, <1>8, <1>9, <1>10, <1>11, <1>13, <1>14 DEF Next, Write, SyncStep

-----------------------------------------------------------------------------
(* The last administrator                                                  *)

(* Whoever stays active and keeps a row of the admin role, and the way to  *)
(* it, stays an administrator.                                             *)
LEMMA SomeAdminStays ==
    ASSUME NEW S, Admins \ S # {},
           \A u \in Users \ S : users[u] = "active" => users'[u] = "active",
           \A u \in Users \ S, row \in rows :
              row.role = "admin" /\ (row.subject = u \/ <<u, row.subject>> \in members)
                => row \in rows' /\ (row.subject = u \/ <<u, row.subject>> \in members')
    PROVE  Admins' # {}
<1>1. PICK u \in Users \ S : users[u] = "active" /\ "admin" \in RolesOf(u)
  BY DEF Admins
<1>2. PICK row \in rows : row.role = "admin" /\ (row.subject = u \/ <<u, row.subject>> \in members)
  BY <1>1 DEF RolesOf
<1>3. "admin" \in RolesOf(u)'
  BY <1>1, <1>2 DEF RolesOf
<1>4. QED
  BY <1>1, <1>3 DEF Admins

(* A call that was not disturbed keeps an administrator.                   *)
LEMMA StepKeepsAdmin == TypeInv /\ PromiseInv /\ [Next]_vars => KeepsAdmin
<1> SUFFICES ASSUME TypeInv, PromiseInv, [Next]_vars, Admins # {}, ~StaleWrite, ~SyncStep
             PROVE  Admins' # {}
  BY DEF KeepsAdmin
<1> USE RbacAssumption
<1>1. /\ users \in [Users -> {"none", "active", "inactive", "deleted"}]
      /\ members \subseteq Users \X Groups /\ rows \subseteq Row
  BY DEF TypeInv, TypeOK
<1>2. CASE UNCHANGED <<users, members, rows>>
  BY <1>2, SomeAdminStays
<1>3. ASSUME NEW w \in Workers, NEW name, Commits(w, name)
      PROVE  /\ Passed(req[w].call)
             /\ req[w].call \in Call /\ req[w].call.name = name
             /\ name = "delete_role" => req[w].call.role \in CustomRoles
  <2>1. req[w].pc = "checked" /\ req'[w] = Idle
    BY <1>3 DEF Commits
  <2>2. req[w].fresh
    BY <2>1 DEF StaleWrite
  <2>3. QED
    BY <1>3, <2>1, <2>2, CommitTyped DEF PromiseInv, Promise
<1>4. ASSUME NEW c, Passed(c), GuardsAdmin(c) PROVE Admins \ Losing(c) # {}
  BY <1>4 DEF Passed, Passes, AdminRemains
<1>5. ASSUME NEW w \in Workers, CreateUser(w) PROVE Admins' # {}
  BY <1>1, <1>5, SomeAdminStays DEF CreateUser
<1>6. ASSUME NEW w \in Workers, SetActive(w) PROVE Admins' # {}
  <2> DEFINE c == req[w].call
  <2>1. CASE Commits(w, "activate") /\ users' = [users EXCEPT ![c.user] = IF @ = "deleted" THEN @ ELSE "active"]
    BY <1>1, <1>6, <2>1, SomeAdminStays DEF SetActive
  <2>2. CASE Commits(w, "deactivate") /\ users' = [users EXCEPT ![c.user] = IF @ = "deleted" THEN @ ELSE "inactive"]
    <3>1. Losing(c) = {c.user} /\ GuardsAdmin(c)
      BY <1>3, <2>2 DEF Losing, GuardsAdmin
    <3>2. Admins \ {c.user} # {}
      BY <1>3, <1>4, <2>2, <3>1
    <3>3. UNCHANGED <<members, rows>> /\ \A u \in Users \ {c.user} : users'[u] = users[u]
      BY <1>1, <1>6, <2>2 DEF SetActive
    <3>4. QED
      BY <3>2, <3>3, SomeAdminStays
  <2>3. QED
    BY <1>6, <2>1, <2>2 DEF SetActive
<1>7. ASSUME NEW w \in Workers, DeleteUser(w) PROVE Admins' # {}
  <2> DEFINE c == req[w].call
  <2>1. Losing(c) = {c.user} /\ GuardsAdmin(c) /\ Passed(c) /\ c.user \in Users
    BY <1>3, <1>7, CallFields DEF DeleteUser, Losing, GuardsAdmin
  <2>2. Admins \ {c.user} # {}
    BY <1>4, <2>1
  <2>3. \A u \in Users \ {c.user} : users'[u] = users[u]
    BY <1>1, <1>7 DEF DeleteUser
  <2>4. \A u \in Users \ {c.user}, row \in rows :
           row.subject = u \/ <<u, row.subject>> \in members
              => row \in rows' /\ (row.subject = u \/ <<u, row.subject>> \in members')
    BY <1>1, <1>7, <2>1 DEF DeleteUser
  <2>5. QED
    BY <2>2, <2>3, <2>4, SomeAdminStays
<1>8. ASSUME NEW w \in Workers, DeleteGroup(w) PROVE Admins' # {}
  <2> DEFINE c == req[w].call
  <2>1. Passed(c) /\ c.name = "delete_group" /\ c.group \in Groups /\ users' = users
    BY <1>3, <1>8, CallFields DEF DeleteGroup
  <2>2. CASE Carries(c.group, "admin")
    <3>1. Admins \ MembersOf(c.group) # {}
      <4>1. Losing(c) = MembersOf(c.group) /\ GuardsAdmin(c)
        BY <2>1, <2>2 DEF Losing, GuardsAdmin
      <4>2. QED
        BY <1>4, <2>1, <4>1
    <3>2. \A u \in Users \ MembersOf(c.group), row \in rows :
             row.subject = u \/ <<u, row.subject>> \in members
                => row \in rows' /\ (row.subject = u \/ <<u, row.subject>> \in members')
      BY <1>1, <1>8, <2>1 DEF DeleteGroup, MembersOf
    <3>3. QED
      BY <2>1, <3>1, <3>2, SomeAdminStays
  <2>3. CASE ~Carries(c.group, "admin")
    <3>1. \A u \in Users, row \in rows :
             row.role = "admin" /\ (row.subject = u \/ <<u, row.subject>> \in members)
                => row \in rows' /\ (row.subject = u \/ <<u, row.subject>> \in members')
      BY <1>1, <1>8, <2>1, <2>3 DEF DeleteGroup, Carries
    <3>2. QED
      BY <2>1, <3>1, SomeAdminStays
  <2>4. QED
    BY <2>2, <2>3
<1>9. ASSUME NEW w \in Workers, SetMember(w) PROVE Admins' # {}
  <2> DEFINE c == req[w].call
  <2>1. UNCHANGED <<users, rows>>
    BY <1>9 DEF SetMember
  <2>2. CASE members \subseteq members'
    BY <2>1, <2>2, SomeAdminStays
  <2>3. CASE Commits(w, "remove_member") /\ members' = members \ {<<c.user, c.group>>}
    <3>1. Passed(c) /\ c.name = "remove_member"
      BY <1>3, <2>3
    <3>2. CASE Carries(c.group, "admin")
      <4>1. Losing(c) = {c.user} /\ GuardsAdmin(c)
        BY <3>1, <3>2 DEF Losing, GuardsAdmin
      <4>2. Admins \ {c.user} # {}
        BY <1>4, <3>1, <4>1
      <4>3. QED
        BY <2>1, <2>3, <4>2, SomeAdminStays
    <3>3. CASE ~Carries(c.group, "admin")
      BY <2>1, <2>3, <3>3, SomeAdminStays DEF Carries
    <3>4. QED
      BY <3>2, <3>3
  <2>4. QED
    BY <1>9, <2>2, <2>3 DEF SetMember
<1>10. ASSUME NEW w \in Workers, Assign(w) PROVE Admins' # {}
  BY <1>10, SomeAdminStays DEF Assign, Insert
<1>11. ASSUME NEW w \in Workers, Unassign(w) PROVE Admins' # {}
  <2> DEFINE c == req[w].call
  <2>1. /\ Passed(c) /\ c.name = "unassign" /\ c.subject \in Subjects
        /\ UNCHANGED <<users, members>>
    BY <1>3, <1>11, CallFields DEF Unassign
  <2>2. CASE c.role # "admin"
    BY <1>11, <2>1, <2>2, SomeAdminStays DEF Unassign
  <2>3. CASE c.role = "admin"
    <3>1. Admins \ Losing(c) # {}
      BY <1>4, <2>1, <2>3 DEF GuardsAdmin
    <3>2. CASE c.subject \in Groups
      <4>1. Losing(c) = MembersOf(c.subject)
        BY <2>1, <3>2 DEF Losing
      <4>2. \A u \in Users \ MembersOf(c.subject), row \in rows :
               row.subject = u \/ <<u, row.subject>> \in members => row \in rows'
        BY <1>11, <3>2 DEF Unassign, MembersOf
      <4>3. QED
        BY <2>1, <3>1, <4>1, <4>2, SomeAdminStays
    <3>3. CASE c.subject \notin Groups
      <4>1. Losing(c) = {c.subject}
        BY <2>1, <3>3 DEF Losing
      <4>2. \A u \in Users \ {c.subject}, row \in rows :
               row.subject = u \/ <<u, row.subject>> \in members => row \in rows'
        BY <1>1, <1>11, <3>3 DEF Unassign
      <4>3. QED
        BY <2>1, <3>1, <4>1, <4>2, SomeAdminStays
    <3>4. QED
      BY <3>2, <3>3
  <2>4. QED
    BY <2>2, <2>3
<1>12. ASSUME NEW w \in Workers, DeleteRole(w) PROVE Admins' # {}
  <2>1. req[w].call.role # "admin"
    BY <1>3, <1>12 DEF DeleteRole, BuiltinRoles
  <2>2. QED
    BY <1>12, <2>1, SomeAdminStays DEF DeleteRole
<1>13. ASSUME NEW w \in Workers,
              \/ FirstPassword(w) \/ ConstraintFails(w) \/ SetCredential(w) \/ CreateGroup(w)
              \/ CreateRole(w) \/ UpdateRole(w) \/ SetMapping(w) \/ Check(w) \/ Refuse(w)
              \/ \E u \in Users, sudo \in BOOLEAN : Authenticate(w, u, sudo)
              \/ \E c \in Call : Authorize(w, c)
       PROVE  Admins' # {}
  BY <1>2, <1>13 DEF FirstPassword, ConstraintFails, SetCredential, CreateGroup, CreateRole,
                     UpdateRole, SetMapping, Check, Refuse, Authenticate, Authorize, tables
<1>14. CASE \/ UNCHANGED vars
            \/ \E u \in Users, claims \in SUBSET Claims : SyncBegin(u, claims)
  BY <1>2, <1>14 DEF SyncBegin, vars, tables
<1>15. QED
  BY <1>5, <1>6, <1>7, <1>8, <1>9, <1>10, <1>11, <1>12, <1>13, <1>14 DEF Next, Write

(* However many calls run at once, and however an administrator holds the  *)
(* role, only a write over an old check or a login takes the last one.     *)
THEOREM LastAdminKept == Spec => LastAdminHeld
<1>1. Quiet => TypeInv /\ PromiseInv
  BY DEF Quiet, TypeInv, Request, Idle, Sync, NoSync, PromiseInv, Promise
<1>2. QED
  BY StepTyped, StepPromise, StepKeepsAdmin, <1>1, PTL DEF Spec, LastAdminHeld

-----------------------------------------------------------------------------
(* What the tables refer to                                                *)

(* A step that removes no subject or role and no row dangles nothing.      *)
LEMMA NothingDangles ==
    ASSUME rows' \subseteq rows \/ \A row \in rows' \ rows : RowHolds(row)',
           \A row \in rows \cap rows' : RowHolds(row) => RowHolds(row)'
    PROVE  ~NewDangling
  BY DEF NewDangling

(* What exists goes on existing where no group or role is deleted.         *)
LEMMA ExistsStays ==
    ASSUME TypeOK, NEW row,
           \A u \in Users : users[u] # "none" => users'[u] # "none",
           \A g \in Groups : groups[g] = "live" /\ g = row.subject => groups'[g] = "live",
           \A r \in CustomRoles : roles[r] = "live" /\ r = row.role => roles'[r] = "live"
    PROVE  RowHolds(row) => RowHolds(row)'
  BY DEF RowHolds, Exists, SubjectExists

(* The cascade decides nothing, a row refers to what exists and a deleted  *)
(* user keeps nothing, but for writes over an old check.                   *)
LEMMA StepReferences ==
    TypeInv /\ PromiseInv /\ [Next]_vars
        => /\ DecidedByGuards
           /\ NewDangling => StaleWrite \/ SyncStep
           /\ \A u \in Users : (users[u] # "deleted" /\ users'[u] = "deleted")
                               => creds'[u] = {} /\ RolesOf(u)' = {}
<1> SUFFICES ASSUME TypeInv, PromiseInv, [Next]_vars
             PROVE  /\ DecidedByGuards
                    /\ NewDangling => StaleWrite \/ SyncStep
                    /\ \A u \in Users : (users[u] # "deleted" /\ users'[u] = "deleted")
                                        => creds'[u] = {} /\ RolesOf(u)' = {}
  OBVIOUS
<1> USE RbacAssumption
<1>1. TypeOK
  BY DEF TypeInv
<1>2. ASSUME NEW w \in Workers, NEW name, Commits(w, name), ~StaleWrite
      PROVE  /\ Passed(req[w].call)
             /\ req[w].call \in Call /\ req[w].call.name = name
             /\ name = "delete_role" => req[w].call.role \in CustomRoles
  <2>1. req[w].pc = "checked" /\ req'[w] = Idle
    BY <1>2 DEF Commits
  <2>2. req[w].fresh
    BY <1>2, <2>1 DEF StaleWrite
  <2>3. QED
    BY <1>2, <2>1, <2>2, CommitTyped DEF PromiseInv, Promise
<1>3. DecidedByGuards
  <2> SUFFICES ASSUME ~StaleWrite, NEW w \in Workers, DeleteRole(w)
               PROVE  \A row \in rows : row.role # req[w].call.role
    BY DEF DecidedByGuards
  <2>1. Passed(req[w].call) /\ req[w].call.name = "delete_role" /\ req[w].call \in Call
    BY <1>2 DEF DeleteRole
  <2>2. req[w].call \in RoleCall
    BY <2>1 DEF Call, UserCall, AssignmentCall, GroupCall, RoleCall, MappingCall
  <2>3. QED
    BY <2>1, <2>2 DEF Passed, Passes, RolePasses
<1>4. ASSUME ~StaleWrite, ~SyncStep PROVE ~NewDangling
  <2>1. ASSUME rows' \subseteq rows,
               \A u \in Users : users[u] # "none" => users'[u] # "none",
               groups' = groups, roles' = roles
        PROVE  ~NewDangling
    BY <1>1, <2>1, ExistsStays, NothingDangles
  <2>2. ASSUME NEW w \in Workers,
               \/ CreateUser(w) \/ FirstPassword(w) \/ ConstraintFails(w) \/ SetCredential(w)
               \/ SetActive(w) \/ DeleteUser(w) \/ SetMember(w) \/ Unassign(w) \/ UpdateRole(w)
               \/ SetMapping(w) \/ Check(w) \/ Refuse(w)
               \/ \E u \in Users, sudo \in BOOLEAN : Authenticate(w, u, sudo)
               \/ \E c \in Call : Authorize(w, c)
        PROVE  ~NewDangling
    <3>1. rows' \subseteq rows /\ groups' = groups /\ roles' = roles
      BY <2>2 DEF CreateUser, FirstPassword, ConstraintFails, SetCredential, SetActive,
                  DeleteUser, SetMember, Unassign, UpdateRole, SetMapping, Check, Refuse,
                  Authenticate, Authorize, tables
    <3>2. \A u \in Users : users[u] # "none" => users'[u] # "none"
      BY <1>1, <2>2
         DEF CreateUser, FirstPassword, ConstraintFails, SetCredential, SetActive, DeleteUser,
             SetMember, Unassign, UpdateRole, SetMapping, Check, Refuse, Authenticate,
             Authorize, tables, TypeOK
    <3>3. QED
      BY <2>1, <3>1, <3>2
  <2>3. ASSUME NEW w \in Workers, CreateGroup(w) \/ CreateRole(w) PROVE ~NewDangling
    <3>1. /\ UNCHANGED <<rows, users>>
          /\ \A g \in Groups : groups[g] = "live" => groups'[g] = "live"
          /\ \A r \in CustomRoles : roles[r] = "live" => roles'[r] = "live"
      BY <1>1, <2>3 DEF CreateGroup, CreateRole, TypeOK
    <3>2. QED
      BY <1>1, <3>1, ExistsStays, NothingDangles
  <2>4. ASSUME NEW w \in Workers, DeleteGroup(w) PROVE ~NewDangling
    <3> DEFINE group == req[w].call.group
    <3>1. /\ UNCHANGED <<users, roles>> /\ rows' \subseteq rows
          /\ \A row \in rows' : row.subject # group
          /\ \A g \in Groups : g # group => groups'[g] = groups[g]
      BY <1>1, <2>4 DEF DeleteGroup, TypeOK
    <3>2. QED
      BY <1>1, <3>1, ExistsStays, NothingDangles
  <2>5. ASSUME NEW w \in Workers, DeleteRole(w) PROVE ~NewDangling
    <3> DEFINE role == req[w].call.role
    <3>1. /\ UNCHANGED <<users, groups>> /\ rows' \subseteq rows
          /\ \A row \in rows' : row.role # role
          /\ \A r \in CustomRoles : r # role => roles'[r] = roles[r]
      BY <1>1, <2>5 DEF DeleteRole, TypeOK
    <3>2. QED
      BY <1>1, <3>1, ExistsStays, NothingDangles
  <2>6. ASSUME NEW w \in Workers, Assign(w) PROVE ~NewDangling
    <3> DEFINE c == req[w].call
    <3>1. Passed(c) /\ c.name = "assign" /\ c \in Call
      BY <1>2, <1>4, <2>6 DEF Assign
    <3>2. c \in AssignmentCall
      BY <3>1 DEF Call, UserCall, AssignmentCall, GroupCall, RoleCall, MappingCall
    <3>3. Exists(c.role) /\ SubjectExists(c.subject)
      BY <3>1, <3>2 DEF Passed, Passes, AssignmentPasses
    <3>4. UNCHANGED <<users, groups, roles>>
      BY <2>6 DEF Assign
    <3>5. \A row \in rows' \ rows : row.subject = c.subject /\ row.role = c.role
      BY <2>6 DEF Assign, Insert
    <3>6. \A row \in rows' \ rows : RowHolds(row)
      BY <3>3, <3>5 DEF RowHolds
    <3>7. \A row : RowHolds(row) => RowHolds(row)'
      BY <1>1, <3>4, ExistsStays
    <3>8. QED
      BY <3>6, <3>7, NothingDangles
  <2>7. ASSUME \/ UNCHANGED vars
               \/ \E u \in Users, claims \in SUBSET Claims : SyncBegin(u, claims)
        PROVE  ~NewDangling
    BY <2>1, <2>7 DEF SyncBegin, vars, tables
  <2>8. QED
    BY <1>4, <2>2, <2>3, <2>4, <2>5, <2>6, <2>7 DEF Next, Write
<1>5. ASSUME NEW u \in Users, users[u] # "deleted", users'[u] = "deleted"
      PROVE  creds'[u] = {} /\ RolesOf(u)' = {}
  <2>1. PICK w \in Workers : CreateUser(w) \/ SetActive(w) \/ DeleteUser(w)
    BY <1>5
       DEF Next, Write, vars, tables, SyncStep, FirstPassword, ConstraintFails, SetCredential,
           CreateGroup, DeleteGroup, SetMember, Assign, Unassign, CreateRole, UpdateRole,
           DeleteRole, SetMapping, Check, Refuse, Authenticate, Authorize, SyncBegin,
           SyncAssign, SyncRevoke, SyncEnd
  <2>2. DeleteUser(w) /\ u = req[w].call.user
    BY <1>1, <1>5, <2>1 DEF CreateUser, SetActive, DeleteUser, TypeOK
  <2>3. /\ creds'[u] = {}
        /\ \A row \in rows' : row.subject # u
        /\ \A pair \in members' : pair[1] # u
    BY <1>1, <2>2 DEF DeleteUser, TypeOK
  <2>4. \A g : <<u, g>> \notin members'
    BY <2>3
  <2>5. QED
    BY <2>3, <2>4 DEF RolesOf
<1>6. QED
  BY <1>3, <1>4, <1>5

(* What the tables hold refers to what exists, whichever calls and logins  *)
(* come and go at once, but for the race that the property names.          *)
THEOREM ReferencesStaySound == Spec => ReferencesSound
<1>1. Quiet => TypeInv /\ PromiseInv
  BY DEF Quiet, TypeInv, Request, Idle, Sync, NoSync, PromiseInv, Promise
<1>2. TypeInv => TypeOK
  BY DEF TypeInv
<1>3. QED
  BY StepTyped, StepPromise, StepReferences, <1>1, <1>2, PTL
     DEF Spec, ReferencesSound, CascadeOnlyByRace, DanglingOnlyByRace, TombstonePurged

-----------------------------------------------------------------------------
(* A login over the provider                                               *)

(* A step of a login touches the provider's rows of its user and no other. *)
LEMMA StepKeepsOthers ==
    TypeInv /\ [Next]_vars => (SyncStep => Others(sync.user, rows) = Others(sync.user, rows'))
<1> SUFFICES ASSUME TypeInv, SyncStep PROVE Others(sync.user, rows) = Others(sync.user, rows')
  OBVIOUS
<1>1. ASSUME NEW role \in Roles, SyncAssign(role)
      PROVE  Others(sync.user, rows) = Others(sync.user, rows')
  BY <1>1 DEF SyncAssign, Insert, Others
<1>2. ASSUME NEW role \in Roles, SyncRevoke(role)
      PROVE  Others(sync.user, rows) = Others(sync.user, rows')
  BY <1>2 DEF SyncRevoke, Others
<1>3. CASE SyncEnd
  BY <1>3 DEF SyncEnd, tables
<1>4. QED
  BY <1>1, <1>2, <1>3 DEF SyncStep

(* Every login keeps what was assigned by hand or to others.               *)
THEOREM SyncTouchesItsOwn == Spec => SyncKeepsOthers
<1>1. Quiet => TypeInv
  BY DEF Quiet, TypeInv, Request, Idle, Sync, NoSync
<1>2. QED
  BY StepTyped, StepKeepsOthers, <1>1, PTL DEF Spec, SyncKeepsOthers

ByHand(u, role) == [subject |-> u, role |-> role, source |-> "local"] \in rows

ByProvider(u, role) == [subject |-> u, role |-> role, source |-> "idp"] \in rows

\* Half way, the provider's rows are desired or to be dropped, and a desired role is
\* there, was given by hand or is to be added.
HalfWay ==
    sync.pc = "assign" =>
        /\ sync.add \subseteq sync.desired /\ sync.drop \cap sync.desired = {}
        /\ sync.fresh =>
              /\ \A r \in Roles : ByProvider(sync.user, r) => r \in sync.desired \cup sync.drop
              /\ \A r \in sync.desired :
                    r \in sync.add \/ ByProvider(sync.user, r) \/ ByHand(sync.user, r)

(* The provider's rows, by role.                                           *)
LEMMA FromProviderIs ==
    ASSUME TypeOK, NEW u
    PROVE  \A r : r \in FromProvider(u) <=> r \in Roles /\ ByProvider(u, r)
<1>1. \A row \in rows : row = [subject |-> row.subject, role |-> row.role, source |-> row.source]
                        /\ row.role \in Roles
  BY DEF TypeOK, Row
<1>2. QED
  BY <1>1 DEF FromProvider, ByProvider

(* Each assignment and each revocation brings the rows nearer.             *)
LEMMA StepHalfWay == TypeInv /\ HalfWay /\ [Next]_vars => HalfWay'
<1> SUFFICES ASSUME TypeInv, HalfWay, [Next]_vars PROVE HalfWay'
  OBVIOUS
<1>1. TypeOK /\ sync \in Sync
  BY DEF TypeInv
<1>2. CASE UNCHANGED <<sync, rows>>
  BY <1>2 DEF HalfWay, ByProvider, ByHand
<1>3. CASE sync' = Stale(sync)
  <2>1. /\ sync.pc = "assign" => sync'.add = sync.add /\ sync'.drop = sync.drop
                                 /\ sync'.desired = sync.desired
        /\ sync'.pc = sync.pc /\ (sync.pc = "assign" => ~sync'.fresh)
    BY <1>1, <1>3 DEF Stale, Sync
  <2>2. QED
    BY <2>1 DEF HalfWay
<1>4. CASE sync' = NoSync
  BY <1>4 DEF HalfWay, NoSync
<1>5. ASSUME NEW u \in Users, NEW claims \in SUBSET Claims, SyncBegin(u, claims) PROVE HalfWay'
  <2> DEFINE D == Mapped(claims)
  <2>1. \A r : r \in FromProvider(u) <=> r \in Roles /\ ByProvider(u, r)
    BY <1>1, FromProviderIs
  <2>2. D \subseteq Roles
    <3>1. \A x \in Mapping : x.role \in Roles
      BY DEF Mapping
    <3>2. QED
      BY <3>1 DEF Mapped
  <2>3. /\ sync'.user = u /\ sync'.desired = D /\ sync'.add = D \ FromProvider(u)
        /\ sync'.drop = FromProvider(u) \ D /\ rows' = rows
    BY <1>5 DEF SyncBegin, tables
  <2> HIDE DEF D
  <2>4. \A r : ByProvider(sync.user, r)' <=> ByProvider(u, r)
    BY <2>3 DEF ByProvider
  <2>5. QED
    BY <2>1, <2>2, <2>3, <2>4 DEF HalfWay
<1>6. ASSUME NEW role \in Roles, SyncAssign(role), Exists(role) PROVE HalfWay'
  <2>1. sync.pc = "assign" /\ role \in sync.add /\ sync' = [sync EXCEPT !.add = @ \ {role}]
        /\ rows' = Insert(sync.user, role, "idp")
    BY <1>6 DEF SyncAssign
  <2>2. /\ sync'.user = sync.user /\ sync'.desired = sync.desired /\ sync'.fresh = sync.fresh
        /\ sync'.add = sync.add \ {role} /\ sync'.drop = sync.drop
    BY <1>1, <2>1 DEF Sync
  <2>3. rows \subseteq rows'
        /\ rows' \subseteq rows \cup {[subject |-> sync.user, role |-> role, source |-> "idp"]}
    BY <2>1 DEF Insert
  <2>4. ByProvider(sync.user, role)' \/ ByHand(sync.user, role)'
    <3>1. CASE Carries(sync.user, role)
      <4>1. PICK row \in rows : row.subject = sync.user /\ row.role = role
        BY <3>1 DEF Carries
      <4>2. /\ row = [subject |-> row.subject, role |-> row.role, source |-> row.source]
            /\ row.source \in {"local", "idp"}
        BY <1>1, <4>1 DEF TypeOK, Row
      <4>3. QED
        BY <2>2, <2>3, <4>1, <4>2 DEF ByProvider, ByHand
    <3>2. CASE ~Carries(sync.user, role)
      BY <1>6, <2>1, <2>2, <3>2 DEF Insert, ByProvider
    <3>3. QED
      BY <3>1, <3>2
  <2>5. \A r : /\ ByProvider(sync.user, r) => ByProvider(sync.user, r)'
               /\ ByHand(sync.user, r) => ByHand(sync.user, r)'
               /\ ByProvider(sync.user, r)' => ByProvider(sync.user, r) \/ r = role
    BY <2>2, <2>3 DEF ByProvider, ByHand
  <2>6. sync'.fresh => \A r \in Roles : ByProvider(sync.user, r)' => r \in sync'.desired \cup sync'.drop
    BY <2>1, <2>2, <2>5 DEF HalfWay
  <2>7. sync'.fresh => \A r \in sync'.desired :
           r \in sync'.add \/ ByProvider(sync.user, r)' \/ ByHand(sync.user, r)'
    BY <2>1, <2>2, <2>4, <2>5 DEF HalfWay
  <2>8. sync'.add \subseteq sync'.desired /\ sync'.drop \cap sync'.desired = {}
    BY <2>1, <2>2 DEF HalfWay
  <2>9. QED
    BY <2>6, <2>7, <2>8 DEF HalfWay
<1>7. ASSUME NEW role \in Roles, SyncRevoke(role) PROVE HalfWay'
  <2>1. sync.pc = "assign" /\ role \in sync.drop /\ sync' = [sync EXCEPT !.drop = @ \ {role}]
        /\ rows' = rows \ {[subject |-> sync.user, role |-> role, source |-> "idp"]}
    BY <1>7 DEF SyncRevoke
  <2>2. /\ sync'.user = sync.user /\ sync'.desired = sync.desired /\ sync'.fresh = sync.fresh
        /\ sync'.drop = sync.drop \ {role} /\ sync'.add = sync.add
    BY <1>1, <2>1 DEF Sync
  <2>3. role \notin sync.desired
    BY <2>1 DEF HalfWay
  <2>4. \A r : /\ ByHand(sync.user, r) => ByHand(sync.user, r)'
               /\ ByProvider(sync.user, r)' => ByProvider(sync.user, r) /\ r # role
               /\ ByProvider(sync.user, r) /\ r # role => ByProvider(sync.user, r)'
    BY <2>1, <2>2 DEF ByProvider, ByHand
  <2>5. sync'.fresh => \A r \in Roles : ByProvider(sync.user, r)' => r \in sync'.desired \cup sync'.drop
    BY <2>1, <2>2, <2>4 DEF HalfWay
  <2>6. sync'.fresh => \A r \in sync'.desired :
           r \in sync'.add \/ ByProvider(sync.user, r)' \/ ByHand(sync.user, r)'
    BY <2>1, <2>2, <2>3, <2>4 DEF HalfWay
  <2>7. sync'.add \subseteq sync'.desired /\ sync'.drop \cap sync'.desired = {}
    BY <2>1, <2>2 DEF HalfWay
  <2>8. QED
    BY <2>5, <2>6, <2>7 DEF HalfWay
<1>8. ASSUME NEW w \in Workers, Write(w) PROVE HalfWay'
  BY <1>2, <1>3, <1>8
     DEF Write, CreateUser, FirstPassword, ConstraintFails, SetCredential, SetActive,
         DeleteUser, CreateGroup, DeleteGroup, SetMember, Assign, Unassign, CreateRole,
         UpdateRole, DeleteRole, SetMapping, Commits, tables
<1>9. ASSUME NEW w \in Workers,
             \/ Check(w) \/ Refuse(w)
             \/ \E u \in Users, sudo \in BOOLEAN : Authenticate(w, u, sudo)
             \/ \E c \in Call : Authorize(w, c)
      PROVE  HalfWay'
  BY <1>2, <1>9 DEF Check, Refuse, Authenticate, Authorize, tables
<1>10. CASE UNCHANGED vars
  BY <1>2, <1>10 DEF vars
<1>11. CASE SyncStep
  <2>1. ASSUME NEW role \in Roles, SyncAssign(role), ~Exists(role) PROVE HalfWay'
    BY <1>4, <2>1 DEF SyncAssign
  <2>2. CASE SyncEnd
    BY <1>4, <2>2 DEF SyncEnd
  <2>3. QED
    BY <1>6, <1>7, <1>11, <2>1, <2>2 DEF SyncStep
<1>12. QED
  BY <1>5, <1>8, <1>9, <1>10, <1>11 DEF Next

(* A login that nobody disturbed leaves exactly the desired roles, but for *)
(* those given by hand.                                                    *)
THEOREM SyncReachesDesired == Spec => []SyncConverges
<1>1. Quiet => TypeInv /\ HalfWay
  BY DEF Quiet, TypeInv, Request, Idle, Sync, NoSync, HalfWay
<1>2. TypeInv /\ HalfWay => SyncConverges
  <2> SUFFICES ASSUME TypeInv, HalfWay,
                      sync.pc = "assign", sync.fresh, sync.add = {}, sync.drop = {}
               PROVE  FromProvider(sync.user) = {r \in sync.desired : ~ByHand(sync.user, r)}
    BY DEF SyncConverges, ByHand
  <2>1. \A r : r \in FromProvider(sync.user) <=> r \in Roles /\ ByProvider(sync.user, r)
    BY FromProviderIs DEF TypeInv
  <2>2. sync.desired \subseteq Roles
    <3>1. sync \in Sync
      BY DEF TypeInv
    <3>2. QED
      BY <3>1 DEF Sync
  <2>3. \A r : ~(ByProvider(sync.user, r) /\ ByHand(sync.user, r))
    <3>1. \A x, y \in rows : x.subject = y.subject /\ x.role = y.role => x = y
      BY DEF TypeInv, TypeOK
    <3>2. ASSUME NEW r, ByProvider(sync.user, r), ByHand(sync.user, r) PROVE FALSE
      <4>1. [subject |-> sync.user, role |-> r, source |-> "idp"]
              = [subject |-> sync.user, role |-> r, source |-> "local"]
        BY <3>1, <3>2 DEF ByProvider, ByHand
      <4>2. QED
        BY <4>1
    <3>3. QED
      BY <3>2
  <2>4. QED
    BY <2>1, <2>2, <2>3 DEF HalfWay
<1>3. QED
  BY StepTyped, StepHalfWay, <1>1, <1>2, PTL DEF Spec

=============================================================================
