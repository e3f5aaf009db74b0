------------------------------- MODULE Login --------------------------------
(***************************************************************************)
(* How callers become authenticated: password logins with their throttle,  *)
(* sudo step-ups with their lockout and one-time codes, and logins over an *)
(* OpenID provider.                                                        *)
(*                                                                         *)
(* A call runs in a worker thread and takes several reads and commits; a   *)
(* worker of the model takes them one at a time, so that two calls         *)
(* interleave at each.  The failure counts of the throttle and of the      *)
(* lockout are read and written back in two transactions.  A call that is  *)
(* refused before it changed anything does not appear.                     *)
(***************************************************************************)
EXTENDS Integers, Sequences, FiniteSets

CONSTANTS Workers,
          Names,            \* user names a login may give
          Federated,        \* the name the provider asserts
          MaxFailures,      \* by bucket: failures that lock it
          Window,           \* attempt_window_seconds
          Lockout,          \* lockout_seconds
          SudoTtl, StateTtl, TokenTtl,
          MaxTime, MaxCalls, MaxStates, MaxEnrolments, MaxLosses  \* bounds

\* login_attempts has a row for a user name and one for a client address (the
\* model has one address); sudo_lockouts one for a user (the model has one, Admin).
LoginKeys == Names \cup {"ip"}

Keys == LoginKeys \cup {"sudo"}

None == -1

Time == 0 .. MaxTime

ASSUME LoginAssumption ==
    /\ "ip" \notin Names /\ "sudo" \notin Names
    /\ Federated \in Names
    /\ MaxFailures \in [Keys -> Nat \ {0}]
    /\ {Window, Lockout, SudoTtl, StateTtl, TokenTtl} \subseteq Nat \ {0}
    /\ {MaxTime, MaxStates, MaxEnrolments} \subseteq Nat

VARIABLES now,
          status,      \* of each name: "none", "active", "inactive", "deleted"
          linked,      \* whether the provider's subject has an identity row
          buckets,     \* failed_count, first_failed_at and locked_until of each row
          totp,        \* the one-time code credential of the user that steps up
          grant,       \* that user's row of sudo_grants
          states,      \* table oidc_login_states
          tokens,      \* the tokens logins issued
          req,         \* the call each worker serves
          calls, minted, enrolments,
          \* history
          fails,       \* when the recorded failures happened; None is a success
          overlap,     \* two calls were in progress at once
          accepted,    \* the steps whose one-time codes were accepted, in order
          redeemed     \* how often each login state was redeemed

accountVars == <<status, linked>>

history == <<fails, overlap, accepted, redeemed>>

bounds == <<calls, minted, enrolments>>

vars == <<now, status, linked, buckets, totp, grant, states, tokens, req,
          calls, minted, enrolments, fails, overlap, accepted, redeemed>>

NoRow == [count |-> 0, first |-> None, locked |-> None]

NoTotp == [floor |-> None, id |-> 0]

Idle == [pc |-> "idle"]

Init ==
    /\ now = 0
    /\ status \in {[n \in Names |-> IF n = Federated THEN s ELSE "active"] :
                       s \in {"none", "active"}}
    /\ linked = FALSE
    /\ buckets = [k \in Keys |-> NoRow]
    /\ totp = NoTotp
    /\ grant = [expires |-> None, revoked |-> FALSE]
    /\ states = {}
    /\ tokens = {}
    /\ req = [w \in Workers |-> Idle]
    /\ calls = 0 /\ minted = 0 /\ enrolments = 0
    /\ fails = [k \in Keys |-> <<>>]
    /\ overlap = FALSE
    /\ accepted = <<>>
    /\ redeemed = [s \in 1 .. MaxStates |-> 0]

-----------------------------------------------------------------------------
(* Buckets                                                                 *)

\* Mutant: a lockout is over a moment too early.
LockedMutant(key) == buckets[key].locked > now + 1

Locked(key) == buckets[key].locked > now

\* Mutant: the streak is never restarted.
BumpedMutant(row, key, at) ==
    LET first == IF row.first = None THEN at ELSE row.first
        count == row.count + 1
    IN [count |-> count, first |-> first,
        locked |-> IF count >= MaxFailures[key] THEN at + Lockout ELSE None]

\* A failure later than the window after the first of its streak starts a new one.
Bumped(row, key, at) ==
    LET fresh == row.first # None /\ at - row.first > Window
        first == IF row.first = None \/ fresh THEN at ELSE row.first
        count == IF fresh THEN 1 ELSE row.count + 1
    IN [count |-> count, first |-> first,
        locked |-> IF count >= MaxFailures[key] THEN at + Lockout ELSE None]

\* delete_expired(): unlocked rows whose streak is over; never the sudo lockout.
Swept(key) ==
    /\ key \in LoginKeys
    /\ buckets[key].locked <= now
    /\ buckets[key].first <= now - Window

-----------------------------------------------------------------------------
(* Steps that calls share                                                  *)

Begin(w, r) ==
    /\ req[w] = Idle
    /\ req' = [req EXCEPT ![w] = r]
    /\ overlap' = (overlap \/ \E v \in Workers \ {w} : req[v] # Idle)

\* A callback needs no bound of its own: there are only so many states to present.
Counted(w, r) == Begin(w, r) /\ calls < MaxCalls /\ calls' = calls + 1

Go(w, r) == req' = [req EXCEPT ![w] = r]

At(w, place) == req[w].pc = place

\* The read half of a failure: what the row will be is settled here.
BumpGet(w) ==
    /\ At(w, "get")
    /\ LET r == req[w] IN
       Go(w, [pc |-> "set", name |-> r.name, key |-> r.key, at |-> r.at,
              row |-> Bumped(buckets[r.key], r.key, r.at)])
    /\ UNCHANGED <<now, accountVars, buckets, totp, grant, states, tokens, bounds, history>>

\* The write half.  A login goes on to the bucket of the address.
BumpSet(w) ==
    LET r == req[w] IN
    /\ At(w, "set")
    /\ buckets' = [buckets EXCEPT ![r.key] = r.row]
    /\ fails' = [fails EXCEPT ![r.key] = Append(@, r.at)]
    /\ Go(w, IF r.key \in Names
             THEN [pc |-> "get", name |-> r.name, key |-> "ip", at |-> r.at]
             ELSE Idle)
    /\ UNCHANGED <<now, accountVars, totp, grant, states, tokens, bounds,
                   overlap, accepted, redeemed>>

\* A success deletes the row.
Cleared(w, key, r) ==
    /\ buckets' = [buckets EXCEPT ![key] = NoRow]
    /\ fails' = [fails EXCEPT ![key] = Append(@, None)]
    /\ Go(w, r)
    /\ UNCHANGED <<now, accountVars, totp, grant, states, tokens, bounds,
                   overlap, accepted, redeemed>>

Issue(w) ==
    /\ At(w, "issue")
    /\ tokens' = tokens \cup {[user |-> req[w].name, expires |-> now + TokenTtl]}
    /\ Go(w, Idle)
    /\ UNCHANGED <<now, accountVars, buckets, totp, grant, states, bounds, history>>

-----------------------------------------------------------------------------
(* POST /auth/login                                                        *)

\* was is history: the names that had not lost their access when the call began.
Allowed == {n \in Names : status[n] \in {"none", "active"}}

LoginBegin(w, n) ==
    /\ ~Locked(n) /\ ~Locked("ip")
    /\ Counted(w, [pc |-> "verify", name |-> n, was |-> Allowed])
    /\ UNCHANGED <<now, accountVars, buckets, totp, grant, states, tokens, minted,
                   enrolments, fails, accepted, redeemed>>

\* Mutant: a suspended user may log in.
MayLogInMutant(n) == status[n] \in {"active", "inactive"}

\* Neither unknown, nor suspended, nor deleted.  The bootstrap identity and a user
\* without a password are refused in the same way and are not told apart.
MayLogIn(n) == status[n] = "active"

Verified(w) ==
    /\ At(w, "verify")
    /\ MayLogIn(req[w].name)
    /\ Go(w, [pc |-> "clear", name |-> req[w].name, was |-> req[w].was])
    /\ UNCHANGED <<now, accountVars, buckets, totp, grant, states, tokens, bounds, history>>

\* A wrong password, or a name nobody may log in with: record_failure() reads the
\* clock once and sweeps before it counts.
Rejected(w) ==
    /\ At(w, "verify")
    /\ buckets' = [k \in Keys |-> IF Swept(k) THEN NoRow ELSE buckets[k]]
    /\ Go(w, [pc |-> "get", name |-> req[w].name, key |-> req[w].name, at |-> now])
    /\ UNCHANGED <<now, accountVars, totp, grant, states, tokens, bounds, history>>

ClearName(w) ==
    /\ At(w, "clear")
    /\ Cleared(w, req[w].name, [pc |-> "clear_ip", name |-> req[w].name, was |-> req[w].was])

ClearIp(w) ==
    /\ At(w, "clear_ip")
    /\ Cleared(w, "ip", [pc |-> "issue", name |-> req[w].name, was |-> req[w].was])

-----------------------------------------------------------------------------
(* POST /auth/sudo, for a user who is authenticated and has a password and *)
(* perhaps one-time codes                                                  *)

\* The clock is read once: the failure or the grant is dated back to the check.
StepUpBegin(w, factor) ==
    /\ ~Locked("sudo")
    /\ factor = "totp" => totp # NoTotp
    /\ Counted(w, [pc |-> "step_verify", factor |-> factor, at |-> now])
    /\ UNCHANGED <<now, accountVars, buckets, totp, grant, states, tokens, minted,
                   enrolments, fails, accepted, redeemed>>

PasswordVerified(w) ==
    /\ At(w, "step_verify") /\ req[w].factor = "password"
    /\ Go(w, [pc |-> "unlock", at |-> req[w].at])
    /\ UNCHANGED <<now, accountVars, buckets, totp, grant, states, tokens, bounds, history>>

\* Mutant: the code of the floor itself still matches.
MatchesMutant(step, row) == step >= row.floor

\* find_valid_step(): the current step or a neighbour, above the floor.
Matches(step, row) == step > row.floor

CodeVerified(w, step) ==
    /\ At(w, "step_verify") /\ req[w].factor = "totp"
    /\ totp # NoTotp
    /\ step \in {now - 1, now, now + 1} \cap Nat
    /\ Matches(step, totp)
    /\ Go(w, [pc |-> "touch", at |-> req[w].at, step |-> step, id |-> totp.id])
    /\ UNCHANGED <<now, accountVars, buckets, totp, grant, states, tokens, bounds, history>>

\* touch_last_used() by credential id: a secret enrolled since then is left alone.
Touch(w) ==
    /\ At(w, "touch")
    /\ totp' = IF totp.id = req[w].id THEN [totp EXCEPT !.floor = req[w].step] ELSE totp
    /\ accepted' = Append(accepted, [id |-> req[w].id, step |-> req[w].step])
    /\ Go(w, [pc |-> "unlock", at |-> req[w].at])
    /\ UNCHANGED <<now, accountVars, buckets, grant, states, tokens, bounds,
                   fails, overlap, redeemed>>

StepUpRejected(w) ==
    /\ At(w, "step_verify")
    /\ Go(w, [pc |-> "get", name |-> "sudo", key |-> "sudo", at |-> req[w].at])
    /\ UNCHANGED <<now, accountVars, buckets, totp, grant, states, tokens, bounds, history>>

Unlock(w) ==
    /\ At(w, "unlock")
    /\ Cleared(w, "sudo", [pc |-> "grant", at |-> req[w].at])

\* One grant a user: the one before is replaced.
Grant(w) ==
    /\ At(w, "grant")
    /\ grant' = [expires |-> req[w].at + SudoTtl, revoked |-> FALSE]
    /\ Go(w, Idle)
    /\ UNCHANGED <<now, accountVars, buckets, totp, states, tokens, bounds, history>>

\* DELETE /auth/sudo and DELETE /auth/sudo/grants.
Revoke ==
    /\ ~grant.revoked /\ grant.expires # None
    /\ grant' = [grant EXCEPT !.revoked = TRUE]
    /\ UNCHANGED <<now, accountVars, buckets, totp, states, tokens, req, bounds, history>>

\* POST /auth/me/totp: never over a live enrolment.
EnrollTotp ==
    /\ totp = NoTotp
    /\ enrolments < MaxEnrolments
    /\ enrolments' = enrolments + 1
    /\ totp' = [floor |-> None, id |-> enrolments + 1]
    /\ UNCHANGED <<now, accountVars, buckets, grant, states, tokens, req, calls, minted, history>>

DisableTotp ==
    /\ totp # NoTotp
    /\ totp' = NoTotp
    /\ UNCHANGED <<now, accountVars, buckets, grant, states, tokens, req, bounds, history>>

-----------------------------------------------------------------------------
(* POST /auth/oidc/login and GET /auth/oidc/callback                       *)

\* The sweep, and then a request to the provider before the state is stored.
OidcStart(w) ==
    /\ Counted(w, [pc |-> "store", at |-> now])
    /\ states' = {s \in states : s.expires > now}
    /\ UNCHANGED <<now, accountVars, buckets, totp, grant, tokens, minted,
                   enrolments, fails, accepted, redeemed>>

OidcStore(w) ==
    /\ At(w, "store")
    /\ minted < MaxStates
    /\ minted' = minted + 1
    /\ states' = states \cup {[id |-> minted + 1, expires |-> req[w].at + StateTtl]}
    /\ Go(w, Idle)
    /\ UNCHANGED <<now, accountVars, buckets, totp, grant, tokens, calls, enrolments, history>>

\* The row goes whether it is still valid or not.
Take(s) == states \ {s}

\* A callback may come twice, late or never; one with no stored state is refused.
OidcCallback(w, s) ==
    /\ Begin(w, IF s.expires > now THEN [pc |-> "exchange", was |-> Allowed] ELSE Idle)
    /\ states' = Take(s)
    /\ redeemed' = IF s.expires > now THEN [redeemed EXCEPT ![s.id] = @ + 1] ELSE redeemed
    /\ UNCHANGED <<now, accountVars, buckets, totp, grant, tokens, bounds, fails, accepted>>

\* The provider is unreachable, or its answer is not valid.
ExchangeFails(w) ==
    /\ At(w, "exchange") \/ At(w, "store")
    /\ Go(w, Idle)
    /\ UNCHANGED <<now, accountVars, buckets, totp, grant, states, tokens, bounds, history>>

\* _provision_user(): an identity that is linked, a user of that name, or a new one.
\* The role sync that follows is SyncBegin of Rbac.
Provision(w) ==
    /\ At(w, "exchange")
    /\ status[Federated] \in {"none", "active"}
    /\ status' = [status EXCEPT ![Federated] = "active"]
    /\ Go(w, [pc |-> IF linked THEN "issue" ELSE "link",
              name |-> Federated, was |-> req[w].was])
    /\ UNCHANGED <<now, linked, buckets, totp, grant, states, tokens, bounds, history>>

\* The identity row of a user linked or created; a second one is a duplicate.
Link(w) ==
    /\ At(w, "link")
    /\ linked' = TRUE
    /\ Go(w, IF linked THEN Idle ELSE [pc |-> "issue", name |-> Federated, was |-> req[w].was])
    /\ UNCHANGED <<now, status, buckets, totp, grant, states, tokens, bounds, history>>

-----------------------------------------------------------------------------

\* PATCH and DELETE of a user; the deletion takes the tokens with it.
LoseAccess(n, s) ==
    /\ status[n] \in {"active", "inactive"} /\ status[n] # s
    /\ Cardinality({m \in Names : status[m] \in {"inactive", "deleted"}}) < MaxLosses
    /\ status' = [status EXCEPT ![n] = s]
    /\ tokens' = IF s = "deleted" THEN {t \in tokens : t.user # n} ELSE tokens
    /\ UNCHANGED <<now, linked, buckets, totp, grant, states, req, bounds, history>>

\* find_api_token_credential() and resolve_principal().
Authenticates(t) == t.expires > now /\ status[t.user] = "active"

\* SudoGrantRepository.find_active().
Elevates == ~grant.revoked /\ grant.expires > now

Tick ==
    /\ now < MaxTime
    /\ now' = now + 1
    /\ UNCHANGED <<accountVars, buckets, totp, grant, states, tokens, req, bounds, history>>

Next ==
    \/ \E w \in Workers :
          \/ \E n \in Names : LoginBegin(w, n)
          \/ Verified(w) \/ Rejected(w) \/ ClearName(w) \/ ClearIp(w) \/ Issue(w)
          \/ BumpGet(w) \/ BumpSet(w)
          \/ \E factor \in {"password", "totp"} : StepUpBegin(w, factor)
          \/ PasswordVerified(w) \/ StepUpRejected(w)
          \/ \E step \in 0 .. MaxTime + 1 : CodeVerified(w, step)
          \/ Touch(w) \/ Unlock(w) \/ Grant(w)
          \/ OidcStart(w) \/ OidcStore(w)
          \/ \E s \in states : OidcCallback(w, s)
          \/ ExchangeFails(w) \/ Provision(w) \/ Link(w)
    \/ Revoke \/ EnrollTotp \/ DisableTotp
    \/ \E n \in Names, s \in {"inactive", "deleted"} : LoseAccess(n, s)
    \/ Tick

Spec == Init /\ [][Next]_vars

-----------------------------------------------------------------------------
(* Properties                                                              *)

Row == [count : Nat, first : Time \cup {None}, locked : Nat \cup {None}]

TypeOK ==
    /\ now \in Time
    /\ status \in [Names -> {"none", "active", "inactive", "deleted"}]
    /\ linked \in BOOLEAN /\ overlap \in BOOLEAN
    /\ buckets \in [Keys -> Row]
    /\ \A k \in Keys : (buckets[k].first = None) <=> (buckets[k] = NoRow)
    /\ totp \in [floor : Nat \cup {None}, id : 0 .. MaxEnrolments]
    /\ grant \in [expires : Nat \cup {None}, revoked : BOOLEAN]
    /\ states \subseteq [id : 1 .. MaxStates, expires : Nat]
    /\ tokens \subseteq [user : Names, expires : Nat]
    /\ DOMAIN req = Workers

\* The failures recorded for a bucket from one instant to another.
Failures(key, from, to) == {i \in DOMAIN fails[key] : fails[key][i] \in (from .. to) \ {None}}

\* A bucket is locked only by as many failures as its limit, none later than a window
\* after the one its streak starts with, however the reads and writes of concurrent
\* calls fall.  Unless calls overlapped, when one that read its clock early is dated
\* before the start, they all follow it (LoginThrottle._bump, SudoService._record_failure).
LockJustified ==
    \A k \in Keys : buckets[k].locked # None =>
        LET from == IF overlap THEN 0 ELSE buckets[k].first IN
        Cardinality(Failures(k, from, buckets[k].first + Window)) >= MaxFailures[k]

\* The last failures of a bucket, as many as its limit, follow one another within the
\* window and a quiet window, or a success, comes before the first of them.
Burst(key) ==
    LET n == Len(fails[key])
        m == MaxFailures[key]
        first == fails[key][n - m + 1]
        last == fails[key][n]
    IN /\ n >= m
       /\ \A i \in n - m + 1 .. n : fails[key][i] # None
       /\ last - first < Window
       /\ n > m => fails[key][n - m] = None \/ fails[key][n - m] < first - Window
       /\ now < last + Lockout

\* With calls that do not overlap, a burst of failures locks its bucket for the whole
\* lockout, so that no call is let through to a verification (two that overlap may
\* count as one failure, hence the condition).
BurstLocks == ~overlap => \A k \in Keys : Burst(k) => Locked(k)

\* With step-ups that do not overlap, no one-time code is accepted twice, nor one older
\* than an accepted one (TotpStepUpVerifier, "a verified code can never be replayed").
CodeSpentOnce ==
    ~overlap => \A i, j \in DOMAIN accepted :
        (i < j /\ accepted[i].id = accepted[j].id) => accepted[i].step < accepted[j].step

\* A login state is redeemed at most once, whoever presents it and how often
\* (OidcLoginStateRepository.take, "every row is single-use").
RedeemedOnce == \A s \in DOMAIN redeemed : redeemed[s] <= 1

\* What a user presents once, a one-time code or the state of a login, serves once.
SpentOnce == TypeOK /\ CodeSpentOnce /\ RedeemedOnce

\* A name that had lost its access when a login began gets no token from it, however
\* long the login takes and whichever way it came (_login, _provision_user).
NoTokenForRefused ==
    [][\A t \in tokens' \ tokens : \E w \in Workers :
          /\ Issue(w) /\ req[w].name = t.user
          /\ t.user \in req[w].was]_vars

=============================================================================
