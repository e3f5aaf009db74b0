----------------------------- MODULE LoginProofs -----------------------------
(***************************************************************************)
(* Proofs about Login: its types, that what is presented once serves once, *)
(* that a login begun without access ends without a token, that a lock has *)
(* the failures for it on record, and that a burst of failures locks.      *)
(* They hold for any number of names, workers, failures and instants.      *)
(***************************************************************************)
EXTENDS Login, FiniteSetTheorems, TLAPS

Places ==
    {"idle", "get", "set", "verify", "clear", "clear_ip", "issue", "step_verify",
     "touch", "unlock", "grant", "store", "exchange", "link"}

\* What a call carries at each place.
Typed(r) ==
    /\ r.pc \in Places
    /\ r.pc \in {"get", "set"} => r.key \in Keys
    /\ r.pc \in {"get", "set", "step_verify", "unlock", "grant", "touch", "store"}
          => r.at \in Time
    /\ r.pc = "set" => r.row \in Row /\ r.row.first # None
    /\ r.pc \in {"verify", "clear", "clear_ip", "link", "issue"} => r.name \in Names
    /\ r.pc = "touch" => r.step \in Nat /\ r.id \in 1 .. enrolments

TypeInv ==
    /\ TypeOK
    /\ minted \in 0 .. MaxStates /\ enrolments \in 0 .. MaxEnrolments
    /\ totp # NoTotp => totp.id \in 1 .. enrolments
    /\ \A w \in Workers : Typed(req[w])

-----------------------------------------------------------------------------

(* A failure makes a proper row of any row.                                *)
LEMMA BumpedIsRow ==
    ASSUME NEW row \in Row, NEW key \in Keys, NEW at \in Time
    PROVE  Bumped(row, key, at) \in Row /\ Bumped(row, key, at).first # None
  BY LoginAssumption DEF Bumped, Row, Time, None

(* Init is well typed.                                                     *)
LEMMA InitTyped == Init => TypeInv
<1> SUFFICES ASSUME Init PROVE TypeInv
  OBVIOUS
<1>1. status \in [Names -> {"none", "active", "inactive", "deleted"}]
  BY DEF Init
<1>2. buckets \in [Keys -> Row] /\ \A k \in Keys : buckets[k] = NoRow /\ NoRow.first = None
  BY DEF Init, Row, NoRow, None
<1>3. totp = NoTotp /\ NoTotp \in [floor : Nat \cup {None}, id : 0 .. MaxEnrolments]
  BY LoginAssumption DEF Init, NoTotp, None
<1>4. grant \in [expires : Nat \cup {None}, revoked : BOOLEAN]
  BY DEF Init, None
<1>5. DOMAIN req = Workers /\ \A w \in Workers : Typed(req[w])
  BY DEF Init, Idle, Typed, Places
<1>6. linked \in BOOLEAN /\ overlap \in BOOLEAN
  BY DEF Init
<1>7. /\ now \in Time /\ states = {} /\ tokens = {}
      /\ minted \in 0 .. MaxStates /\ enrolments \in 0 .. MaxEnrolments
  BY LoginAssumption DEF Init, Time
<1>8. QED
  BY <1>1, <1>2, <1>3, <1>4, <1>5, <1>6, <1>7 DEF TypeInv, TypeOK

(* A step of a worker that moves it to a typed place and leaves the rest   *)
(* of what the invariant speaks of keeps it.                               *)
LEMMA Moves ==
    ASSUME TypeInv, NEW w \in Workers, NEW r, Go(w, r), Typed(r),
           UNCHANGED <<minted, enrolments, totp>>, TypeOK'
    PROVE  TypeInv'
  BY DEF TypeInv, TypeOK, Typed, Go

(* The types hold always.                                                  *)
LEMMA StepTyped == TypeInv /\ [Next]_vars => TypeInv'
<1> SUFFICES ASSUME TypeInv, [Next]_vars PROVE TypeInv'
  OBVIOUS
<1> USE LoginAssumption
<1>1. ASSUME NEW w \in Workers, NEW n \in Names, LoginBegin(w, n) PROVE TypeInv'
  BY <1>1 DEF TypeInv, TypeOK, Typed, Places, LoginBegin, Counted, Begin, accountVars
<1>2. ASSUME NEW w \in Workers, Verified(w) PROVE TypeInv'
  BY <1>2 DEF TypeInv, TypeOK, Typed, Places, Verified, At, Go, accountVars, bounds, history
<1>3. ASSUME NEW w \in Workers, Rejected(w) PROVE TypeInv'
  BY <1>3 DEF TypeInv, TypeOK, Typed, Places, Rejected, At, Go, accountVars, bounds, history,
              NoRow, Row, None, Keys, LoginKeys
<1>4. ASSUME NEW w \in Workers, ClearName(w) \/ ClearIp(w) PROVE TypeInv'
  <2>1. PICK key, r : key \in Keys /\ Cleared(w, key, r) /\ Typed(r)
    BY <1>4 DEF TypeInv, Typed, Places, ClearName, ClearIp, At, Keys, LoginKeys
  <2>2. NoRow \in Row /\ NoRow.first = None
    BY DEF NoRow, Row, None
  <2>3. TypeOK'
    BY <2>1, <2>2 DEF TypeInv, TypeOK, Cleared, Go, accountVars, bounds
  <2>4. QED
    BY <2>1, <2>3, Moves DEF Cleared, bounds
<1>5. ASSUME NEW w \in Workers, Issue(w) PROVE TypeInv'
  BY <1>5 DEF TypeInv, TypeOK, Typed, Places, Issue, At, Go, Idle, accountVars, bounds,
              history, Time
<1>6. ASSUME NEW w \in Workers, BumpGet(w) PROVE TypeInv'
  <2>1. LET r == req[w] IN Bumped(buckets[r.key], r.key, r.at) \in Row
                           /\ Bumped(buckets[r.key], r.key, r.at).first # None
    BY <1>6, BumpedIsRow DEF TypeInv, TypeOK, Typed, BumpGet, At
  <2>2. QED
    BY <1>6, <2>1 DEF TypeInv, TypeOK, Typed, Places, BumpGet, At, Go, accountVars, bounds,
                      history
<1>7. ASSUME NEW w \in Workers, BumpSet(w) PROVE TypeInv'
  <2>1. PICK r : Go(w, r) /\ Typed(r)
    <3>1. req[w].at \in Time
      BY <1>7 DEF TypeInv, Typed, BumpSet, At
    <3>2. CASE req[w].key \in Names
      BY <1>7, <3>1, <3>2 DEF Typed, Places, BumpSet, Keys, LoginKeys
    <3>3. CASE req[w].key \notin Names
      BY <1>7, <3>3 DEF Typed, Places, BumpSet, Idle
    <3>4. QED
      BY <3>2, <3>3
  <2>2. req[w].key \in Keys /\ req[w].row \in Row /\ req[w].row.first # None
    BY <1>7 DEF TypeInv, Typed, BumpSet, At
  <2>3. req[w].row # NoRow
    BY <2>2 DEF NoRow
  <2>4. TypeOK'
    BY <1>7, <2>1, <2>2, <2>3 DEF TypeInv, TypeOK, BumpSet, Go, accountVars, bounds
  <2>5. QED
    BY <1>7, <2>1, <2>4, Moves DEF BumpSet, bounds
<1>8. ASSUME NEW w \in Workers, NEW factor, StepUpBegin(w, factor) PROVE TypeInv'
  BY <1>8 DEF TypeInv, TypeOK, Typed, Places, StepUpBegin, Counted, Begin, accountVars
<1>9. ASSUME NEW w \in Workers, PasswordVerified(w) \/ StepUpRejected(w) PROVE TypeInv'
  BY <1>9 DEF TypeInv, TypeOK, Typed, Places, PasswordVerified, StepUpRejected, At, Go,
              accountVars, bounds, history, Keys
<1>10. ASSUME NEW w \in Workers, NEW step \in Nat, CodeVerified(w, step) PROVE TypeInv'
  BY <1>10 DEF TypeInv, TypeOK, Typed, Places, CodeVerified, At, Go, accountVars, bounds,
               history
<1>11. ASSUME NEW w \in Workers, Touch(w) PROVE TypeInv'
  BY <1>11 DEF TypeInv, TypeOK, Typed, Places, Touch, At, Go, accountVars, bounds, NoTotp, None
<1>12. ASSUME NEW w \in Workers, Unlock(w) PROVE TypeInv'
  BY <1>12 DEF TypeInv, TypeOK, Typed, Places, Unlock, Cleared, At, Go, accountVars, bounds,
               NoRow, Row, None, Keys
<1>13. ASSUME NEW w \in Workers, Grant(w) PROVE TypeInv'
  BY <1>13 DEF TypeInv, TypeOK, Typed, Places, Grant, At, Go, Idle, accountVars, bounds,
               history, Time
<1>14. ASSUME NEW w \in Workers, OidcStart(w) PROVE TypeInv'
  BY <1>14 DEF TypeInv, TypeOK, Typed, Places, OidcStart, Counted, Begin, accountVars
<1>15. ASSUME NEW w \in Workers, OidcStore(w) PROVE TypeInv'
  BY <1>15 DEF TypeInv, TypeOK, Typed, Places, OidcStore, At, Go, Idle, accountVars,
               history, Time
<1>16. ASSUME NEW w \in Workers, NEW s \in states, OidcCallback(w, s) PROVE TypeInv'
  BY <1>16 DEF TypeInv, TypeOK, Typed, Places, OidcCallback, Begin, Take, Idle, accountVars,
               bounds
<1>17. ASSUME NEW w \in Workers, ExchangeFails(w) PROVE TypeInv'
  BY <1>17 DEF TypeInv, TypeOK, Typed, Places, ExchangeFails, At, Go, Idle, accountVars,
               bounds, history
<1>18. ASSUME NEW w \in Workers, Provision(w) PROVE TypeInv'
  <2>1. PICK r : Go(w, r) /\ Typed(r)
    <3>1. CASE linked
      BY <1>18, <3>1 DEF Provision, Typed, Places
    <3>2. CASE ~linked
      BY <1>18, <3>2 DEF Provision, Typed, Places
    <3>3. QED
      BY <3>1, <3>2
  <2>2. TypeOK'
    BY <1>18, <2>1 DEF TypeInv, TypeOK, Provision, Go, bounds, history
  <2>3. QED
    BY <1>18, <2>1, <2>2, Moves DEF Provision, bounds
<1>19. ASSUME NEW w \in Workers, Link(w) PROVE TypeInv'
  <2>1. PICK r : Go(w, r) /\ Typed(r)
    <3>1. CASE linked
      BY <1>19, <3>1 DEF Link, Typed, Places, Idle
    <3>2. CASE ~linked
      BY <1>19, <3>2 DEF Link, Typed, Places
    <3>3. QED
      BY <3>1, <3>2
  <2>2. TypeOK'
    BY <1>19, <2>1 DEF TypeInv, TypeOK, Link, Go, bounds, history
  <2>3. QED
    BY <1>19, <2>1, <2>2, Moves DEF Link, bounds
<1>20. ASSUME Revoke \/ DisableTotp PROVE TypeInv'
  <2>1. UNCHANGED <<minted, enrolments, req>> /\ (totp' = totp \/ totp' = NoTotp)
    BY <1>20 DEF Revoke, DisableTotp, bounds
  <2>2. NoTotp \in [floor : Nat \cup {None}, id : 0 .. MaxEnrolments]
    BY DEF NoTotp, None
  <2>3. grant' \in [expires : Nat \cup {None}, revoked : BOOLEAN]
    BY <1>20 DEF TypeInv, TypeOK, Revoke, DisableTotp
  <2>4. TypeOK'
    BY <1>20, <2>1, <2>2, <2>3 DEF TypeInv, TypeOK, Revoke, DisableTotp, accountVars, history
  <2>5. QED
    BY <2>1, <2>4 DEF TypeInv, Typed
<1>21. ASSUME EnrollTotp PROVE TypeInv'
  <2>1. totp' = [floor |-> None, id |-> enrolments + 1] /\ enrolments' = enrolments + 1
        /\ enrolments' \in 1 .. MaxEnrolments /\ UNCHANGED <<minted, req>>
    BY <1>21 DEF EnrollTotp, TypeInv
  <2>2. TypeOK'
    BY <1>21, <2>1 DEF TypeInv, TypeOK, EnrollTotp, accountVars, history
  <2>3. QED
    BY <2>1, <2>2 DEF TypeInv, Typed
<1>22. ASSUME NEW n \in Names, NEW s \in {"inactive", "deleted"}, LoseAccess(n, s)
       PROVE TypeInv'
  BY <1>22 DEF TypeInv, TypeOK, Typed, LoseAccess, bounds, history
<1>23. ASSUME Tick PROVE TypeInv'
  BY <1>23 DEF TypeInv, TypeOK, Typed, Tick, accountVars, bounds, history, Time
<1>24. ASSUME UNCHANGED vars PROVE TypeInv'
  BY <1>24 DEF TypeInv, TypeOK, Typed, vars
<1>25. QED
  BY <1>1, <1>2, <1>3, <1>4, <1>5, <1>6, <1>7, <1>8, <1>9, <1>10, <1>11, <1>12, <1>13, <1>14,
     <1>15, <1>16, <1>17, <1>18, <1>20, <1>22, <1>23, <1>24, <1>19, <1>21 DEF Next

(* Every table and every call in progress keeps its type: what the code    *)
(* reads back is what some step of it wrote.                               *)
THEOREM TypeCorrect == Spec => []TypeOK
<1>1. TypeInv => TypeOK
  BY DEF TypeInv
<1>2. QED
  BY InitTyped, StepTyped, <1>1, PTL DEF Spec

-----------------------------------------------------------------------------
(* No token for who was refused                                            *)

\* What a login keeps from its start: who was allowed then, still allowed or not.
Remembers(r) ==
    /\ r.pc \in {"verify", "clear", "clear_ip", "exchange", "link", "issue"}
          => Allowed \subseteq r.was
    /\ r.pc \in {"clear", "clear_ip", "link", "issue"} => r.name \in r.was
    /\ r.pc = "link" => r.name = Federated

WasInv == \A w \in Workers : Remembers(req[w])

(* Access is lost for good: a name may become allowed by no step.          *)
LEMMA AllowedShrinks == TypeInv /\ [Next]_vars => Allowed' \subseteq Allowed
  BY LoginAssumption
     DEF Allowed, TypeInv, TypeOK, Next, vars, LoginBegin, Verified, Rejected, ClearName,
         ClearIp, Cleared, Issue, BumpGet, BumpSet, StepUpBegin, PasswordVerified,
         StepUpRejected, CodeVerified, Touch, Unlock, Grant, OidcStart, OidcStore,
         OidcCallback, ExchangeFails, Provision, Link, Revoke, EnrollTotp, DisableTotp,
         LoseAccess, Tick, accountVars

(* A login remembers it through all its steps, whatever others do.         *)
LEMMA StepRemembers == TypeInv /\ WasInv /\ [Next]_vars => WasInv'
<1> SUFFICES ASSUME TypeInv, WasInv, [Next]_vars PROVE WasInv'
  OBVIOUS
<1>1. Allowed' \subseteq Allowed
  BY AllowedShrinks
<1>2. ASSUME NEW w \in Workers, NEW r, req' = [req EXCEPT ![w] = r], Remembers(r)
      PROVE  WasInv'
  BY <1>1, <1>2 DEF WasInv, Remembers
<1>3. ASSUME UNCHANGED req PROVE WasInv'
  BY <1>1, <1>3 DEF WasInv, Remembers
<1>4. ASSUME NEW w \in Workers, NEW n \in Names, LoginBegin(w, n) PROVE WasInv'
  <2>1. Remembers([pc |-> "verify", name |-> n, was |-> Allowed])
    BY DEF Remembers
  <2>2. QED
    BY <1>2, <1>4, <2>1 DEF LoginBegin, Counted, Begin
<1>5. ASSUME NEW w \in Workers, Verified(w) PROVE WasInv'
  <2>1. /\ req[w].pc = "verify" /\ req[w].name \in Names /\ status[req[w].name] = "active"
        /\ Allowed \subseteq req[w].was
    BY <1>5 DEF Verified, At, MayLogIn, TypeInv, Typed, WasInv, Remembers
  <2>2. req[w].name \in req[w].was
    BY <2>1 DEF Allowed
  <2>3. QED
    BY <1>2, <1>5, <2>1, <2>2 DEF Verified, Go, Remembers
<1>6. ASSUME NEW w \in Workers, ClearName(w) \/ ClearIp(w) PROVE WasInv'
  <2>1. CASE ClearName(w)
    BY <1>2, <2>1 DEF ClearName, Cleared, At, Go, WasInv, Remembers
  <2>2. CASE ClearIp(w)
    BY <1>2, <2>2 DEF ClearIp, Cleared, At, Go, WasInv, Remembers
  <2>3. QED
    BY <1>6, <2>1, <2>2
<1>7. ASSUME NEW w \in Workers, NEW s \in states, OidcCallback(w, s) PROVE WasInv'
  <2>1. CASE s.expires > now
    BY <1>2, <1>7, <2>1 DEF OidcCallback, Begin, Remembers
  <2>2. CASE ~(s.expires > now)
    BY <1>2, <1>7, <2>2 DEF OidcCallback, Begin, Remembers, Idle
  <2>3. QED
    BY <2>1, <2>2
<1>8. ASSUME NEW w \in Workers, Provision(w) PROVE WasInv'
  <2>1. /\ Allowed \subseteq req[w].was /\ Federated \in Allowed
    BY <1>8, LoginAssumption DEF Provision, At, WasInv, Remembers, Allowed
  <2>2. CASE linked
    BY <1>2, <1>8, <2>1, <2>2 DEF Provision, Go, Remembers
  <2>3. CASE ~linked
    BY <1>2, <1>8, <2>1, <2>3 DEF Provision, Go, Remembers
  <2>4. QED
    BY <2>2, <2>3
<1>9. ASSUME NEW w \in Workers, Link(w) PROVE WasInv'
  <2>1. /\ req[w].pc = "link" /\ Allowed \subseteq req[w].was /\ Federated \in req[w].was
    BY <1>9 DEF Link, At, WasInv, Remembers
  <2>2. CASE linked
    BY <1>2, <1>9, <2>2 DEF Link, Go, Idle, Remembers
  <2>3. CASE ~linked
    BY <1>2, <1>9, <2>1, <2>3 DEF Link, Go, Remembers
  <2>4. QED
    BY <2>2, <2>3
<1>10. ASSUME NEW w \in Workers,
              \/ Rejected(w) \/ Issue(w) \/ BumpGet(w) \/ BumpSet(w)
              \/ PasswordVerified(w) \/ StepUpRejected(w) \/ Touch(w) \/ Unlock(w)
              \/ Grant(w) \/ OidcStart(w) \/ OidcStore(w) \/ ExchangeFails(w)
       PROVE  WasInv'
  BY <1>2, <1>10
     DEF Rejected, Issue, BumpGet, BumpSet, PasswordVerified, StepUpRejected, Touch, Unlock,
         Cleared, Grant, OidcStart, Counted, Begin, OidcStore, ExchangeFails, Go, Idle,
         Remembers
<1>11. ASSUME NEW w \in Workers, NEW factor, StepUpBegin(w, factor) PROVE WasInv'
  BY <1>2, <1>11 DEF StepUpBegin, Counted, Begin, Remembers
<1>12. ASSUME NEW w \in Workers, NEW step, CodeVerified(w, step) PROVE WasInv'
  BY <1>2, <1>12 DEF CodeVerified, Go, Remembers
<1>13. ASSUME \/ Revoke \/ EnrollTotp \/ DisableTotp \/ Tick \/ UNCHANGED vars
              \/ \E n \in Names, s \in {"inactive", "deleted"} : LoseAccess(n, s)
       PROVE  WasInv'
  BY <1>3, <1>13 DEF Revoke, EnrollTotp, DisableTotp, LoseAccess, Tick, vars
<1>14. QED
  BY <1>4, <1>5, <1>6, <1>7, <1>8, <1>9, <1>10, <1>11, <1>12, <1>13 DEF Next

(* A step that adds a token is the last of a login of its user.            *)
LEMMA OnlyIssueAdds ==
    ASSUME [Next]_vars, NEW t \in tokens' \ tokens
    PROVE  \E w \in Workers : Issue(w) /\ req[w].name = t.user
<1>1. CASE \E w \in Workers : Issue(w)
  BY <1>1 DEF Issue
<1>2. CASE ~\E w \in Workers : Issue(w)
  BY <1>2
     DEF Next, vars, LoginBegin, Verified, Rejected, ClearName, ClearIp, Cleared, BumpGet,
         BumpSet, StepUpBegin, PasswordVerified, StepUpRejected, CodeVerified, Touch, Unlock,
         Grant, OidcStart, OidcStore, OidcCallback, ExchangeFails, Provision, Link, Revoke,
         EnrollTotp, DisableTotp, LoseAccess, Tick
<1>3. QED
  BY <1>1, <1>2

(* Whoever had lost access when a login began gets no token from it, for   *)
(* any number of logins, provider logins and losses of access at once.     *)
THEOREM RefusedGetNoToken == Spec => NoTokenForRefused
<1>1. Init => WasInv
  BY DEF Init, WasInv, Remembers, Idle
<1>2. ASSUME WasInv, [Next]_vars
      PROVE  \A t \in tokens' \ tokens : \E w \in Workers :
                /\ Issue(w) /\ req[w].name = t.user
                /\ t.user \in req[w].was
  BY <1>2, OnlyIssueAdds DEF Issue, At, WasInv, Remembers
<1>3. QED
  BY InitTyped, StepTyped, StepRemembers, <1>1, <1>2, PTL DEF Spec, NoTokenForRefused

-----------------------------------------------------------------------------
(* What is presented once serves once                                      *)

\* A state in the table has not been redeemed, and one that is not minted is not there.
StatesInv ==
    /\ redeemed \in [1 .. MaxStates -> 0 .. 1]
    /\ \A s \in states : s.id <= minted /\ redeemed[s.id] = 0
    /\ \A s, t \in states : s.id = t.id => s = t
    /\ \A i \in 1 .. MaxStates : i > minted => redeemed[i] = 0

(* Taking a state removes it whether it is redeemed or too old.            *)
LEMMA StepStates == TypeInv /\ StatesInv /\ [Next]_vars => StatesInv'
<1> SUFFICES ASSUME TypeInv, StatesInv, [Next]_vars PROVE StatesInv'
  OBVIOUS
<1> USE LoginAssumption
<1>1. ASSUME UNCHANGED <<redeemed, minted>>, states' \subseteq states PROVE StatesInv'
  BY <1>1 DEF StatesInv
<1>2. ASSUME NEW w \in Workers, OidcStore(w) PROVE StatesInv'
  <2>1. /\ minted \in Nat /\ minted < MaxStates /\ minted' = minted + 1
        /\ redeemed' = redeemed
    BY <1>2 DEF OidcStore, TypeInv, history
  <2> DEFINE new == [id |-> minted + 1, expires |-> req[w].at + StateTtl]
  <2>2. states' = states \cup {new} /\ new.id = minted + 1
    BY <1>2 DEF OidcStore
  <2> HIDE DEF new
  <2>3. \A s \in states : s.id \in 1 .. MaxStates /\ s.id <= minted
    BY DEF TypeInv, TypeOK, StatesInv
  <2>4. redeemed[minted + 1] = 0 /\ minted + 1 \in 1 .. MaxStates
    BY <2>1 DEF StatesInv
  <2>5. \A s, t \in states' : s.id = t.id => s = t
    BY <2>1, <2>2, <2>3 DEF StatesInv
  <2>6. \A s \in states' : s.id <= minted' /\ redeemed'[s.id] = 0
    BY <2>1, <2>2, <2>3, <2>4 DEF StatesInv
  <2>7. \A i \in 1 .. MaxStates : i > minted' => redeemed'[i] = 0
    BY <2>1 DEF StatesInv
  <2>8. QED
    BY <2>1, <2>5, <2>6, <2>7 DEF StatesInv
<1>3. ASSUME NEW w \in Workers, NEW s \in states, OidcCallback(w, s) PROVE StatesInv'
  <2>1. states' = states \ {s} /\ minted' = minted /\ s.id \in 1 .. MaxStates
    BY <1>3 DEF OidcCallback, Take, bounds, TypeInv, TypeOK
  <2>2. redeemed' = redeemed \/ redeemed' = [redeemed EXCEPT ![s.id] = @ + 1]
    BY <1>3 DEF OidcCallback
  <2>3. redeemed[s.id] = 0 /\ s.id <= minted /\ \A t \in states \ {s} : t.id # s.id
    BY DEF StatesInv
  <2>4. \A t \in states : t.id \in 1 .. MaxStates
    BY DEF TypeInv, TypeOK
  <2>5. CASE redeemed' = redeemed
    BY <2>1, <2>5 DEF StatesInv
  <2>6. CASE redeemed' = [redeemed EXCEPT ![s.id] = @ + 1]
    <3>1. redeemed' \in [1 .. MaxStates -> 0 .. 1]
      BY <2>1, <2>3, <2>6 DEF StatesInv
    <3>2. \A i \in 1 .. MaxStates : i # s.id => redeemed'[i] = redeemed[i]
      BY <2>6 DEF StatesInv
    <3>3. minted \in Nat
      BY DEF TypeInv
    <3>4. QED
      BY <2>1, <2>3, <2>4, <3>1, <3>2, <3>3 DEF StatesInv
  <2>7. QED
    BY <2>2, <2>5, <2>6
<1>4. ASSUME NEW w \in Workers, OidcStart(w) PROVE StatesInv'
  BY <1>1, <1>4 DEF OidcStart
<1>5. ASSUME NEW w \in Workers,
             \/ Verified(w) \/ Rejected(w) \/ ClearName(w) \/ ClearIp(w) \/ Issue(w)
             \/ BumpGet(w) \/ BumpSet(w) \/ PasswordVerified(w) \/ StepUpRejected(w)
             \/ Touch(w) \/ Unlock(w) \/ Grant(w) \/ ExchangeFails(w) \/ Provision(w)
             \/ Link(w)
             \/ \E n \in Names : LoginBegin(w, n)
             \/ \E factor \in {"password", "totp"} : StepUpBegin(w, factor)
             \/ \E step \in 0 .. MaxTime + 1 : CodeVerified(w, step)
      PROVE  StatesInv'
  BY <1>1, <1>5
     DEF Verified, Rejected, ClearName, ClearIp, Cleared, Issue, BumpGet, BumpSet,
         PasswordVerified, StepUpRejected, Touch, Unlock, Grant, ExchangeFails, Provision,
         Link, LoginBegin, StepUpBegin, CodeVerified, bounds, history
<1>6. ASSUME \/ Revoke \/ EnrollTotp \/ DisableTotp \/ Tick \/ UNCHANGED vars
             \/ \E n \in Names, s \in {"inactive", "deleted"} : LoseAccess(n, s)
      PROVE  StatesInv'
  BY <1>1, <1>6 DEF Revoke, EnrollTotp, DisableTotp, LoseAccess, Tick, vars, bounds, history
<1>7. QED
  BY <1>2, <1>3, <1>4, <1>5, <1>6 DEF Next

\* What the history records of an accepted code.
Code == [id : Nat, step : Nat]

(* A sequence with one element more.                                       *)
LEMMA AppendIs ==
    ASSUME NEW S, NEW s \in Seq(S), NEW e \in S
    PROVE  /\ Append(s, e) \in Seq(S)
           /\ DOMAIN s = 1 .. Len(s) /\ Len(s) \in Nat
           /\ DOMAIN Append(s, e) = 1 .. Len(s) + 1
           /\ \A i \in DOMAIN s : Append(s, e)[i] = s[i] /\ s[i] \in S
           /\ Append(s, e)[Len(s) + 1] = e
  OBVIOUS

(* The elements of a sequence over a set are in it.                        *)
LEMMA Elements == ASSUME NEW S, NEW s \in Seq(S) PROVE \A i \in DOMAIN s : s[i] \in S
  OBVIOUS

\* Without overlap one call is in progress at most, no accepted code is above the floor of
\* its credential, and one that is about to be accepted is above them all.
CodesInv ==
    ~overlap =>
        /\ \A v, w \in Workers : req[v] # Idle /\ req[w] # Idle => v = w
        /\ accepted \in Seq(Code) /\ \A i \in DOMAIN accepted : accepted[i].id <= enrolments
        /\ totp # NoTotp =>
              \A i \in DOMAIN accepted :
                  accepted[i].id = totp.id => accepted[i].step <= totp.floor
        /\ \A w \in Workers : req[w].pc = "touch" =>
              \A i \in DOMAIN accepted :
                  accepted[i].id = req[w].id => accepted[i].step < req[w].step
        /\ \A i, j \in DOMAIN accepted :
              (i < j /\ accepted[i].id = accepted[j].id) => accepted[i].step < accepted[j].step

(* Only an overlap brings a second call between a code's check and the     *)
(* write that spends it; a credential enrolled in between has another id.  *)
LEMMA StepCodes == TypeInv /\ CodesInv /\ [Next]_vars => CodesInv'
<1> SUFFICES ASSUME TypeInv, CodesInv, [Next]_vars, ~overlap' PROVE CodesInv'
  BY DEF CodesInv
<1>1. ~overlap
  BY DEF Next, vars, LoginBegin, Verified, Rejected, ClearName, ClearIp, Cleared, Issue,
         BumpGet, BumpSet, StepUpBegin, PasswordVerified, StepUpRejected, CodeVerified, Touch,
         Unlock, Grant, OidcStart, OidcStore, OidcCallback, ExchangeFails, Provision, Link,
         Revoke, EnrollTotp, DisableTotp, LoseAccess, Tick, Counted, Begin, history
<1>2. /\ \A v, w \in Workers : req[v] # Idle /\ req[w] # Idle => v = w
      /\ accepted \in Seq(Code) /\ \A i \in DOMAIN accepted : accepted[i].id <= enrolments
      /\ totp # NoTotp =>
            \A i \in DOMAIN accepted :
                accepted[i].id = totp.id => accepted[i].step <= totp.floor
      /\ \A w \in Workers : req[w].pc = "touch" =>
            \A i \in DOMAIN accepted :
                accepted[i].id = req[w].id => accepted[i].step < req[w].step
      /\ \A i, j \in DOMAIN accepted :
            (i < j /\ accepted[i].id = accepted[j].id) => accepted[i].step < accepted[j].step
  BY <1>1 DEF CodesInv
<1>0. \A i \in DOMAIN accepted : accepted[i] \in Code /\ accepted[i].step \in Nat
  <2>1. \A i \in DOMAIN accepted : accepted[i] \in Code
    BY <1>2, Elements
  <2>2. QED
    BY <2>1 DEF Code
\* A step of the one call in progress that spends no code.
<1>3. ASSUME NEW w \in Workers, NEW r, req' = [req EXCEPT ![w] = r], r.pc # "touch",
             \A v \in Workers \ {w} : req[v] = Idle,
             UNCHANGED <<totp, accepted, enrolments>>
      PROVE  CodesInv'
  BY <1>2, <1>3 DEF CodesInv, TypeInv, TypeOK, Idle
<1>4. ASSUME NEW w \in Workers, req[w].pc # "idle" PROVE \A v \in Workers \ {w} : req[v] = Idle
  BY <1>2, <1>4 DEF Idle
<1>5. ASSUME NEW w \in Workers, NEW r, Begin(w, r), r.pc # "touch",
             UNCHANGED <<totp, accepted, enrolments>>
      PROVE  CodesInv'
  BY <1>3, <1>5 DEF Begin
<1>6. ASSUME NEW w \in Workers,
             \/ OidcStart(w)
             \/ \E n \in Names : LoginBegin(w, n)
             \/ \E factor \in {"password", "totp"} : StepUpBegin(w, factor)
      PROVE  CodesInv'
  BY <1>5, <1>6 DEF OidcStart, LoginBegin, StepUpBegin, Counted
<1>7. ASSUME NEW w \in Workers, NEW s \in states, OidcCallback(w, s) PROVE CodesInv'
  <2>1. CASE s.expires > now
    BY <1>5, <1>7, <2>1 DEF OidcCallback, bounds
  <2>2. CASE ~(s.expires > now)
    BY <1>5, <1>7, <2>2 DEF OidcCallback, bounds, Idle
  <2>3. QED
    BY <2>1, <2>2
<1>8. ASSUME NEW w \in Workers, NEW step \in Nat, CodeVerified(w, step) PROVE CodesInv'
  <2>1. /\ \A v \in Workers \ {w} : req[v] = Idle
        /\ totp # NoTotp /\ step > totp.floor /\ totp.floor \in Nat \cup {None}
        /\ req' = [req EXCEPT ![w] = [pc |-> "touch", at |-> req[w].at, step |-> step,
                                      id |-> totp.id]]
        /\ UNCHANGED <<totp, accepted, enrolments>>
    BY <1>4, <1>8 DEF CodeVerified, At, Go, Matches, bounds, history, TypeInv, TypeOK
  <2>2. \A i \in DOMAIN accepted : accepted[i].id = totp.id => accepted[i].step < step
    BY <1>2, <1>0, <1>8, <2>1 DEF None
  <2>3. /\ req'[w].id = totp.id /\ req'[w].step = step
        /\ \A v \in Workers \ {w} : req'[v] = Idle /\ req'[v].pc # "touch"
    BY <2>1 DEF TypeInv, TypeOK, Idle
  <2>4. \A v \in Workers : req'[v].pc = "touch" =>
           \A i \in DOMAIN accepted' :
               accepted'[i].id = req'[v].id => accepted'[i].step < req'[v].step
    BY <2>1, <2>2, <2>3
  <2>5. \A u, v \in Workers : req'[u] # Idle /\ req'[v] # Idle => u = v
    BY <2>3
  <2>6. QED
    BY <1>2, <2>1, <2>4, <2>5 DEF CodesInv
<1>9. ASSUME NEW w \in Workers, Touch(w) PROVE CodesInv'
  <2> DEFINE new == [id |-> req[w].id, step |-> req[w].step]
  <2>1. /\ \A v \in Workers \ {w} : req[v] = Idle
        /\ new \in Code /\ new.id <= enrolments /\ new.step \in Nat
        /\ accepted' = Append(accepted, new) /\ enrolments' = enrolments
        /\ totp' = IF totp.id = new.id THEN [totp EXCEPT !.floor = new.step] ELSE totp
        /\ req' = [req EXCEPT ![w] = [pc |-> "unlock", at |-> req[w].at]]
    BY <1>4, <1>9 DEF Touch, At, Go, bounds, TypeInv, Typed, Code
  <2>2. \A i \in DOMAIN accepted : accepted[i].id = new.id => accepted[i].step < new.step
    BY <1>2, <1>9 DEF Touch, At
  <2> HIDE DEF new
  <2>3. /\ accepted' \in Seq(Code)
        /\ DOMAIN accepted = 1 .. Len(accepted) /\ Len(accepted) \in Nat
        /\ DOMAIN accepted' = 1 .. Len(accepted) + 1
        /\ \A i \in DOMAIN accepted : accepted'[i] = accepted[i]
        /\ accepted'[Len(accepted) + 1] = new
    BY <1>2, <2>1, AppendIs
  <2>8. \A i \in DOMAIN accepted' : accepted'[i].id <= enrolments'
    BY <1>2, <2>1, <2>3
  <2>4. \A i, j \in DOMAIN accepted' :
           (i < j /\ accepted'[i].id = accepted'[j].id) => accepted'[i].step < accepted'[j].step
    BY <1>2, <2>2, <2>3
  <2>5. totp' # NoTotp =>
           \A i \in DOMAIN accepted' :
               accepted'[i].id = totp'.id => accepted'[i].step <= totp'.floor
    <3>1. new.step \in Nat /\ \A i \in DOMAIN accepted : accepted[i].step \in Nat
      BY <1>0, <2>1
    <3>2. CASE totp.id = new.id
      <4>1. totp'.id = new.id /\ totp'.floor = new.step
        BY <2>1, <3>2 DEF TypeInv, TypeOK
      <4>2. QED
        BY <2>2, <2>3, <3>1, <4>1
    <3>3. CASE totp.id # new.id
      BY <1>2, <2>1, <2>3, <3>3
    <3>4. QED
      BY <3>2, <3>3
  <2>6. \A v \in Workers : req'[v].pc # "touch" /\ (v # w => req'[v] = Idle)
    BY <2>1 DEF TypeInv, TypeOK, Idle
  <2>7. QED
    BY <2>3, <2>4, <2>5, <2>6, <2>8 DEF CodesInv
<1>10. ASSUME NEW w \in Workers,
              \/ Verified(w) \/ Rejected(w) \/ ClearName(w) \/ ClearIp(w) \/ Issue(w)
              \/ BumpGet(w) \/ PasswordVerified(w) \/ StepUpRejected(w) \/ Unlock(w)
              \/ Grant(w) \/ OidcStore(w) \/ ExchangeFails(w)
       PROVE  CodesInv'
  BY <1>3, <1>4, <1>10
     DEF Verified, Rejected, ClearName, ClearIp, Cleared, Issue, BumpGet, PasswordVerified,
         StepUpRejected, Unlock, Grant, OidcStore, ExchangeFails, At, Go, Idle, bounds, history
<1>11. ASSUME NEW w \in Workers, BumpSet(w) PROVE CodesInv'
  <2>1. PICK r : Go(w, r) /\ r.pc # "touch"
    <3>1. CASE req[w].key \in Names
      BY <1>11, <3>1 DEF BumpSet
    <3>2. CASE req[w].key \notin Names
      BY <1>11, <3>2 DEF BumpSet, Idle
    <3>3. QED
      BY <3>1, <3>2
  <2>2. QED
    BY <1>3, <1>4, <1>11, <2>1 DEF BumpSet, At, Go, bounds
<1>12. ASSUME NEW w \in Workers, Provision(w) \/ Link(w) PROVE CodesInv'
  <2>1. PICK r : Go(w, r) /\ r.pc # "touch"
    <3>1. CASE Provision(w) /\ linked
      BY <3>1 DEF Provision
    <3>2. CASE Provision(w) /\ ~linked
      BY <3>2 DEF Provision
    <3>3. CASE Link(w) /\ linked
      BY <3>3 DEF Link, Idle
    <3>4. CASE Link(w) /\ ~linked
      BY <3>4 DEF Link
    <3>5. QED
      BY <1>12, <3>1, <3>2, <3>3, <3>4
  <2>2. QED
    BY <1>3, <1>4, <1>12, <2>1 DEF Provision, Link, At, Go, bounds, history
<1>13. ASSUME EnrollTotp PROVE CodesInv'
  <2>1. /\ totp' = [floor |-> None, id |-> enrolments + 1] /\ enrolments' = enrolments + 1
        /\ enrolments \in Nat /\ UNCHANGED <<accepted, req>>
    BY <1>13, LoginAssumption DEF EnrollTotp, history, TypeInv
  <2>2. \A i \in DOMAIN accepted :
           accepted[i].id <= enrolments' /\ accepted[i].id # totp'.id
    <3>1. \A i \in DOMAIN accepted : accepted[i].id \in Nat
      BY <1>0 DEF Code
    <3>2. QED
      BY <1>2, <2>1, <3>1
  <2>3. QED
    BY <1>2, <2>1, <2>2 DEF CodesInv
<1>14. ASSUME \/ Revoke \/ DisableTotp \/ Tick \/ UNCHANGED vars
              \/ \E n \in Names, s \in {"inactive", "deleted"} : LoseAccess(n, s)
       PROVE  CodesInv'
  <2>1. UNCHANGED <<accepted, req, enrolments>> /\ (totp' = totp \/ totp' = NoTotp)
    BY <1>14 DEF Revoke, DisableTotp, LoseAccess, Tick, vars, bounds, history
  <2>2. QED
    BY <1>2, <2>1 DEF CodesInv
<1>15. QED
  BY <1>6, <1>7, <1>8, <1>9, <1>10, <1>11, <1>12, <1>13, <1>14, LoginAssumption DEF Next

(* A one-time code is accepted once and a login state redeemed once, for   *)
(* any number of calls, credentials and states.                            *)
THEOREM PresentedOnce == Spec => []SpentOnce
<1>1. Init => StatesInv /\ CodesInv
  BY LoginAssumption DEF Init, StatesInv, CodesInv
<1>2. TypeInv /\ StatesInv /\ CodesInv => SpentOnce
  <2> SUFFICES ASSUME TypeInv, StatesInv, CodesInv PROVE SpentOnce
    OBVIOUS
  <2>1. TypeOK
    BY DEF TypeInv
  <2>2. CodeSpentOnce
    BY DEF CodesInv, CodeSpentOnce
  <2>3. RedeemedOnce
    BY LoginAssumption DEF StatesInv, RedeemedOnce
  <2>4. QED
    BY <2>1, <2>2, <2>3 DEF SpentOnce
<1>3. QED
  BY InitTyped, StepTyped, StepStates, StepCodes, <1>1, <1>2, PTL DEF Spec

-----------------------------------------------------------------------------
(* A lock is justified by the failures on record                           *)

Stamps == Seq(Time \cup {None})

\* The failures of a history from one instant to another.
Recent(s, from, to) == {i \in DOMAIN s : s[i] \in (from .. to) \ {None}}

\* A row is locked only at its limit, and counts no more failures than the history has
\* within its window, `due` of them still to be recorded.
Backed(s, early, key, row, due) ==
    /\ row.locked # None => row.count >= MaxFailures[key]
    /\ row.first # None =>
          Cardinality(Recent(s, IF early THEN 0 ELSE row.first, row.first + Window)) + due
              >= row.count

(* There are finitely many failures in a history.                          *)
LEMMA RecentFinite ==
    ASSUME NEW s \in Stamps, NEW from, NEW to
    PROVE  IsFiniteSet(Recent(s, from, to)) /\ Cardinality(Recent(s, from, to)) \in Nat
<1>1. DOMAIN s = 1 .. Len(s) /\ Len(s) \in Nat
  BY DEF Stamps
<1>2. IsFiniteSet(DOMAIN s)
  BY <1>1, FS_Interval
<1>3. Recent(s, from, to) \in SUBSET (DOMAIN s)
  BY DEF Recent
<1>4. QED
  BY <1>2, <1>3, FS_Subset, FS_CardinalityType

(* A history that grows, and an overlap that is noticed, back as much.     *)
LEMMA BackedGrows ==
    ASSUME NEW s \in Stamps, NEW t \in Stamps, NEW key, NEW row \in Row,
           NEW early \in BOOLEAN, NEW early2 \in BOOLEAN, early => early2,
           NEW due \in Nat, Backed(s, early, key, row, due),
           DOMAIN s \subseteq DOMAIN t, \A i \in DOMAIN s : t[i] = s[i]
    PROVE  Backed(t, early2, key, row, due)
<1> DEFINE from  == IF early THEN 0 ELSE row.first
           from2 == IF early2 THEN 0 ELSE row.first
           to    == row.first + Window
<1>1. SUFFICES ASSUME row.first # None
               PROVE  Cardinality(Recent(t, from2, to)) + due >= row.count
  BY DEF Backed
<1>2. row.first \in Time /\ row.count \in Nat /\ to \in Int
  BY <1>1, LoginAssumption DEF Row, Time
<1>3. from \in Int /\ from2 \in Int /\ from2 <= from
  BY <1>2 DEF Time
<1> HIDE DEF from, from2, to
<1>4. Recent(s, from, to) \subseteq Recent(t, from2, to)
  BY <1>2, <1>3 DEF Recent
<1>5. Cardinality(Recent(s, from, to)) <= Cardinality(Recent(t, from2, to))
  BY <1>4, RecentFinite, FS_Subset
<1>6. Cardinality(Recent(s, from, to)) + due >= row.count
  BY <1>1 DEF Backed, from, to
<1>7. Cardinality(Recent(s, from, to)) \in Nat /\ Cardinality(Recent(t, from2, to)) \in Nat
  BY RecentFinite
<1>8. QED
  BY <1>2, <1>5, <1>6, <1>7

(* The failure a row was waiting for is recorded.                          *)
LEMMA BackedCounts ==
    ASSUME NEW s \in Stamps, NEW key, NEW row \in Row, NEW at \in Time,
           NEW early \in BOOLEAN, Backed(s, early, key, row, 1),
           row.first # None, at <= row.first + Window, ~early => row.first <= at
    PROVE  Backed(Append(s, at), early, key, row, 0)
<1> DEFINE from == IF early THEN 0 ELSE row.first
           to   == row.first + Window
           t    == Append(s, at)
           n    == Len(s) + 1
<1>1. /\ DOMAIN s = 1 .. Len(s) /\ Len(s) \in Nat
      /\ DOMAIN t = 1 .. n
      /\ \A i \in DOMAIN s : t[i] = s[i]
      /\ t[n] = at
      /\ t \in Stamps
  BY AppendIs DEF Stamps
<1>2. row.first \in Time /\ row.count \in Nat /\ to \in Int /\ from \in Int
  BY LoginAssumption DEF Row, Time
<1>3. at \in (from .. to) \ {None}
  BY <1>2 DEF Time, None
<1>4. Cardinality(Recent(s, from, to)) + 1 >= row.count
  BY DEF Backed
<1> HIDE DEF from, to, t
<1>5. Recent(s, from, to) \cup {n} \subseteq Recent(t, from, to) /\ n \notin Recent(s, from, to)
  BY <1>1, <1>3 DEF Recent
<1>6. Cardinality(Recent(s, from, to) \cup {n}) = Cardinality(Recent(s, from, to)) + 1
  BY <1>5, RecentFinite, FS_AddElement
<1>7. Cardinality(Recent(s, from, to) \cup {n}) <= Cardinality(Recent(t, from, to))
  BY <1>1, <1>5, RecentFinite, FS_Subset
<1>8. Cardinality(Recent(t, from, to)) + 0 >= row.count
  BY <1>1, <1>2, <1>4, <1>6, <1>7, RecentFinite
<1>9. row.locked # None => row.count >= MaxFailures[key]
  BY DEF Backed
<1>10. QED
  BY <1>8, <1>9 DEF Backed, from, to, t

(* Counting a failure keeps the row backed, with that failure still due.   *)
LEMMA BumpedBacked ==
    ASSUME NEW s \in Stamps, NEW key \in Keys, NEW row \in Row, NEW at \in Time,
           NEW early \in BOOLEAN, Backed(s, early, key, row, 0),
           row.first = None => row = NoRow, ~early => row.first <= at
    PROVE  LET b == Bumped(row, key, at) IN
           /\ b \in Row /\ b.first # None
           /\ b.first \in {row.first, at}
           /\ Backed(s, early, key, b, 1)
           /\ at <= b.first + Window
           /\ ~early => b.first <= at
<1> DEFINE b == Bumped(row, key, at)
<1>1. b \in Row /\ b.first # None
  BY BumpedIsRow
<1>2. b.locked # None => b.count >= MaxFailures[key]
  BY DEF Bumped, None
<1>3. CASE row.first # None /\ ~(at - row.first > Window)
  <2>1. b.first = row.first /\ b.count = row.count + 1
    BY <1>3 DEF Bumped
  <2>2. row.first \in Time /\ row.count \in Nat
    BY <1>3 DEF Row
  <2>3. at <= row.first + Window
    BY <1>3, <2>2, LoginAssumption DEF Time
  <2> DEFINE c == Cardinality(Recent(s, IF early THEN 0 ELSE row.first, row.first + Window))
  <2>4. c \in Nat /\ c + 0 >= row.count
    BY <1>3, RecentFinite DEF Backed
  <2> HIDE DEF c
  <2>5. c + 1 >= b.count
    BY <2>1, <2>2, <2>4
  <2>6. Backed(s, early, key, b, 1)
    BY <1>2, <2>1, <2>5 DEF Backed, c
  <2>7. QED
    BY <1>1, <2>1, <2>3, <2>6
<1>4. CASE row.first = None \/ at - row.first > Window
  <2>1. b.first = at /\ b.count = 1
    BY <1>4 DEF Bumped, NoRow
  <2> DEFINE c == Cardinality(Recent(s, IF early THEN 0 ELSE at, at + Window))
  <2>2. c \in Nat
    BY RecentFinite
  <2> HIDE DEF c
  <2>3. c + 1 >= b.count
    BY <2>1, <2>2
  <2>4. Backed(s, early, key, b, 1)
    BY <1>2, <2>1, <2>3 DEF Backed, c
  <2>5. at <= at + Window
    BY LoginAssumption DEF Time
  <2>6. QED
    BY <1>1, <2>1, <2>4, <2>5 DEF Time
<1>5. QED
  BY <1>3, <1>4

\* A call that carries the instant its failure happens at.
Timed(r) == r.pc \in {"get", "set", "step_verify"}

\* The failure a call is about to record: the row it will write counts one more than is
\* on record, and is of a streak the failure belongs to.
Due(r, time, hist, early) ==
    /\ Timed(r) => r.at <= time
    /\ r.pc = "set" =>
          /\ Backed(hist[r.key], early, r.key, r.row, 1)
          /\ r.row.first <= time /\ r.at <= r.row.first + Window
          /\ ~early => r.row.first <= r.at

OneCall == \A v, w \in Workers : req[v] # Idle /\ req[w] # Idle => v = w

LockInv ==
    /\ fails \in [Keys -> Stamps]
    /\ \A k \in Keys : buckets[k].first <= now /\ Backed(fails[k], overlap, k, buckets[k], 0)
    /\ \A w \in Workers : Due(req[w], now, fails, overlap)
    /\ ~overlap =>
          /\ OneCall
          /\ \A w \in Workers : Timed(req[w]) => \A k \in Keys : buckets[k].first <= req[w].at

\* One history goes on from another.
Extends(h, g) ==
    \A k \in Keys : DOMAIN h[k] \subseteq DOMAIN g[k] /\ \A i \in DOMAIN h[k] : g[k][i] = h[k][i]

(* What a call is about to record stays due while others record theirs.    *)
LEMMA DueGrows ==
    ASSUME NEW r, NEW h \in [Keys -> Stamps], NEW g \in [Keys -> Stamps], Extends(h, g),
           NEW early \in BOOLEAN, NEW early2 \in BOOLEAN, early => early2,
           NEW t \in Time, NEW t2 \in Time, t <= t2,
           Typed(r), Due(r, t, h, early)
    PROVE  Due(r, t2, g, early2)
<1>1. Timed(r) => r.at <= t2
  BY DEF Due, Timed, Typed, Time
<1>2. ASSUME r.pc = "set"
      PROVE  /\ Backed(g[r.key], early2, r.key, r.row, 1)
             /\ r.row.first <= t2 /\ r.at <= r.row.first + Window
             /\ ~early2 => r.row.first <= r.at
  <2>1. r.key \in Keys /\ r.row \in Row /\ r.row.first \in Time
    BY <1>2 DEF Typed, Row
  <2>2. Backed(h[r.key], early, r.key, r.row, 1)
    BY <1>2 DEF Due
  <2>3. h[r.key] \in Stamps /\ g[r.key] \in Stamps
    BY <2>1
  <2>4. Backed(g[r.key], early2, r.key, r.row, 1)
    BY <2>1, <2>2, <2>3, BackedGrows DEF Extends
  <2>5. QED
    BY <1>2, <2>1, <2>4 DEF Due, Time
<1>3. QED
  BY <1>1, <1>2 DEF Due

(* A step of one call keeps the locks justified when what it writes and    *)
(* what it goes on to do are.                                              *)
LEMMA LockMoves ==
    ASSUME TypeInv, TypeInv', LockInv, NEW w \in Workers, NEW r,
           req' = [req EXCEPT ![w] = r], now' = now, overlap => overlap',
           ~overlap' => \A v \in Workers \ {w} : req[v] = Idle,
           fails' \in [Keys -> Stamps], Extends(fails, fails'),
           \A k \in Keys : buckets'[k].first <= now
                           /\ Backed(fails'[k], overlap', k, buckets'[k], 0),
           Due(r, now, fails', overlap'),
           ~overlap' /\ Timed(r) => \A k \in Keys : buckets'[k].first <= r.at
    PROVE  LockInv'
<1>1. req'[w] = r /\ \A v \in Workers \ {w} : req'[v] = req[v]
  BY DEF TypeInv, TypeOK
<1>2. now \in Time /\ overlap \in BOOLEAN /\ overlap' \in BOOLEAN
  BY DEF TypeInv, TypeOK
<1>3. now <= now
  BY <1>2 DEF Time
<1>4. \A v \in Workers \ {w} : Due(req[v], now, fails', overlap')
  <2> TAKE v \in Workers \ {w}
  <2>1. Typed(req[v]) /\ Due(req[v], now, fails, overlap) /\ fails \in [Keys -> Stamps]
    BY DEF TypeInv, LockInv
  <2>2. QED
    BY <1>2, <1>3, <2>1, DueGrows
<1>5. \A v \in Workers : Due(req'[v], now', fails', overlap')
  BY <1>1, <1>4
<1>6. ~overlap' => OneCall'
  BY <1>1 DEF OneCall, Idle
<1>7. ~overlap' => \A v \in Workers : Timed(req'[v]) => \A k \in Keys : buckets'[k].first <= req'[v].at
  BY <1>1 DEF Timed, Idle
<1>8. QED
  BY <1>5, <1>6, <1>7 DEF LockInv

(* A history goes on from itself, and one more entry of a bucket is a      *)
(* history that goes on.                                                   *)
LEMMA HistoryGrows ==
    ASSUME NEW h \in [Keys -> Stamps], NEW key \in Keys, NEW e \in Time \cup {None}
    PROVE  /\ Extends(h, h)
           /\ [h EXCEPT ![key] = Append(@, e)] \in [Keys -> Stamps]
           /\ Extends(h, [h EXCEPT ![key] = Append(@, e)])
<1>1. h[key] \in Seq(Time \cup {None})
  BY DEF Stamps
<1>2. /\ Append(h[key], e) \in Stamps
      /\ DOMAIN h[key] \subseteq DOMAIN Append(h[key], e)
      /\ \A i \in DOMAIN h[key] : Append(h[key], e)[i] = h[key][i]
  BY <1>1, AppendIs DEF Stamps
<1> DEFINE g == [h EXCEPT ![key] = Append(@, e)]
<1>3. g[key] = Append(h[key], e) /\ \A k \in Keys \ {key} : g[k] = h[k]
  OBVIOUS
<1>4. g \in [Keys -> Stamps]
  BY <1>2, <1>3
<1> HIDE DEF g
<1>5. Extends(h, g)
  BY <1>2, <1>3 DEF Extends
<1>6. QED
  BY <1>4, <1>5 DEF Extends, g

(* The locks stay justified through every step.                            *)
LEMMA StepLocks == TypeInv /\ TypeInv' /\ LockInv /\ [Next]_vars => LockInv'
<1> SUFFICES ASSUME TypeInv, TypeInv', LockInv, [Next]_vars PROVE LockInv'
  OBVIOUS
<1>1. /\ now \in Time /\ overlap \in BOOLEAN /\ overlap' \in BOOLEAN
      /\ fails \in [Keys -> Stamps] /\ buckets \in [Keys -> Row] /\ buckets' \in [Keys -> Row]
      /\ DOMAIN req = Workers
      /\ \A k \in Keys : fails[k] \in Stamps
  BY DEF TypeInv, TypeOK, LockInv
<1>2. \A k \in Keys : buckets[k].first \in Time \cup {None}
                      /\ buckets[k].first <= now /\ Backed(fails[k], overlap, k, buckets[k], 0)
  BY <1>1 DEF LockInv, Row
<1>3. Extends(fails, fails)
  BY DEF Extends
\* While one call is in progress the others are idle.
<1>4. ASSUME NEW w \in Workers, req[w].pc # "idle", ~overlap
      PROVE  \A v \in Workers \ {w} : req[v] = Idle
  BY <1>4 DEF LockInv, OneCall, Idle
\* A step that leaves the rows and the history alone.
<1>5. ASSUME NEW w \in Workers, NEW r, req' = [req EXCEPT ![w] = r],
             UNCHANGED <<now, buckets, fails>>, overlap => overlap',
             ~overlap' => \A v \in Workers \ {w} : req[v] = Idle,
             Due(r, now, fails, overlap'),
             ~overlap' /\ Timed(r) => \A k \in Keys : buckets[k].first <= r.at
      PROVE  LockInv'
  <2>1. \A k \in Keys : Backed(fails[k], overlap', k, buckets[k], 0)
    <3> TAKE k \in Keys
    <3>1. buckets[k] \in Row /\ fails[k] \in Stamps /\ Backed(fails[k], overlap, k, buckets[k], 0)
      BY <1>1, <1>2
    <3>2. QED
      BY <1>1, <1>5, <3>1, BackedGrows
  <2>2. QED
    BY <1>1, <1>2, <1>3, <1>5, <2>1, LockMoves
<1>6. ASSUME NEW w \in Workers, NEW r, Begin(w, r), r.pc # "get", r.pc # "set",
             r.pc = "step_verify" => r.at = now, UNCHANGED <<now, buckets, fails>>
      PROVE  LockInv'
  <2>1. /\ req' = [req EXCEPT ![w] = r] /\ (overlap => overlap')
        /\ (~overlap' => \A v \in Workers \ {w} : req[v] = Idle)
    BY <1>6 DEF Begin
  <2>2. Due(r, now, fails, overlap')
    BY <1>1, <1>6 DEF Due, Timed, Time
  <2>3. Timed(r) => \A k \in Keys : buckets[k].first <= r.at
    BY <1>2, <1>6 DEF Timed
  <2>4. QED
    BY <1>5, <1>6, <2>1, <2>2, <2>3
<1>7. ASSUME NEW w \in Workers, NEW r, Go(w, r), req[w].pc # "idle", ~Timed(r),
             UNCHANGED <<now, buckets, fails, overlap>>
      PROVE  LockInv'
  <2>1. Due(r, now, fails, overlap')
    BY <1>7 DEF Due, Timed
  <2>2. QED
    BY <1>4, <1>5, <1>7, <2>1 DEF Go
<1>8. ASSUME NEW w \in Workers, Rejected(w) PROVE LockInv'
  <2> DEFINE r == [pc |-> "get", name |-> req[w].name, key |-> req[w].name, at |-> now]
  <2>1. /\ req' = [req EXCEPT ![w] = r] /\ UNCHANGED <<now, fails, overlap>>
        /\ \A k \in Keys : buckets'[k] = buckets[k] \/ buckets'[k] = NoRow
        /\ req[w].pc = "verify"
    BY <1>8 DEF Rejected, Go, At, history
  <2>2. Due(r, now, fails', overlap')
    BY <1>1 DEF Due, Timed, Time
  <2>3. \A k \in Keys : buckets'[k].first <= now /\ Backed(fails[k], overlap, k, buckets'[k], 0)
    <3> TAKE k \in Keys
    <3>1. CASE buckets'[k] = buckets[k]
      BY <1>2, <3>1
    <3>2. CASE buckets'[k] = NoRow
      BY <1>1, <3>2 DEF NoRow, None, Backed, Time
    <3>3. QED
      BY <2>1, <3>1, <3>2
  <2>4. r.at = now
    OBVIOUS
  <2> HIDE DEF r
  <2>5. ~overlap' => \A v \in Workers \ {w} : req[v] = Idle
    BY <1>4, <2>1
  <2>6. QED
    BY <1>1, <1>3, <2>1, <2>2, <2>3, <2>4, <2>5, LockMoves
<1>9. ASSUME NEW w \in Workers, NEW key \in Keys, NEW r, Cleared(w, key, r),
             req[w].pc # "idle", ~Timed(r)
      PROVE  LockInv'
  <2>1. /\ req' = [req EXCEPT ![w] = r] /\ UNCHANGED <<now, overlap>>
        /\ buckets' = [buckets EXCEPT ![key] = NoRow]
        /\ fails' = [fails EXCEPT ![key] = Append(@, None)]
    BY <1>9 DEF Cleared, Go
  <2>2. fails' \in [Keys -> Stamps] /\ Extends(fails, fails')
    BY <1>1, <2>1, HistoryGrows
  <2>3. \A k \in Keys : buckets'[k].first <= now /\ Backed(fails'[k], overlap', k, buckets'[k], 0)
    <3> TAKE k \in Keys
    <3>1. CASE k = key
      <4>1. buckets'[k] = NoRow
        BY <1>1, <2>1, <3>1
      <4>2. QED
        BY <1>1, <4>1 DEF NoRow, None, Backed, Time
    <3>2. CASE k # key
      BY <1>1, <1>2, <2>1, <3>2
    <3>3. QED
      BY <3>1, <3>2
  <2>4. Due(r, now, fails', overlap')
    BY <1>9 DEF Due, Timed
  <2>5. ~overlap' => \A v \in Workers \ {w} : req[v] = Idle
    BY <1>4, <1>9, <2>1
  <2>6. QED
    BY <1>9, <2>1, <2>2, <2>3, <2>4, <2>5, LockMoves
<1>10. ASSUME NEW w \in Workers, BumpGet(w) PROVE LockInv'
  <2> DEFINE key == req[w].key
             at  == req[w].at
             b   == Bumped(buckets[key], key, at)
             r   == [pc |-> "set", name |-> req[w].name, key |-> key, at |-> at, row |-> b]
  <2>1. /\ req' = [req EXCEPT ![w] = r] /\ UNCHANGED <<now, buckets, fails, overlap>>
        /\ req[w].pc = "get"
    BY <1>10 DEF BumpGet, Go, At, history
  <2>2. key \in Keys /\ at \in Time /\ at <= now
    BY <2>1 DEF TypeInv, Typed, LockInv, Due, Timed
  <2>3. buckets[key] \in Row /\ (buckets[key].first = None => buckets[key] = NoRow)
    BY <2>2 DEF TypeInv, TypeOK
  <2>4. ~overlap => buckets[key].first <= at
    BY <2>1, <2>2 DEF LockInv, Timed
  <2>5. r.pc = "set" /\ r.key = key /\ r.at = at /\ r.row = b
    OBVIOUS
  <2> HIDE DEF r
  <2>6. /\ b \in Row /\ b.first \in {buckets[key].first, at}
        /\ Backed(fails[key], overlap, key, b, 1)
        /\ at <= b.first + Window /\ (~overlap => b.first <= at)
    BY <1>1, <1>2, <2>2, <2>3, <2>4, BumpedBacked
  <2> HIDE DEF b
  <2>7. b.first <= now
    BY <1>2, <2>2, <2>6
  <2>8. Due(r, now, fails, overlap)
    BY <2>2, <2>5, <2>6, <2>7 DEF Due, Timed
  <2>9. ~overlap => \A k \in Keys : buckets[k].first <= r.at
    BY <2>1, <2>5 DEF LockInv, Timed
  <2>10. QED
    BY <1>4, <1>5, <2>1, <2>8, <2>9
<1>11. ASSUME NEW w \in Workers, BumpSet(w) PROVE LockInv'
  <2> DEFINE key == req[w].key
             at  == req[w].at
             row == req[w].row
  <2>1. PICK r : /\ req' = [req EXCEPT ![w] = r]
                 /\ r.pc # "set" /\ (Timed(r) => r.at = at)
    <3>1. CASE key \in Names
      <4> DEFINE s == [pc |-> "get", name |-> req[w].name, key |-> "ip", at |-> at]
      <4>1. req' = [req EXCEPT ![w] = s] /\ s.pc # "set" /\ s.at = at
        BY <1>11, <3>1 DEF BumpSet, Go
      <4> HIDE DEF s
      <4>2. QED
        BY <4>1
    <3>2. CASE key \notin Names
      <4>1. req' = [req EXCEPT ![w] = Idle] /\ Idle.pc # "set" /\ ~Timed(Idle)
        BY <1>11, <3>2 DEF BumpSet, Go, Timed, Idle
      <4>2. QED
        BY <4>1
    <3>3. QED
      BY <3>1, <3>2
  <2>2. /\ req[w].pc = "set" /\ UNCHANGED <<now, overlap>>
        /\ buckets' = [buckets EXCEPT ![key] = row]
        /\ fails' = [fails EXCEPT ![key] = Append(@, at)]
    BY <1>11 DEF BumpSet, At
  <2>3. key \in Keys /\ at \in Time /\ at <= now /\ row \in Row /\ row.first # None
    BY <2>2 DEF TypeInv, Typed, LockInv, Due, Timed
  <2>4. /\ Backed(fails[key], overlap, key, row, 1)
        /\ row.first <= now /\ at <= row.first + Window
        /\ (~overlap => row.first <= at)
    BY <2>2 DEF LockInv, Due
  <2>5. ~overlap => \A k \in Keys : buckets[k].first <= at
    BY <2>2 DEF LockInv, Timed
  <2> HIDE DEF key, at, row
  <2>6. fails' \in [Keys -> Stamps] /\ Extends(fails, fails')
    BY <1>1, <2>2, <2>3, HistoryGrows
  <2>7. fails[key] \in Stamps /\ fails'[key] = Append(fails[key], at)
        /\ buckets'[key] = row
        /\ \A k \in Keys \ {key} : fails'[k] = fails[k] /\ buckets'[k] = buckets[k]
    BY <1>1, <2>2, <2>3
  <2>8. Backed(fails'[key], overlap, key, row, 0)
    BY <1>1, <2>3, <2>4, <2>7, BackedCounts
  <2>9. \A k \in Keys : buckets'[k].first <= now /\ Backed(fails'[k], overlap', k, buckets'[k], 0)
    <3> TAKE k \in Keys
    <3>1. CASE k = key
      BY <2>2, <2>4, <2>7, <2>8, <3>1
    <3>2. CASE k # key
      BY <1>2, <2>2, <2>7, <3>2
    <3>3. QED
      BY <3>1, <3>2
  <2>10. Due(r, now, fails', overlap')
    BY <2>1, <2>3 DEF Due
  <2>11. ~overlap => \A k \in Keys : buckets'[k].first <= at
    <3> SUFFICES ASSUME ~overlap, NEW k \in Keys PROVE buckets'[k].first <= at
      OBVIOUS
    <3>1. CASE k = key
      BY <2>4, <2>7, <3>1
    <3>2. CASE k # key
      BY <2>5, <2>7, <3>2
    <3>3. QED
      BY <3>1, <3>2
  <2>12. ~overlap' => \A v \in Workers \ {w} : req[v] = Idle
    BY <1>4, <2>2
  <2>13. QED
    BY <2>1, <2>2, <2>6, <2>9, <2>10, <2>11, <2>12, LockMoves
<1>12. ASSUME NEW w \in Workers, StepUpRejected(w) PROVE LockInv'
  <2> DEFINE r == [pc |-> "get", name |-> "sudo", key |-> "sudo", at |-> req[w].at]
  <2>1. /\ req' = [req EXCEPT ![w] = r] /\ UNCHANGED <<now, buckets, fails, overlap>>
        /\ req[w].pc = "step_verify"
    BY <1>12 DEF StepUpRejected, Go, At, history
  <2>2. /\ req[w].at <= now
        /\ ~overlap => \A k \in Keys : buckets[k].first <= req[w].at
    BY <2>1 DEF LockInv, Due, Timed
  <2>3. Due(r, now, fails, overlap)
    BY <2>2 DEF Due, Timed
  <2>4. r.at = req[w].at
    OBVIOUS
  <2> HIDE DEF r
  <2>5. QED
    BY <1>4, <1>5, <2>1, <2>2, <2>3, <2>4
<1>13. ASSUME UNCHANGED <<buckets, fails, req, overlap>>, now' \in Time, now <= now'
       PROVE  LockInv'
  <2>1. \A w \in Workers : Due(req[w], now', fails, overlap)
    <3> TAKE w \in Workers
    <3>1. Typed(req[w]) /\ Due(req[w], now, fails, overlap)
      BY DEF TypeInv, LockInv
    <3>2. QED
      BY <1>1, <1>3, <1>13, <3>1, DueGrows
  <2>2. \A k \in Keys : buckets[k].first <= now'
    BY <1>1, <1>2, <1>13 DEF Time, None
  <2>3. OneCall' <=> OneCall
    BY <1>13 DEF OneCall
  <2>4. QED
    BY <1>13, <2>1, <2>2, <2>3 DEF LockInv
\* Now the actions, by the kind of step each is.
<1>14. ASSUME NEW w \in Workers, NEW n \in Names, LoginBegin(w, n) PROVE LockInv'
  BY <1>6, <1>14 DEF LoginBegin, Counted
<1>15. ASSUME NEW w \in Workers, NEW factor, StepUpBegin(w, factor) PROVE LockInv'
  BY <1>6, <1>15 DEF StepUpBegin, Counted
<1>16. ASSUME NEW w \in Workers, OidcStart(w) PROVE LockInv'
  BY <1>6, <1>16 DEF OidcStart, Counted
<1>17. ASSUME NEW w \in Workers, NEW s \in states, OidcCallback(w, s) PROVE LockInv'
  <2>1. CASE s.expires > now
    BY <1>6, <1>17, <2>1 DEF OidcCallback
  <2>2. CASE ~(s.expires > now)
    BY <1>6, <1>17, <2>2 DEF OidcCallback, Idle
  <2>3. QED
    BY <2>1, <2>2
<1>18. ASSUME NEW w \in Workers,
              \/ Verified(w) \/ Issue(w) \/ PasswordVerified(w) \/ Touch(w) \/ Grant(w)
              \/ OidcStore(w) \/ ExchangeFails(w)
              \/ \E step \in 0 .. MaxTime + 1 : CodeVerified(w, step)
       PROVE  LockInv'
  BY <1>7, <1>18
     DEF Verified, Issue, PasswordVerified, Touch, Grant, OidcStore, ExchangeFails, CodeVerified,
         At, Timed, Idle, bounds, history
<1>19. ASSUME NEW w \in Workers, Provision(w) \/ Link(w) PROVE LockInv'
  <2>1. PICK r : Go(w, r) /\ ~Timed(r)
    <3>1. CASE Provision(w) /\ linked
      BY <3>1 DEF Provision, Timed
    <3>2. CASE Provision(w) /\ ~linked
      BY <3>2 DEF Provision, Timed
    <3>3. CASE Link(w) /\ linked
      BY <3>3 DEF Link, Idle, Timed
    <3>4. CASE Link(w) /\ ~linked
      BY <3>4 DEF Link, Timed
    <3>5. QED
      BY <1>19, <3>1, <3>2, <3>3, <3>4
  <2>2. QED
    BY <1>7, <1>19, <2>1 DEF Provision, Link, At, bounds, history
<1>20. ASSUME NEW w \in Workers, ClearName(w) \/ ClearIp(w) \/ Unlock(w) PROVE LockInv'
  <2>1. PICK key, r : key \in Keys /\ Cleared(w, key, r) /\ ~Timed(r) /\ req[w].pc # "idle"
    BY <1>20 DEF TypeInv, Typed, ClearName, ClearIp, Unlock, At, Keys, LoginKeys, Timed
  <2>2. QED
    BY <1>9, <2>1
<1>21. ASSUME \/ Revoke \/ EnrollTotp \/ DisableTotp \/ Tick \/ UNCHANGED vars
              \/ \E n \in Names, s \in {"inactive", "deleted"} : LoseAccess(n, s)
       PROVE  LockInv'
  <2>1. UNCHANGED <<buckets, fails, req, overlap>> /\ (now' = now \/ now' = now + 1)
    BY <1>21 DEF Revoke, EnrollTotp, DisableTotp, LoseAccess, Tick, vars, bounds, history
  <2>2. now' \in Time
    BY DEF TypeInv, TypeOK
  <2>3. now <= now'
    BY <1>1, <2>1 DEF Time
  <2>4. QED
    BY <1>13, <2>1, <2>2, <2>3
<1>22. QED
  BY <1>8, <1>10, <1>11, <1>12, <1>14, <1>15, <1>16, <1>17, <1>18, <1>19, <1>20, <1>21 DEF Next

(* At first there are no failures and no rows.                             *)
LEMMA InitLocks == Init => LockInv
<1> SUFFICES ASSUME Init PROVE LockInv
  OBVIOUS
<1>1. fails \in [Keys -> Stamps]
  BY DEF Init, Stamps
<1>2. \A k \in Keys : buckets[k].first <= now /\ Backed(fails[k], overlap, k, buckets[k], 0)
  BY DEF Init, NoRow, None, Backed
<1>3. \A w \in Workers : req[w] = Idle
  BY DEF Init
<1>4. QED
  BY <1>1, <1>2, <1>3 DEF LockInv, Due, Timed, Idle, OneCall

(* A locked bucket has as many failures on record as its limit, within one *)
(* window, whatever number of calls reads and writes its row at once.      *)
THEOREM LocksAreJustified == Spec => []LockJustified
<1>1. TypeInv /\ LockInv => LockJustified
  <2> SUFFICES ASSUME TypeInv, LockInv, NEW k \in Keys, buckets[k].locked # None
               PROVE  LET from == IF overlap THEN 0 ELSE buckets[k].first IN
                      Cardinality(Failures(k, from, buckets[k].first + Window))
                          >= MaxFailures[k]
    BY DEF LockJustified
  <2> DEFINE from == IF overlap THEN 0 ELSE buckets[k].first
             to   == buckets[k].first + Window
  <2>1. Backed(fails[k], overlap, k, buckets[k], 0) /\ fails[k] \in Stamps
    BY DEF LockInv
  <2>2. buckets[k] \in Row /\ MaxFailures[k] \in Nat
    BY LoginAssumption DEF TypeInv, TypeOK
  <2>3. buckets[k].first # None
    BY DEF TypeInv, TypeOK, NoRow
  <2>4. Cardinality(Recent(fails[k], from, to)) + 0 >= buckets[k].count
        /\ buckets[k].count >= MaxFailures[k]
    BY <2>1, <2>3 DEF Backed
  <2>5. Cardinality(Recent(fails[k], from, to)) \in Nat /\ buckets[k].count \in Nat
    BY <2>1, <2>2, RecentFinite DEF Row
  <2>6. Failures(k, from, to) = Recent(fails[k], from, to)
    BY DEF Failures, Recent
  <2> HIDE DEF from, to
  <2>7. Cardinality(Failures(k, from, to)) >= MaxFailures[k]
    BY <2>2, <2>4, <2>5, <2>6
  <2>8. QED
    BY <2>7 DEF from, to
<1>2. TypeInv /\ [Next]_vars => TypeInv'
  BY StepTyped
<1>3. QED
  BY InitTyped, InitLocks, <1>1, <1>2, StepLocks, PTL DEF Spec

-----------------------------------------------------------------------------
(* A burst of failures locks its bucket                                    *)

\* The failures from one on have no success among them, and a quiet window or a success
\* comes before the first.
Begins(s, j) ==
    /\ \A i \in j .. Len(s) : s[i] # None
    /\ j > 1 => s[j - 1] = None \/ s[j - 1] < s[j] - Window

\* No failure that is still to be recorded is within the window of an instant.
Cold(f, time, rs) ==
    /\ time - f >= Window
    /\ \A w \in Workers : Timed(rs[w]) => rs[w].at - f >= Window

\* A row that is there is of the last failure.
Latest(s, row) ==
    row.first # None =>
        /\ Len(s) >= 1 /\ s[Len(s)] # None
        /\ row.first <= s[Len(s)]
        /\ row.locked # None => row.locked = s[Len(s)] + Lockout

\* The row counts the failures from one on.
Counts(s, row, j) == row.first = s[j] /\ row.count = Len(s) - j + 1

Streak(s, row, time, rs) ==
    /\ Latest(s, row)
    /\ \A j \in DOMAIN s : Begins(s, j) => Counts(s, row, j) \/ Cold(s[j], time, rs)

\* Burst, of a history.
BurstIn(s, m, time) ==
    /\ Len(s) >= m
    /\ \A i \in Len(s) - m + 1 .. Len(s) : s[i] # None
    /\ s[Len(s)] - s[Len(s) - m + 1] < Window
    /\ Len(s) > m => s[Len(s) - m] = None \/ s[Len(s) - m] < s[Len(s) - m + 1] - Window
    /\ time < s[Len(s)] + Lockout

Ready(r, rows) == r.pc = "set" => r.row = Bumped(rows[r.key], r.key, r.at)

StreakInv ==
    ~overlap =>
        /\ \A w \in Workers : Ready(req[w], buckets)
        /\ \A k \in Keys :
              /\ Streak(fails[k], buckets[k], now, req)
              /\ BurstIn(fails[k], MaxFailures[k], now) => buckets[k].locked > now

(* The elements of a history, by their place.                              *)
LEMMA StampsAt ==
    ASSUME NEW s \in Stamps
    PROVE  /\ Len(s) \in Nat /\ DOMAIN s = 1 .. Len(s)
           /\ \A i \in 1 .. Len(s) : s[i] \in Time \cup {None}
  BY DEF Stamps

(* One failure more: a row that counts a streak counts it on, unless the   *)
(* failure is a window after the first of it.                              *)
LEMMA BumpedCounts ==
    ASSUME NEW s \in Stamps, NEW key \in Keys, NEW row \in Row, NEW at \in Time,
           row.first = None => row = NoRow, Latest(s, row), row.first <= at,
           NEW j \in 1 .. Len(s) + 1, Begins(Append(s, at), j),
           j <= Len(s) => Counts(s, row, j)
    PROVE  \/ Counts(Append(s, at), Bumped(row, key, at), j)
           \/ j <= Len(s) /\ at - s[j] >= Window
<1> DEFINE n == Len(s)
           t == Append(s, at)
           b == Bumped(row, key, at)
<1>1. /\ n \in Nat /\ DOMAIN s = 1 .. n /\ Len(t) = n + 1 /\ t[n + 1] = at
      /\ \A i \in 1 .. n : t[i] = s[i] /\ s[i] \in Time \cup {None}
  BY StampsAt, AppendIs DEF Stamps
<1>2. CASE j <= n
  <2>1. row.first = s[j] /\ row.count = n - j + 1 /\ s[j] # None /\ s[j] \in Time
        /\ t[j] = s[j]
    <3>1. t[j] # None
      BY <1>1, <1>2 DEF Begins
    <3>2. QED
      BY <1>1, <1>2, <3>1 DEF Counts
  <2>2. CASE at - row.first > Window
    BY <1>2, <2>1, <2>2, LoginAssumption DEF Time
  <2>3. CASE ~(at - row.first > Window)
    <3>1. b.first = row.first /\ b.count = row.count + 1
      BY <2>1, <2>3 DEF Bumped
    <3>2. QED
      BY <1>1, <1>2, <2>1, <3>1 DEF Counts
  <2>4. QED
    BY <2>2, <2>3
<1>3. CASE ~(j <= n)
  <2>1. j = n + 1
    BY <1>1, <1>3
  <2>2. b.first = at /\ b.count = 1
    <3>1. CASE row.first = None
      BY <3>1 DEF Bumped, NoRow
    <3>2. CASE row.first # None
      <4>1. n >= 1 /\ s[n] # None /\ row.first <= s[n] /\ s[n] \in Time /\ row.first \in Time
        BY <1>1, <3>2 DEF Latest, Row
      <4>2. j > 1 /\ j - 1 = n /\ t[n] = s[n] /\ t[j] = at
        BY <1>1, <2>1, <4>1
      <4>3. s[n] < at - Window
        BY <4>1, <4>2 DEF Begins
      <4>4. at - row.first > Window
        BY <4>1, <4>3, LoginAssumption DEF Time
      <4>5. QED
        BY <3>2, <4>4 DEF Bumped
    <3>3. QED
      BY <3>1, <3>2
  <2>3. QED
    BY <1>1, <2>1, <2>2 DEF Counts
<1>4. QED
  BY <1>2, <1>3

(* A failure keeps the streaks of its bucket; the call that records it may *)
(* go on to a second bucket with the same instant.                         *)
LEMMA StreakGoesOn ==
    ASSUME NEW s \in Stamps, NEW key \in Keys, NEW row \in Row, NEW at \in Time,
           NEW time \in Time, at <= time,
           row.first = None => row = NoRow, row.first <= at,
           NEW rs, NEW rs2, Streak(s, row, time, rs),
           NEW w \in Workers, Timed(rs[w]), rs[w].at = at,
           \A v \in Workers : Timed(rs2[v]) => rs2[v].at = at
    PROVE  /\ Streak(Append(s, at), Bumped(row, key, at), time, rs2)
           /\ BurstIn(Append(s, at), MaxFailures[key], time)
                 => Bumped(row, key, at).locked > time
<1> DEFINE n == Len(s)
           t == Append(s, at)
           b == Bumped(row, key, at)
<1>1. /\ n \in Nat /\ DOMAIN s = 1 .. n /\ Len(t) = n + 1 /\ t[n + 1] = at
      /\ DOMAIN t = 1 .. n + 1
      /\ \A i \in 1 .. n : t[i] = s[i] /\ s[i] \in Time \cup {None}
  BY StampsAt, AppendIs DEF Stamps
<1>2. b \in Row /\ b.first \in {row.first, at}
      /\ (b.locked # None => b.locked = at + Lockout)
      /\ (b.count >= MaxFailures[key] => b.locked = at + Lockout)
  BY BumpedIsRow DEF Bumped
<1>3. Latest(s, row)
  BY DEF Streak
<1>4. \A j \in 1 .. n + 1 : Begins(t, j) =>
         Counts(t, b, j) \/ (t[j] # None /\ at - t[j] >= Window)
  <2> SUFFICES ASSUME NEW j \in 1 .. n + 1, Begins(t, j)
               PROVE  Counts(t, b, j) \/ (t[j] # None /\ at - t[j] >= Window)
    OBVIOUS
  <2>1. t[j] # None
    BY <1>1 DEF Begins
  <2>2. CASE j <= n /\ ~Counts(s, row, j)
    <3>1. Begins(s, j)
      BY <1>1, <2>2 DEF Begins
    <3>2. Cold(s[j], time, rs)
      BY <1>1, <2>2, <3>1 DEF Streak
    <3>3. QED
      BY <1>1, <2>1, <2>2, <3>2 DEF Cold
  <2>3. CASE j <= n => Counts(s, row, j)
    BY <1>1, <1>3, <2>1, <2>3, BumpedCounts
  <2>4. QED
    BY <2>2, <2>3
<1> HIDE DEF b, t
<1>5. Streak(t, b, time, rs2)
  <2>1. Latest(t, b)
    <3>1. row.first <= at /\ at <= at /\ at # None
      BY DEF Time, None
    <3>2. QED
      BY <1>1, <1>2, <3>1 DEF Latest
  <2>2. ASSUME NEW j \in 1 .. n + 1, t[j] # None, at - t[j] >= Window
        PROVE  Cold(t[j], time, rs2)
    <3>1. t[j] \in Time
      BY <1>1, <2>2
    <3>2. time - t[j] >= Window
      BY <2>2, <3>1, LoginAssumption DEF Time
    <3>3. QED
      BY <2>2, <3>2 DEF Cold
  <2>3. QED
    BY <1>1, <1>4, <2>1, <2>2 DEF Streak
<1>6. ASSUME BurstIn(t, MaxFailures[key], time) PROVE b.locked > time
  <2> DEFINE m == MaxFailures[key]
             j == n + 2 - m
  <2>1. m \in Nat \ {0} /\ m <= n + 1 /\ j \in 1 .. n + 1
    BY <1>1, <1>6, LoginAssumption DEF BurstIn
  <2>2. /\ \A i \in j .. n + 1 : t[i] # None
        /\ at - t[j] < Window
        /\ j > 1 => t[j - 1] = None \/ t[j - 1] < t[j] - Window
        /\ time < at + Lockout
    <3>1. Len(t) - m + 1 = j /\ Len(t) - m = j - 1 /\ (Len(t) > m <=> j > 1)
      BY <1>1, <2>1
    <3> HIDE DEF m, j
    <3>2. BurstIn(t, m, time)
      BY <1>6 DEF m
    <3>3. QED
      BY <1>1, <3>1, <3>2 DEF BurstIn
  <2> HIDE DEF m, j
  <2>3. Begins(t, j)
    BY <1>1, <2>2 DEF Begins
  <2>4. t[j] \in Time
    BY <1>1, <2>1, <2>2
  <2>5. Counts(t, b, j)
    BY <1>4, <2>1, <2>2, <2>3, <2>4, LoginAssumption DEF Time
  <2>6. b.count = n + 1 - j + 1
    BY <1>1, <2>1, <2>5 DEF Counts
  <2>7. b.count = m
    BY <1>1, <2>1, <2>6 DEF j
  <2>8. b.locked = at + Lockout
    BY <1>2, <2>1, <2>7 DEF m
  <2>9. QED
    BY <2>2, <2>8, LoginAssumption DEF Time
<1>7. QED
  BY <1>5, <1>6 DEF b, t

(* What is cold stays cold while the clock goes on and no call is dated    *)
(* back, and with it the streaks of a bucket that nobody writes.           *)
LEMMA StreakStays ==
    ASSUME NEW s \in Stamps, NEW row, NEW t \in Time, NEW t2 \in Time, t <= t2,
           NEW rs, NEW rs2, Streak(s, row, t, rs),
           \A v \in Workers : Timed(rs2[v]) =>
               rs2[v].at = t2 \/ (Timed(rs[v]) /\ rs2[v].at = rs[v].at)
    PROVE  Streak(s, row, t2, rs2)
<1>1. ASSUME NEW j \in DOMAIN s, s[j] # None, Cold(s[j], t, rs) PROVE Cold(s[j], t2, rs2)
  <2>1. s[j] \in Time
    BY <1>1, StampsAt
  <2>2. t2 - s[j] >= Window
    BY <1>1, <2>1, LoginAssumption DEF Cold, Time
  <2>3. QED
    BY <1>1, <2>2 DEF Cold
<1>2. \A j \in DOMAIN s : Begins(s, j) => s[j] # None
  BY StampsAt DEF Begins
<1>3. QED
  BY <1>1, <1>2 DEF Streak

(* Every step keeps the streaks, as long as no two calls overlap.          *)
LEMMA StepStreaks == TypeInv /\ TypeInv' /\ LockInv /\ StreakInv /\ [Next]_vars => StreakInv'
<1> SUFFICES ASSUME TypeInv, TypeInv', LockInv, StreakInv, [Next]_vars, ~overlap'
             PROVE  StreakInv'
  BY DEF StreakInv
<1>1. ~overlap
  BY DEF Next, vars, LoginBegin, Verified, Rejected, ClearName, ClearIp, Cleared, Issue,
         BumpGet, BumpSet, StepUpBegin, PasswordVerified, StepUpRejected, CodeVerified, Touch,
         Unlock, Grant, OidcStart, OidcStore, OidcCallback, ExchangeFails, Provision, Link,
         Revoke, EnrollTotp, DisableTotp, LoseAccess, Tick, Counted, Begin, history
<1>2. /\ \A w \in Workers : Ready(req[w], buckets)
      /\ \A k \in Keys :
            /\ Streak(fails[k], buckets[k], now, req)
            /\ BurstIn(fails[k], MaxFailures[k], now) => buckets[k].locked > now
  BY <1>1 DEF StreakInv
<1>3. /\ now \in Time /\ now' \in Time /\ fails \in [Keys -> Stamps]
      /\ buckets \in [Keys -> Row] /\ buckets' \in [Keys -> Row] /\ DOMAIN req = Workers
      /\ \A k \in Keys : fails[k] \in Stamps /\ buckets[k] \in Row
  BY DEF TypeInv, TypeOK, LockInv
<1>4. ASSUME NEW w \in Workers, req[w].pc # "idle"
      PROVE  \A v \in Workers \ {w} : req[v] = Idle
  BY <1>1, <1>4 DEF LockInv, OneCall, Idle
\* A step that writes no row and dates no call back.
<1>5. ASSUME NEW w \in Workers, NEW r, req' = [req EXCEPT ![w] = r],
             \A v \in Workers \ {w} : req[v] = Idle,
             UNCHANGED <<now, buckets, fails>>, Ready(r, buckets),
             Timed(r) => r.at = now \/ (Timed(req[w]) /\ r.at = req[w].at)
      PROVE  StreakInv'
  <2>1. req'[w] = r /\ \A v \in Workers \ {w} : req'[v] = Idle
    BY <1>3, <1>5
  <2>2. \A v \in Workers : Timed(req'[v]) =>
           req'[v].at = now \/ (Timed(req[v]) /\ req'[v].at = req[v].at)
    BY <1>5, <2>1 DEF Timed, Idle
  <2>3. now <= now
    BY <1>3 DEF Time
  <2>4. \A k \in Keys : Streak(fails[k], buckets[k], now, req')
    BY <1>2, <1>3, <2>2, <2>3, StreakStays
  <2>5. \A v \in Workers : Ready(req'[v], buckets)
    BY <1>5, <2>1 DEF Ready, Idle
  <2>6. QED
    BY <1>2, <1>5, <2>4, <2>5 DEF StreakInv
<1>6. ASSUME NEW w \in Workers, NEW r, Begin(w, r), r.pc # "get", r.pc # "set",
             r.pc = "step_verify" => r.at = now, UNCHANGED <<now, buckets, fails>>
      PROVE  StreakInv'
  BY <1>5, <1>6 DEF Begin, Ready, Timed
<1>7. ASSUME NEW w \in Workers, NEW r, Go(w, r), req[w].pc # "idle", ~Timed(r),
             UNCHANGED <<now, buckets, fails>>
      PROVE  StreakInv'
  BY <1>4, <1>5, <1>7 DEF Go, Ready, Timed
<1>8. ASSUME NEW w \in Workers, Rejected(w) PROVE StreakInv'
  <2>1. /\ UNCHANGED <<now, fails>> /\ req[w].pc = "verify"
        /\ buckets' = [k \in Keys |-> IF Swept(k) THEN NoRow ELSE buckets[k]]
        /\ req' = [req EXCEPT ![w] = [pc |-> "get", name |-> req[w].name,
                                      key |-> req[w].name, at |-> now]]
    BY <1>8 DEF Rejected, Go, At, history
  <2>2. /\ \A v \in Workers : Timed(req'[v]) => req'[v].at = now
        /\ \A v \in Workers : Ready(req'[v], buckets')
    <3>1. req'[w].at = now /\ req'[w].pc = "get"
      BY <1>3, <2>1
    <3>2. \A v \in Workers \ {w} : req'[v] = Idle
      BY <1>3, <1>4, <2>1
    <3>3. QED
      BY <3>1, <3>2 DEF Timed, Ready, Idle
  <2>3. now <= now
    BY <1>3 DEF Time
  <2>4. ASSUME NEW k \in Keys
        PROVE  /\ Streak(fails[k], buckets'[k], now, req')
               /\ BurstIn(fails[k], MaxFailures[k], now) => buckets'[k].locked > now
    <3>1. Streak(fails[k], buckets[k], now, req')
      BY <1>2, <1>3, <2>2, <2>3, StreakStays
    <3>2. CASE ~Swept(k)
      <4>1. buckets'[k] = buckets[k]
        BY <2>1, <3>2
      <4>2. QED
        BY <1>2, <3>1, <4>1
    <3>3. CASE Swept(k)
      <4>1. buckets'[k] = NoRow
        BY <2>1, <3>3
      <4>2. buckets[k].locked <= now /\ buckets[k].first <= now - Window
        BY <3>3 DEF Swept
      <4>3. ASSUME NEW j \in DOMAIN fails[k], Begins(fails[k], j), Counts(fails[k], buckets[k], j)
            PROVE  Cold(fails[k][j], now, req')
        <5>1. fails[k][j] = buckets[k].first
          BY <4>3 DEF Counts
        <5>2. fails[k][j] # None /\ fails[k][j] \in Time
          BY <1>3, <4>3, StampsAt DEF Begins
        <5>3. now - fails[k][j] >= Window
          BY <1>3, <4>2, <5>1, <5>2, LoginAssumption DEF Time
        <5>4. QED
          BY <2>2, <5>3 DEF Cold
      <4>4. Latest(fails[k], NoRow)
        BY DEF Latest, NoRow
      <4>5. Streak(fails[k], NoRow, now, req')
        BY <3>1, <4>3, <4>4 DEF Streak
      <4>6. ~BurstIn(fails[k], MaxFailures[k], now)
        <5>1. buckets[k].locked \in Nat \cup {None} /\ now \in Nat
          BY <1>3 DEF Row, Time
        <5>2. ~(buckets[k].locked > now)
          BY <4>2, <5>1 DEF None
        <5>3. QED
          BY <1>2, <5>2
      <4>7. QED
        BY <4>1, <4>5, <4>6
    <3>4. QED
      BY <3>2, <3>3
  <2>5. QED
    BY <2>1, <2>2, <2>4 DEF StreakInv
<1>9. ASSUME NEW w \in Workers, NEW key \in Keys, NEW r, Cleared(w, key, r),
             req[w].pc # "idle", ~Timed(r)
      PROVE  StreakInv'
  <2>1. /\ req' = [req EXCEPT ![w] = r] /\ now' = now
        /\ buckets' = [buckets EXCEPT ![key] = NoRow]
        /\ fails' = [fails EXCEPT ![key] = Append(@, None)]
    BY <1>9 DEF Cleared, Go
  <2>2. /\ req'[w] = r /\ \A v \in Workers \ {w} : req'[v] = Idle
        /\ \A v \in Workers : ~Timed(req'[v])
    BY <1>3, <1>4, <1>9, <2>1 DEF Timed, Idle
  <2>3. ASSUME NEW k \in Keys
        PROVE  /\ Streak(fails'[k], buckets'[k], now, req')
               /\ BurstIn(fails'[k], MaxFailures[k], now) => buckets'[k].locked > now
    <3>1. CASE k # key
      <4>1. fails'[k] = fails[k] /\ buckets'[k] = buckets[k] /\ now <= now
        BY <1>3, <2>1, <3>1 DEF Time
      <4>2. Streak(fails[k], buckets[k], now, req')
        BY <1>2, <1>3, <2>2, <4>1, StreakStays
      <4>3. QED
        BY <1>2, <4>1, <4>2
    <3>2. CASE k = key
      <4> DEFINE s == fails[k]
                 t == Append(s, None)
      <4>1. /\ fails'[k] = t /\ buckets'[k] = NoRow
            /\ Len(s) \in Nat /\ Len(t) = Len(s) + 1 /\ DOMAIN t = 1 .. Len(s) + 1
            /\ t[Len(t)] = None
        BY <1>3, <2>1, <3>2, StampsAt DEF Stamps
      <4> HIDE DEF s, t
      <4>2. \A j \in DOMAIN t : ~Begins(t, j)
        BY <4>1 DEF Begins
      <4>3. ~BurstIn(t, MaxFailures[k], now)
        <5>1. MaxFailures[k] \in Nat \ {0}
          BY LoginAssumption
        <5>2. Len(t) \in Len(t) - MaxFailures[k] + 1 .. Len(t)
          BY <4>1, <5>1
        <5>3. QED
          BY <4>1, <5>2 DEF BurstIn
      <4>4. Streak(t, NoRow, now, req')
        BY <4>2 DEF Streak, Latest, NoRow
      <4>5. QED
        BY <4>1, <4>3, <4>4
    <3>3. QED
      BY <3>1, <3>2
  <2>4. QED
    BY <2>1, <2>2, <2>3 DEF StreakInv, Ready, Timed
<1>10. ASSUME NEW w \in Workers, BumpGet(w) PROVE StreakInv'
  <2> DEFINE key == req[w].key
             at  == req[w].at
             r   == [pc |-> "set", name |-> req[w].name, key |-> key, at |-> at,
                     row |-> Bumped(buckets[key], key, at)]
  <2>1. /\ req' = [req EXCEPT ![w] = r] /\ UNCHANGED <<now, buckets, fails>>
        /\ req[w].pc = "get"
    BY <1>10 DEF BumpGet, Go, At, history
  <2>2. Ready(r, buckets) /\ r.at = req[w].at
    BY DEF Ready
  <2> HIDE DEF r
  <2>3. QED
    BY <1>4, <1>5, <2>1, <2>2 DEF Timed
<1>11. ASSUME NEW w \in Workers, BumpSet(w) PROVE StreakInv'
  <2> DEFINE key == req[w].key
             at  == req[w].at
             row == Bumped(buckets[key], key, at)
  <2>1. PICK r : /\ req' = [req EXCEPT ![w] = r]
                 /\ r.pc # "set" /\ (Timed(r) => r.at = at)
    <3>1. CASE key \in Names
      <4> DEFINE s == [pc |-> "get", name |-> req[w].name, key |-> "ip", at |-> at]
      <4>1. req' = [req EXCEPT ![w] = s] /\ s.pc # "set" /\ s.at = at
        BY <1>11, <3>1 DEF BumpSet, Go
      <4> HIDE DEF s
      <4>2. QED
        BY <4>1
    <3>2. CASE key \notin Names
      <4>1. req' = [req EXCEPT ![w] = Idle] /\ Idle.pc # "set" /\ ~Timed(Idle)
        BY <1>11, <3>2 DEF BumpSet, Go, Timed, Idle
      <4>2. QED
        BY <4>1
    <3>3. QED
      BY <3>1, <3>2
  <2>2. /\ req[w].pc = "set" /\ now' = now
        /\ buckets' = [buckets EXCEPT ![key] = row]
        /\ fails' = [fails EXCEPT ![key] = Append(@, at)]
    BY <1>2, <1>11 DEF BumpSet, At, Ready
  <2>3. key \in Keys /\ at \in Time /\ at <= now /\ Timed(req[w])
    BY <2>2 DEF TypeInv, Typed, LockInv, Due, Timed
  <2>4. buckets[key].first <= at /\ (buckets[key].first = None => buckets[key] = NoRow)
    BY <1>1, <2>3 DEF LockInv, TypeInv, TypeOK
  <2>5. /\ req'[w] = r /\ \A v \in Workers \ {w} : req'[v] = Idle
    BY <1>3, <1>4, <2>1, <2>2
  <2>6. /\ \A v \in Workers : Timed(req'[v]) => Timed(req[v]) /\ req'[v].at = req[v].at
        /\ \A v \in Workers : Timed(req'[v]) => req'[v].at = at
        /\ \A v \in Workers : Ready(req'[v], buckets')
    BY <2>1, <2>3, <2>5 DEF Timed, Idle, Ready
  <2>7. req[w].at = at /\ now <= now
    BY <1>3 DEF Time
  <2>8. fails'[key] = Append(fails[key], at) /\ buckets'[key] = row
        /\ \A k \in Keys \ {key} : fails'[k] = fails[k] /\ buckets'[k] = buckets[k]
    BY <1>3, <2>2, <2>3
  <2> HIDE DEF key, at
  <2>9. /\ Streak(fails'[key], buckets'[key], now, req')
        /\ BurstIn(fails'[key], MaxFailures[key], now) => buckets'[key].locked > now
    <3>1. Streak(fails[key], buckets[key], now, req) /\ fails[key] \in Stamps
          /\ buckets[key] \in Row
      BY <1>2, <1>3, <2>3
    <3>2. /\ Streak(Append(fails[key], at), row, now, req')
          /\ BurstIn(Append(fails[key], at), MaxFailures[key], now) => row.locked > now
      BY <1>3, <2>3, <2>4, <2>6, <2>7, <3>1, StreakGoesOn
    <3>3. QED
      BY <2>8, <3>2
  <2>10. ASSUME NEW k \in Keys \ {key}
         PROVE  /\ Streak(fails'[k], buckets'[k], now, req')
                /\ BurstIn(fails'[k], MaxFailures[k], now) => buckets'[k].locked > now
    <3>1. Streak(fails[k], buckets[k], now, req')
      BY <1>2, <1>3, <2>6, <2>7, StreakStays
    <3>2. QED
      BY <1>2, <2>8, <3>1
  <2>11. QED
    BY <2>2, <2>6, <2>9, <2>10 DEF StreakInv
<1>12. ASSUME NEW w \in Workers, StepUpRejected(w) PROVE StreakInv'
  <2> DEFINE r == [pc |-> "get", name |-> "sudo", key |-> "sudo", at |-> req[w].at]
  <2>1. /\ req' = [req EXCEPT ![w] = r] /\ UNCHANGED <<now, buckets, fails>>
        /\ req[w].pc = "step_verify"
    BY <1>12 DEF StepUpRejected, Go, At, history
  <2>2. Ready(r, buckets) /\ r.at = req[w].at
    BY DEF Ready
  <2> HIDE DEF r
  <2>3. QED
    BY <1>4, <1>5, <2>1, <2>2 DEF Timed
<1>13. ASSUME UNCHANGED <<buckets, fails, req>>, now <= now' PROVE StreakInv'
  <2>1. ASSUME NEW k \in Keys
        PROVE  /\ Streak(fails[k], buckets[k], now', req)
               /\ BurstIn(fails[k], MaxFailures[k], now') => buckets[k].locked > now'
    <3>1. Streak(fails[k], buckets[k], now', req)
      BY <1>2, <1>3, <1>13, StreakStays
    <3>2. ASSUME BurstIn(fails[k], MaxFailures[k], now') PROVE buckets[k].locked > now'
      <4> DEFINE last == fails[k][Len(fails[k])]
                 m    == MaxFailures[k]
      <4>1. m \in Nat \ {0} /\ Len(fails[k]) \in Nat /\ Len(fails[k]) >= m
            /\ last \in Time \cup {None}
        BY <1>3, <3>2, StampsAt, LoginAssumption DEF BurstIn
      <4>2. last # None
        BY <3>2, <4>1 DEF BurstIn
      <4>3. now' < last + Lockout
        BY <3>2 DEF BurstIn
      <4>4. now < last + Lockout
        BY <1>3, <1>13, <4>1, <4>2, <4>3, LoginAssumption DEF Time
      <4>5. BurstIn(fails[k], m, now)
        BY <3>2, <4>4 DEF BurstIn
      <4>6. buckets[k].locked > now /\ buckets[k].locked \in Nat \cup {None}
        BY <1>2, <1>3, <4>5 DEF Row
      <4>7. buckets[k].locked # None /\ buckets[k].first # None
        BY <1>3, <4>6 DEF Time, None, TypeInv, TypeOK, NoRow
      <4>8. buckets[k].locked = last + Lockout
        BY <1>2, <4>7 DEF Streak, Latest
      <4>9. QED
        BY <1>3, <4>1, <4>2, <4>3, <4>8, LoginAssumption DEF Time
    <3>3. QED
      BY <3>1, <3>2
  <2>2. \A w \in Workers : Ready(req[w], buckets)
    BY <1>2
  <2>3. QED
    BY <1>13, <2>1, <2>2 DEF StreakInv
\* Now the actions, by the kind of step each is.
<1>14. ASSUME NEW w \in Workers, NEW n \in Names, LoginBegin(w, n) PROVE StreakInv'
  BY <1>6, <1>14 DEF LoginBegin, Counted
<1>15. ASSUME NEW w \in Workers, NEW factor, StepUpBegin(w, factor) PROVE StreakInv'
  BY <1>6, <1>15 DEF StepUpBegin, Counted
<1>16. ASSUME NEW w \in Workers, OidcStart(w) PROVE StreakInv'
  BY <1>6, <1>16 DEF OidcStart, Counted
<1>17. ASSUME NEW w \in Workers, NEW s \in states, OidcCallback(w, s) PROVE StreakInv'
  <2>1. CASE s.expires > now
    BY <1>6, <1>17, <2>1 DEF OidcCallback
  <2>2. CASE ~(s.expires > now)
    BY <1>6, <1>17, <2>2 DEF OidcCallback, Idle
  <2>3. QED
    BY <2>1, <2>2
<1>18. ASSUME NEW w \in Workers,
              \/ Verified(w) \/ Issue(w) \/ PasswordVerified(w) \/ Touch(w) \/ Grant(w)
              \/ OidcStore(w) \/ ExchangeFails(w)
              \/ \E step \in 0 .. MaxTime + 1 : CodeVerified(w, step)
       PROVE  StreakInv'
  BY <1>7, <1>18
     DEF Verified, Issue, PasswordVerified, Touch, Grant, OidcStore, ExchangeFails, CodeVerified,
         At, Timed, Idle, bounds, history
<1>19. ASSUME NEW w \in Workers, Provision(w) \/ Link(w) PROVE StreakInv'
  <2>1. PICK r : Go(w, r) /\ ~Timed(r)
    <3>1. CASE Provision(w) /\ linked
      BY <3>1 DEF Provision, Timed
    <3>2. CASE Provision(w) /\ ~linked
      BY <3>2 DEF Provision, Timed
    <3>3. CASE Link(w) /\ linked
      BY <3>3 DEF Link, Idle, Timed
    <3>4. CASE Link(w) /\ ~linked
      BY <3>4 DEF Link, Timed
    <3>5. QED
      BY <1>19, <3>1, <3>2, <3>3, <3>4
  <2>2. QED
    BY <1>7, <1>19, <2>1 DEF Provision, Link, At, bounds, history
<1>20. ASSUME NEW w \in Workers, ClearName(w) \/ ClearIp(w) \/ Unlock(w) PROVE StreakInv'
  <2>1. PICK key, r : key \in Keys /\ Cleared(w, key, r) /\ ~Timed(r) /\ req[w].pc # "idle"
    BY <1>20 DEF TypeInv, Typed, ClearName, ClearIp, Unlock, At, Keys, LoginKeys, Timed
  <2>2. QED
    BY <1>9, <2>1
<1>21. ASSUME \/ Revoke \/ EnrollTotp \/ DisableTotp \/ Tick \/ UNCHANGED vars
              \/ \E n \in Names, s \in {"inactive", "deleted"} : LoseAccess(n, s)
       PROVE  StreakInv'
  <2>1. UNCHANGED <<buckets, fails, req>> /\ (now' = now \/ now' = now + 1)
    BY <1>21 DEF Revoke, EnrollTotp, DisableTotp, LoseAccess, Tick, vars, bounds, history
  <2>2. now <= now'
    BY <1>3, <2>1 DEF Time
  <2>3. QED
    BY <1>13, <2>1, <2>2
<1>22. QED
  BY <1>8, <1>10, <1>11, <1>12, <1>14, <1>15, <1>16, <1>17, <1>18, <1>19, <1>20, <1>21 DEF Next

(* With calls that do not overlap a burst of failures locks its bucket for *)
(* the whole lockout: neither the sweep, nor the start of a new streak,    *)
(* nor the order of the two buckets lets a call through.                   *)
THEOREM BurstsAlwaysLock == Spec => []BurstLocks
<1>1. Init => StreakInv
  <2> SUFFICES ASSUME Init PROVE StreakInv
    OBVIOUS
  <2>1. \A k \in Keys : fails[k] = << >> /\ buckets[k] = NoRow /\ MaxFailures[k] \in Nat \ {0}
    BY LoginAssumption DEF Init
  <2>2. \A w \in Workers : Ready(req[w], buckets)
    BY DEF Init, Idle, Ready
  <2>3. \A k \in Keys : Streak(fails[k], buckets[k], now, req)
                        /\ ~BurstIn(fails[k], MaxFailures[k], now)
    BY <2>1 DEF Streak, Latest, NoRow, BurstIn
  <2>4. QED
    BY <2>2, <2>3 DEF StreakInv
<1>2. TypeInv /\ LockInv /\ StreakInv => BurstLocks
  <2> SUFFICES ASSUME StreakInv, ~overlap, NEW k \in Keys, Burst(k) PROVE Locked(k)
    BY DEF BurstLocks
  <2>1. BurstIn(fails[k], MaxFailures[k], now)
    BY DEF Burst, BurstIn
  <2>2. QED
    BY <2>1 DEF StreakInv, Locked
<1>3. QED
  BY InitTyped, InitLocks, StepTyped, StepLocks, StepStreaks, <1>1, <1>2, PTL DEF Spec

=============================================================================
