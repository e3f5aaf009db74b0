------------------------ MODULE InterventionsProofs ------------------------
(***************************************************************************)
(* The budgets of the Heart's interventions and what is promised of a run   *)
(* that failed, proved for every set of runs, cooldown, ceiling and bound.  *)
(*                                                                          *)
(* Neither budget of attempts is inductive: the gates are read at the start *)
(* of decide() and spent some queries later, when runs and the clock have   *)
(* moved on.  BudgetInv records what an open gate still promises then, and  *)
(* that the pruned list holds every attempt of the last hour.  RetryInv     *)
(* follows the retries of a run from the query that chose it to the count.  *)
(***************************************************************************)
EXTENDS Interventions, FiniteSetTheorems, WellFoundedInduction, TLAPS

Deciding == stage \in {"stalls", "counts"}

\* The part of TypeOK that the budgets are about.
Numbers ==
  /\ now \in Nat
  /\ ticks \in Nat
  /\ lastTick \in Nat
  /\ \A a \in attempts : a.tick \in Nat /\ a.at \in Nat

\* The attempts of the hour up to now are all in the list the ceiling is counted from.
Listed ==
  /\ IsFiniteSet(recent)
  /\ recent \subseteq attempts
  /\ \A a \in attempts : a.at >= now - Hour => a \in recent

\* No attempt is later than the last one, nor than the current tick and time.
Dated ==
  /\ lastTick <= ticks
  /\ \A a \in attempts : 0 < a.tick /\ a.tick <= lastTick /\ a.at <= now

\* What the gates read at the start of decide() still promise at its later rungs.
GatesHold ==
  Deciding =>
    /\ lastTick < ticks
    /\ gates.hourly => Cardinality(recent) < MaxPerHour
    /\ gates.cooldown =>
         /\ gates.hourly
         /\ lastTick # 0 => ticks - lastTick >= CooldownTicks

Records == Numbers /\ Listed /\ Dated /\ CooldownHeld /\ HourlyCapHeld

BudgetInv == Records /\ GatesHold

-----------------------------------------------------------------------------
\* A process of the daemon starts with no attempt on record.
LEMMA InitBudget == Init => BudgetInv
<1> SUFFICES ASSUME Init PROVE BudgetInv
  OBVIOUS
<1>1. IsFiniteSet(recent)
  BY FS_EmptySet DEF Init
<1> QED
  BY <1>1 DEF Init, Closed, BudgetInv, Records, Numbers, Listed, Dated, GatesHold, Deciding,
              CooldownHeld, HourlyCapHeld

\* _decided() may be taken whenever the gates it relies on are good: the new attempt
\* is the only one of its tick, and with the listed ones fits under the ceiling.
LEMMA Charged ==
  ASSUME NEW action, NEW r, NEW kept, NEW n \in Nat,
         Records, lastTick < n, ticks' = n, now' = now,
         IsFiniteSet(kept), kept \subseteq recent,
         \A a \in recent : a.at >= now - Hour => a \in kept,
         Cardinality(kept) < MaxPerHour,
         action \in Bounded /\ lastTick # 0 => n - lastTick >= CooldownTicks,
         _decided(action, r, kept, n)
  PROVE  Records' /\ ~Deciding'
<1> DEFINE new == [tick |-> n, at |-> now, action |-> action]
<1>1. /\ lastTick' = n
      /\ recent' = kept \cup {new}
      /\ attempts' = attempts \cup {new}
      /\ stage' \in {"apply", "journal"}
  BY DEF _decided
<1>2. new.tick = n /\ new.at = now /\ new.action = action
  OBVIOUS
<1> HIDE DEF new
<1>3. Numbers'
  BY <1>1, <1>2 DEF Numbers, Records
<1>4. IsFiniteSet(recent') /\ Cardinality(recent') <= MaxPerHour
  <2>1. /\ IsFiniteSet(kept \cup {new})
        /\ \/ Cardinality(kept \cup {new}) = Cardinality(kept)
           \/ Cardinality(kept \cup {new}) = Cardinality(kept) + 1
    BY FS_AddElement, Zenon
  <2>2. Cardinality(kept) \in Nat
    BY FS_CardinalityType
  <2> QED
    BY <1>1, <2>1, <2>2, BudgetAssumption
<1>5. Listed'
  BY <1>1, <1>2, <1>4 DEF Listed, Records
<1>6. Dated'
  BY <1>1, <1>2, BudgetAssumption DEF Dated, Numbers, Records
<1>7. CooldownHeld'
  <2> SUFFICES ASSUME NEW a \in attempts', NEW b \in attempts',
                      a.action \in Bounded, b.action \in Bounded, a.tick < b.tick
               PROVE  b.tick - a.tick >= CooldownTicks
    BY DEF CooldownHeld
  <2>1. CASE b \in attempts
    BY <1>1, <1>2, <2>1 DEF CooldownHeld, Dated, Numbers, Records
  <2>2. CASE b = new
    BY <1>1, <1>2, <2>2, BudgetAssumption DEF Dated, Numbers, Records
  <2> QED
    BY <1>1, <2>1, <2>2
<1>8. HourlyCapHeld'
  <2> SUFFICES ASSUME NEW a \in attempts'
               PROVE  Cardinality({b \in attempts' : b.tick <= a.tick /\ b.at >= a.at - Hour})
                        <= MaxPerHour
    BY DEF HourlyCapHeld
  <2>1. CASE a \in attempts
    <3>1. {b \in attempts' : b.tick <= a.tick /\ b.at >= a.at - Hour}
            = {b \in attempts : b.tick <= a.tick /\ b.at >= a.at - Hour}
      BY <1>1, <1>2, <2>1 DEF Dated, Numbers, Records
    <3> QED
      BY <2>1, <3>1 DEF HourlyCapHeld, Records
  <2>2. CASE a = new
    <3>1. {b \in attempts' : b.tick <= a.tick /\ b.at >= a.at - Hour} \subseteq recent'
      BY <1>1, <1>2, <2>2 DEF Listed, Records
    <3> QED
      BY <1>4, <3>1, FS_Subset, FS_CardinalityType, BudgetAssumption
  <2> QED
    BY <1>1, <2>1, <2>2
<1> QED
  BY <1>1, <1>3, <1>5, <1>6, <1>7, <1>8 DEF Records, Deciding

\* Time, ticks without an intervention and every step that decides nothing keep the
\* records: old attempts only leave the hour.
LEMMA Passing ==
  ASSUME BudgetInv,
         now' \in Nat, now <= now', ticks' \in Nat, ticks <= ticks',
         UNCHANGED policyVars,
         Deciding' => Deciding /\ ticks' = ticks /\ UNCHANGED gates
  PROVE  BudgetInv'
<1>1. Records'
  BY BudgetAssumption DEF BudgetInv, Records, Numbers, Listed, Dated, CooldownHeld,
                          HourlyCapHeld, policyVars
<1>2. GatesHold'
  BY DEF BudgetInv, GatesHold, policyVars
<1> QED
  BY <1>1, <1>2 DEF BudgetInv

\* decide() from its first read to the query it stops at.
LEMMA DecideKeeps ==
  ASSUME BudgetInv, DecideRetry \/ DecideNudge \/ DecideFallback
  PROVE  BudgetInv'
<1> USE DEF BudgetInv
<1>0. /\ \A a \in recent : a.at \in Nat
      /\ Cardinality(recent) \in Nat
  BY FS_CardinalityType DEF Records, Listed, Numbers
<1>1. CASE DecideRetry
  <2>1. /\ IsFiniteSet(Unexpired)
        /\ Cardinality(Unexpired) \in Nat
        /\ Unexpired \subseteq recent
        /\ \A a \in recent : a.at >= now - Hour => a \in Unexpired
    BY FS_Subset, FS_CardinalityType DEF Unexpired, Records, Listed
  <2>2. ticks' = ticks + 1 /\ now' = now /\ ticks + 1 \in Nat /\ lastTick < ticks + 1
    BY <1>1 DEF DecideRetry, Records, Numbers, Dated
  <2>3. CASE ~_hourly_budget_exhausted /\ ~_in_cooldown
             /\ \E r : _decided("retry", r, Unexpired, ticks + 1)
    <3>1. Cardinality(Unexpired) < MaxPerHour
      BY <2>1, <2>3, BudgetAssumption DEF _hourly_budget_exhausted
    <3>2. lastTick # 0 => (ticks + 1) - lastTick >= CooldownTicks
      BY <2>3, BudgetAssumption DEF _in_cooldown, Records, Numbers
    <3>3. PICK r : _decided("retry", r, Unexpired, ticks + 1)
      BY <2>3
    <3> DEFINE n == ticks + 1
    <3>4. n \in Nat /\ lastTick < n /\ ticks' = n /\ now' = now
      BY <2>2
    <3>5. lastTick # 0 => n - lastTick >= CooldownTicks
      BY <3>2
    <3>6. _decided("retry", r, Unexpired, n)
      BY <3>3, Zenon
    <3> HIDE DEF n
    <3>7. Records' /\ ~Deciding'
      BY <2>1, <3>1, <3>4, <3>5, <3>6, Charged
    <3> QED
      BY <3>7 DEF GatesHold
  <2>4. CASE /\ stage' = "stalls" /\ recent' = Unexpired
             /\ UNCHANGED <<lastTick, attempts, target>>
             /\ gates' = [hourly |-> ~_hourly_budget_exhausted,
                          cooldown |-> ~_hourly_budget_exhausted /\ ~_in_cooldown]
    <3>1. Records'
      BY <2>1, <2>2, <2>4 DEF Records, Numbers, Listed, Dated, CooldownHeld, HourlyCapHeld
    <3>2. gates' = [hourly |-> ~_hourly_budget_exhausted,
                    cooldown |-> ~_hourly_budget_exhausted /\ ~_in_cooldown]
      BY <2>4
    <3>3. gates'.hourly => Cardinality(recent') < MaxPerHour
      <4>1. gates'.hourly => ~(Cardinality(Unexpired) >= MaxPerHour)
        BY <3>2, Zenon DEF _hourly_budget_exhausted
      <4> QED
        BY <4>1, <2>1, <2>4, BudgetAssumption
    <3>4. gates'.cooldown => gates'.hourly /\ (lastTick' # 0 => ticks' - lastTick' >= CooldownTicks)
      <4>1. gates'.cooldown => gates'.hourly /\ ~_in_cooldown
        BY <3>2, Zenon
      <4> QED
        BY <4>1, <2>2, <2>4, BudgetAssumption DEF _in_cooldown, Records, Numbers
    <3>5. GatesHold'
      BY <2>2, <2>4, <3>3, <3>4 DEF GatesHold
    <3> QED
      BY <3>1, <3>5
  <2> QED
    BY <1>1, <2>3, <2>4 DEF DecideRetry
<1>2. CASE DecideNudge \/ DecideFallback
  <2>1. Deciding /\ ticks' = ticks /\ now' = now
    BY <1>2 DEF DecideNudge, DecideFallback, Deciding
  <2>2. /\ ticks \in Nat /\ lastTick < ticks /\ IsFiniteSet(recent)
        /\ gates.hourly => Cardinality(recent) < MaxPerHour
        /\ gates.cooldown =>
             gates.hourly /\ (lastTick # 0 => ticks - lastTick >= CooldownTicks)
    BY <2>1 DEF GatesHold, Records, Numbers, Listed
  <2>3. CASE UNCHANGED policyVars /\ (Deciding' => UNCHANGED gates)
    BY <2>1, <2>3, Passing DEF Records, Numbers
  <2>4. CASE /\ gates.cooldown
             /\ \E action \in Bounded : \E r : _decided(action, r, recent, ticks)
    <3>1. PICK action \in Bounded : \E r : _decided(action, r, recent, ticks)
      BY <2>4
    <3>2. PICK r : _decided(action, r, recent, ticks)
      BY <3>1
    <3>3. Records' /\ ~Deciding'
      BY <2>1, <2>2, <2>4, <3>2, Charged
    <3> QED
      BY <3>3 DEF GatesHold
  <2>5. CASE gates.hourly /\ _decided("escalate_to_brain", found, recent, ticks)
    <3>1. "escalate_to_brain" \notin Bounded
      BY DEF Bounded
    <3>2. Records' /\ ~Deciding'
      BY <2>1, <2>2, <2>5, <3>1, Charged
    <3> QED
      BY <3>2 DEF GatesHold
  <2>6. CASE DecideNudge
    <3>1. \/ gates.cooldown /\ \E s : _decided("nudge", s, recent, ticks)
          \/ UNCHANGED policyVars /\ UNCHANGED gates
      BY <2>6 DEF DecideNudge
    <3> QED
      BY <2>3, <2>4, <3>1 DEF Bounded
  <2>7. CASE DecideFallback
    <3>1. \/ gates.cooldown /\ _decided("pause_intake", None, recent, ticks)
          \/ gates.hourly /\ _decided("escalate_to_brain", found, recent, ticks)
          \/ UNCHANGED policyVars /\ ~Deciding'
      BY <2>7 DEF DecideFallback, Leave, Deciding
    <3> QED
      BY <2>3, <2>4, <2>5, <3>1 DEF Bounded
  <2> QED
    BY <1>2, <2>6, <2>7
<1> QED
  BY <1>1, <1>2

\* Every step of the daemon and of the world around it keeps the budgets.
LEMMA NextBudget == BudgetInv /\ [Next]_vars => BudgetInv'
<1> SUFFICES ASSUME BudgetInv, [Next]_vars PROVE BudgetInv'
  OBVIOUS
<1>0. now \in Nat /\ ticks \in Nat
  BY DEF BudgetInv, Records, Numbers
<1>1. CASE DecideRetry \/ DecideNudge \/ DecideFallback
  BY <1>1, DecideKeeps
<1>2. CASE Restart
  <2>1. IsFiniteSet(recent')
    BY <1>2, FS_EmptySet DEF Restart
  <2> QED
    BY <1>0, <1>2, <2>1
    DEF Restart, Leave, BudgetInv, Records, Numbers, Listed, Dated, GatesHold, Deciding,
        CooldownHeld, HourlyCapHeld
<1>3. CASE \E r \in Runs : Submitted(r) \/ RunMoves(r)
  <2>1. UNCHANGED <<now, ticks, policyVars, stage, gates>>
    BY <1>3 DEF Submitted, RunMoves
  <2> QED
    BY <1>0, <2>1, Passing DEF Deciding
<1>4. CASE OperatorIntake \/ Elapse \/ OtherTick \/ UNCHANGED vars
  <2>1. /\ now' \in Nat /\ now <= now' /\ ticks' \in Nat /\ ticks <= ticks'
        /\ UNCHANGED <<policyVars, stage, gates>>
        /\ Deciding' => ticks' = ticks
    BY <1>0, <1>4 DEF OperatorIntake, Elapse, OtherTick, vars, policyVars, Deciding
  <2> QED
    BY <2>1, Passing DEF Deciding
<1>5. CASE \/ ApplyPause \/ (\E r \in Runs : ApplySubmit(r)) \/ ApplyRefused
           \/ increment_intervention_count \/ Journal
  <2>1. UNCHANGED <<now, ticks, policyVars>> /\ stage' \in {"idle", "count", "journal"}
    BY <1>5 DEF ApplyPause, ApplySubmit, ApplyRefused, increment_intervention_count,
                Journal, Leave
  <2> QED
    BY <1>0, <2>1, Passing DEF Deciding
<1> QED
  BY <1>1, <1>2, <1>3, <1>4, <1>5 DEF Next, Handle

\* BudgetInv holds in every behaviour of the daemon.
THEOREM BudgetInvariant == Spec => []BudgetInv
BY InitBudget, NextBudget, PTL DEF Spec

\* For every cooldown, no two of RETRY, NUDGE and PAUSE_INTAKE come closer than it.
THEOREM CooldownAlwaysHeld == Spec => []CooldownHeld
<1>1. BudgetInv => CooldownHeld
  BY DEF BudgetInv, Records
<1> QED
  BY <1>1, BudgetInvariant, PTL

\* For every ceiling, no hour of the process sees more attempts than it allows.
THEOREM HourlyCapAlwaysHeld == Spec => []HourlyCapHeld
<1>1. BudgetInv => HourlyCapHeld
  BY DEF BudgetInv, Records
<1> QED
  BY <1>1, BudgetInvariant, PTL

-----------------------------------------------------------------------------
(* What is promised of a run that failed.                                  *)

\* A retry was resubmitted but not counted yet.
Uncounted(r) == stage = "count" /\ target.action = "retry" /\ target.run = r

\* Every resubmission is counted, is about to be, or was lost to a restart.
Counted ==
  \A r \in Runs :
    applied[r] <= count[r] + boots + (IF Uncounted(r) THEN 1 ELSE 0)

\* The run an action is about to be applied to, or was just applied to, exists; one
\* to be retried is still retryable and within its budget.
Targeted ==
  /\ stage \in {"apply", "count"} /\ target.action \in {"retry", "nudge"} =>
       target.run \in Runs
  /\ stage = "apply" /\ target.action = "retry" =>
       count[target.run] < MaxRetries /\ status[target.run] \in _RETRYABLE_STATUSES
  /\ stage = "count" => target.action \in {"retry", "nudge"}

\* The inductive invariant behind RetriesSound.
RetryInv == TypeOK /\ Counted /\ RetriesBounded /\ Targeted

\* The newest of some runs is one of them.
LEMMA NewestIsOne ==
  ASSUME age \in [Runs -> Nat], NEW S \in SUBSET Runs, S # {}
  PROVE  Newest(S) \in S
<1> DEFINE newer(r) == {s \in S : age[s] > age[r]}
           T == {newer(r) : r \in S}
<1>1. \A r \in S : IsFiniteSet(newer(r)) /\ newer(r) \subseteq Runs
  BY RunsAssumption, FS_Subset
<1>2. T \subseteq FiniteSubsetsOf(Runs) /\ T # {}
  BY <1>1 DEF FiniteSubsetsOf
<1>3. \E x \in T : \A y \in T : ~ (<<y, x>> \in StrictSubsetOrdering(Runs))
  BY <1>2, WFMin, FS_StrictSubsetOrderingWellFounded
<1>4. PICK r \in S : \A y \in T : ~ (<<y, newer(r)>> \in StrictSubsetOrdering(Runs))
  BY <1>3
<1>5. ASSUME NEW s \in S, ~(age[s] <= age[r])
      PROVE  FALSE
  <2>1. newer(s) \subseteq newer(r) /\ s \in newer(r) /\ s \notin newer(s)
    BY <1>5
  <2>2. <<newer(s), newer(r)>> \in StrictSubsetOrdering(Runs)
    BY <1>1, <2>1 DEF StrictSubsetOrdering
  <2> QED
    BY <1>4, <2>2
<1> QED
  BY <1>5 DEF Newest

\* A daemon that never ran has retried nothing.
LEMMA InitRetry == Init => RetryInv
<1> SUFFICES ASSUME Init PROVE RetryInv
  OBVIOUS
<1>1. /\ intakePaused \in BOOLEAN /\ gates \in [hourly : BOOLEAN, cooldown : BOOLEAN]
  BY Zenon DEF Init, Closed
<1>2. TypeOK
  BY <1>1 DEF Init, TypeOK, NoTarget, RunStatus, OpencodeAction, Bounded
<1>3. Counted /\ RetriesBounded /\ Targeted
  BY BudgetAssumption DEF Init, Counted, RetriesBounded, Targeted, Uncounted
<1> QED
  BY <1>2, <1>3 DEF RetryInv

\* _decided() keeps every type and puts the target in place.
LEMMA DecidedTypes ==
  ASSUME TypeOK, NEW action \in OpencodeAction, NEW r \in Runs \cup {None},
         NEW kept \in SUBSET recent, NEW n \in Nat, _decided(action, r, kept, n)
  PROVE  /\ lastTick' \in Nat /\ recent' \in SUBSET Attempt /\ attempts' \in SUBSET Attempt
         /\ target' = [action |-> action, run |-> r]
         /\ target' \in [action : OpencodeAction, run : Runs \cup {None}]
         /\ gates' \in [hourly : BOOLEAN, cooldown : BOOLEAN]
         /\ found' \in Runs \cup {None}
         /\ stage' = IF action = "escalate_to_brain" THEN "journal" ELSE "apply"
<1>1. [tick |-> n, at |-> now, action |-> action] \in Attempt
  BY DEF TypeOK, Attempt
<1>2. gates' \in [hourly : BOOLEAN, cooldown : BOOLEAN]
  BY Zenon DEF _decided, Closed
<1>3. recent' \in SUBSET Attempt /\ attempts' \in SUBSET Attempt
  BY <1>1 DEF _decided, TypeOK
<1> QED
  BY <1>2, <1>3 DEF _decided

\* decide() names a target within its budget.
LEMMA DecideRetryInv ==
  ASSUME RetryInv, DecideRetry \/ DecideNudge \/ DecideFallback
  PROVE  RetryInv'
<1> USE DEF RetryInv
<1>1. /\ UNCHANGED <<now, boots, runVars, outcomeVars>>
      /\ ticks' \in Nat
      /\ stage \notin {"apply", "count", "journal"}
      /\ recent \in SUBSET Attempt
  BY DEF DecideRetry, DecideNudge, DecideFallback, TypeOK
<1>2. ASSUME NEW action \in OpencodeAction, NEW r \in Runs \cup {None},
             NEW kept \in SUBSET recent, NEW n \in Nat, _decided(action, r, kept, n),
             action \in {"retry", "nudge"} => r \in Runs,
             action = "retry" => count[r] < MaxRetries /\ status[r] = "failed"
      PROVE  RetryInv'
  <2>1. /\ lastTick' \in Nat /\ recent' \in SUBSET Attempt /\ attempts' \in SUBSET Attempt
        /\ target' = [action |-> action, run |-> r]
        /\ target' \in [action : OpencodeAction, run : Runs \cup {None}]
        /\ gates' \in [hourly : BOOLEAN, cooldown : BOOLEAN]
        /\ found' \in Runs \cup {None}
        /\ stage' = IF action = "escalate_to_brain" THEN "journal" ELSE "apply"
    BY <1>2, DecidedTypes
  <2>2. TypeOK'
    BY <1>1, <2>1 DEF TypeOK, runVars, outcomeVars
  <2>3. target'.action = action /\ target'.run = r
    BY <2>1
  <2>4. Counted' /\ RetriesBounded'
    BY <1>1, <2>1 DEF TypeOK, runVars, outcomeVars, Counted, RetriesBounded, Uncounted
  <2>5. Targeted'
    BY <1>1, <1>2, <2>1, <2>3 DEF runVars, Targeted, _RETRYABLE_STATUSES
  <2> QED
    BY <2>2, <2>4, <2>5
<1>3. ASSUME stage' \in {"stalls", "counts", "idle"},
             UNCHANGED <<lastTick, attempts>>, recent' \in SUBSET recent,
             target' \in {target, NoTarget},
             gates' \in [hourly : BOOLEAN, cooldown : BOOLEAN],
             found' \in Runs \cup {None}
      PROVE  RetryInv'
  <2>1. target' \in [action : OpencodeAction, run : Runs \cup {None}]
    BY <1>3 DEF TypeOK, NoTarget, OpencodeAction, Bounded
  <2>2. TypeOK'
    BY <1>1, <1>3, <2>1 DEF TypeOK, runVars, outcomeVars
  <2>3. Counted' /\ RetriesBounded'
    BY <1>1, <1>3 DEF TypeOK, runVars, outcomeVars, Counted, RetriesBounded, Uncounted
  <2>4. Targeted'
    BY <1>3 DEF Targeted
  <2> QED
    BY <2>2, <2>3, <2>4
<1>4. CASE DecideRetry
  <2> DEFINE retryable == {r \in recent_retryable_runs : count[r] < MaxRetries}
  <2>1. retryable \in SUBSET Runs /\ recent_retryable_runs \in SUBSET Runs
    BY DEF recent_retryable_runs
  <2>2. Unexpired \in SUBSET recent /\ ticks + 1 \in Nat
    BY DEF Unexpired, TypeOK
  <2>3. CASE retryable # {} /\ _decided("retry", Newest(retryable), Unexpired, ticks + 1)
    <3>1. Newest(retryable) \in retryable
      BY <2>1, <2>3, NewestIsOne DEF TypeOK
    <3> DEFINE r == Newest(retryable)
    <3>2. r \in Runs /\ count[r] < MaxRetries /\ status[r] = "failed"
      BY <3>1, <2>1 DEF recent_retryable_runs
    <3>3. _decided("retry", r, Unexpired, ticks + 1)
      BY <2>3
    <3> HIDE DEF r
    <3> QED
      BY <1>2, <2>2, <3>2, <3>3 DEF OpencodeAction, Bounded
  <2>4. CASE /\ stage' = "stalls"
             /\ gates' = [hourly |-> ~_hourly_budget_exhausted,
                          cooldown |-> ~_hourly_budget_exhausted /\ ~_in_cooldown]
             /\ found' = IF recent_retryable_runs = {} THEN None
                         ELSE Newest(recent_retryable_runs)
             /\ recent' = Unexpired
             /\ UNCHANGED <<lastTick, attempts, target>>
    <3>1. gates' \in [hourly : BOOLEAN, cooldown : BOOLEAN]
      BY <2>4, Zenon
    <3>2. found' \in Runs \cup {None}
      BY <2>1, <2>4, NewestIsOne DEF TypeOK
    <3> QED
      BY <1>3, <2>2, <2>4, <3>1, <3>2
  <2> QED
    BY <1>4, <2>3, <2>4 DEF DecideRetry
<1>5. CASE DecideNudge
  <2>1. PICK s \in Runs \cup {None} :
          \/ s # None /\ _decided("nudge", s, recent, ticks)
          \/ /\ stage' = "counts"
             /\ found' = IF found = None THEN s ELSE found
             /\ UNCHANGED <<policyVars, gates, target>>
    BY <1>5 DEF DecideNudge
  <2>2. CASE s # None /\ _decided("nudge", s, recent, ticks)
    BY <1>2, <2>2 DEF TypeOK, OpencodeAction, Bounded
  <2>3. CASE /\ stage' = "counts"
             /\ found' = IF found = None THEN s ELSE found
             /\ UNCHANGED <<policyVars, gates, target>>
    BY <1>3, <2>3 DEF TypeOK, policyVars
  <2> QED
    BY <2>1, <2>2, <2>3
<1>6. CASE DecideFallback
  <2>1. \/ _decided("pause_intake", None, recent, ticks)
        \/ _decided("escalate_to_brain", found, recent, ticks)
        \/ Leave /\ UNCHANGED policyVars
    BY <1>6 DEF DecideFallback
  <2>2. CASE Leave /\ UNCHANGED policyVars
    <3>1. gates' \in [hourly : BOOLEAN, cooldown : BOOLEAN]
      BY <2>2, Zenon DEF Leave, Closed
    <3> QED
      BY <1>3, <2>2, <3>1 DEF Leave, policyVars
  <2>3. CASE _decided("pause_intake", None, recent, ticks)
    BY <1>2, <2>3 DEF TypeOK, OpencodeAction, Bounded
  <2>4. CASE _decided("escalate_to_brain", found, recent, ticks)
    BY <1>2, <2>4 DEF TypeOK, OpencodeAction, Bounded
  <2> QED
    BY <2>1, <2>2, <2>3, <2>4
<1> QED
  BY <1>4, <1>5, <1>6

\* Creating a run touches no run there was.
LEMMA CreateKeeps ==
  ASSUME status \in [Runs -> RunStatus], age \in [Runs -> Nat], NEW r \in Runs, Create(r)
  PROVE  /\ status' \in [Runs -> RunStatus]
         /\ age' \in [Runs -> Nat]
         /\ \A x \in Runs : status[x] # "none" => status'[x] = status[x]
<1>1. Cardinality({s \in Runs : status[s] # "none"}) \in Nat
  BY RunsAssumption, FS_Subset, FS_CardinalityType
<1> QED
  BY <1>1 DEF Create, RunStatus

\* The rest of handle() charges the run it acted on.
LEMMA ApplyRetryInv ==
  ASSUME RetryInv,
         \/ ApplyPause \/ (\E r \in Runs : ApplySubmit(r)) \/ ApplyRefused
         \/ increment_intervention_count \/ Journal
  PROVE  RetryInv'
<1> USE DEF RetryInv
<1>1. CASE ApplyPause
  <2>1. TypeOK'
    BY <1>1, Zenon DEF ApplyPause, TypeOK, policyVars, outcomeVars
  <2>2. Counted' /\ RetriesBounded' /\ Targeted'
    BY <1>1 DEF ApplyPause, outcomeVars, Counted, RetriesBounded, Targeted, Uncounted
  <2> QED
    BY <2>1, <2>2
<1>2. ASSUME NEW r \in Runs, ApplySubmit(r)
      PROVE  RetryInv'
  <2>1. /\ status' \in [Runs -> RunStatus]
        /\ age' \in [Runs -> Nat]
        /\ \A x \in Runs : status[x] # "none" => status'[x] = status[x]
    BY <1>2, CreateKeeps DEF TypeOK, ApplySubmit
  <2>2. /\ stage = "apply" /\ stage' = "count" /\ target' = target
        /\ target.action \in {"retry", "nudge"} /\ target.run \in Runs
        /\ UNCHANGED <<now, ticks, boots, count, intakePaused, gates, found, policyVars, journal>>
        /\ applied' = IF target.action = "retry"
                        THEN [applied EXCEPT ![target.run] = @ + 1] ELSE applied
    BY <1>2 DEF ApplySubmit, Targeted
  <2>3. applied' \in [Runs -> Nat]
    BY <2>2 DEF TypeOK
  <2>4. TypeOK'
    BY <2>1, <2>2, <2>3 DEF TypeOK, policyVars
  <2>5. CASE target.action = "retry"
    <3>1. \A x \in Runs : ~Uncounted(x)
      BY <2>2 DEF Uncounted
    <3>2. /\ applied'[target.run] = applied[target.run] + 1
          /\ \A x \in Runs \ {target.run} : applied'[x] = applied[x]
      BY <2>2, <2>5 DEF TypeOK
    <3>3. /\ boots \in Nat /\ MaxRetries \in Nat
          /\ \A x \in Runs : applied[x] \in Nat /\ count[x] \in Nat
      BY BudgetAssumption DEF TypeOK
    <3>4. count[target.run] < MaxRetries /\ applied[target.run] <= count[target.run] + boots
      BY <2>2, <2>5, <3>1, <3>3 DEF Targeted, Counted
    <3>5. RetriesBounded'
      BY <2>2, <3>4, <3>2, <3>3 DEF RetriesBounded
    <3>6. \A x \in Runs : applied[x] <= count[x] + boots
      BY <3>1, <3>3 DEF Counted
    <3>7. Uncounted(target.run)'
      BY <2>2, <2>5 DEF Uncounted
    <3>8. Counted'
      BY <2>2, <3>2, <3>3, <3>6, <3>7 DEF Counted
    <3>9. Targeted'
      BY <2>2 DEF Targeted
    <3> QED
      BY <2>4, <3>5, <3>8, <3>9
  <2>6. CASE target.action = "nudge"
    BY <2>2, <2>4, <2>6 DEF Counted, RetriesBounded, Targeted, Uncounted
  <2> QED
    BY <2>2, <2>5, <2>6
<1>3. CASE increment_intervention_count
  <2>1. target.run \in Runs /\ stage = "count" /\ stage' = "journal"
    BY <1>3 DEF increment_intervention_count, Targeted
  <2>2. /\ count' = [count EXCEPT ![target.run] = @ + 1]
        /\ UNCHANGED <<now, ticks, boots, status, age, intakePaused, gates, found, target,
                       policyVars, outcomeVars>>
    BY <1>3 DEF increment_intervention_count
  <2>3. TypeOK'
    BY <2>1, <2>2 DEF TypeOK, policyVars, outcomeVars
  <2>4. /\ boots \in Nat
        /\ \A x \in Runs : applied[x] \in Nat /\ count[x] \in Nat
    BY DEF TypeOK
  <2>5. /\ count'[target.run] = count[target.run] + 1
        /\ \A x \in Runs \ {target.run} : count'[x] = count[x]
    BY <2>1, <2>2 DEF TypeOK
  <2>6. Counted'
    BY <2>1, <2>2, <2>4, <2>5 DEF Counted, Uncounted, outcomeVars
  <2>7. RetriesBounded' /\ Targeted'
    BY <2>1, <2>2 DEF RetriesBounded, Targeted, outcomeVars
  <2> QED
    BY <2>3, <2>6, <2>7
<1>4. CASE ApplyRefused \/ Journal
  <2>1. /\ UNCHANGED <<now, ticks, boots, runVars, policyVars, applied>>
        /\ stage # "count" /\ stage' = "idle" /\ target' = NoTarget /\ found' = None
        /\ journal' \in {journal, journal \cup {ticks}}
    BY <1>4 DEF ApplyRefused, Journal, Leave, outcomeVars
  <2>2. gates' \in [hourly : BOOLEAN, cooldown : BOOLEAN]
    <3>1. gates' = Closed
      BY <1>4 DEF ApplyRefused, Journal, Leave
    <3> QED
      BY <3>1, Zenon DEF Closed
  <2>3. TypeOK'
    BY <2>1, <2>2 DEF TypeOK, NoTarget, OpencodeAction, Bounded, policyVars, runVars
  <2>4. Counted' /\ RetriesBounded' /\ Targeted'
    BY <2>1 DEF Counted, RetriesBounded, Targeted, Uncounted, runVars
  <2> QED
    BY <2>3, <2>4
<1> QED
  BY <1>1, <1>2, <1>3, <1>4

\* What the executor and the clock do while the handler is suspended leaves its target
\* as good as it was chosen.
LEMMA AroundRetryInv ==
  ASSUME RetryInv,
         \/ \E r \in Runs : Submitted(r) \/ RunMoves(r)
         \/ OperatorIntake \/ Elapse \/ OtherTick
  PROVE  RetryInv'
<1> USE DEF RetryInv
<1>1. /\ UNCHANGED <<boots, count, stage, gates, found, target, policyVars, outcomeVars>>
      /\ now' \in Nat /\ ticks' \in Nat
  BY DEF Submitted, RunMoves, OperatorIntake, Elapse, OtherTick, TypeOK, runVars
<1>2. intakePaused' \in BOOLEAN
  <2>1. \/ intakePaused' = intakePaused
        \/ intakePaused' \in BOOLEAN \ {intakePaused}
    BY DEF Submitted, RunMoves, OperatorIntake, Elapse, OtherTick, runVars
  <2> QED
    BY <2>1 DEF TypeOK
<1>3. /\ status' \in [Runs -> RunStatus] /\ age' \in [Runs -> Nat]
      /\ \A x \in Runs : status[x] \in _RETRYABLE_STATUSES
                           => status'[x] \in _RETRYABLE_STATUSES
  <2>1. CASE \E r \in Runs : Submitted(r)
    <3>1. PICK r \in Runs : Submitted(r)
      BY <2>1
    <3> QED
      BY <3>1, CreateKeeps DEF Submitted, TypeOK, _RETRYABLE_STATUSES
  <2>2. CASE \E r \in Runs : RunMoves(r)
    BY <2>2 DEF RunMoves, TypeOK, RunStatus, Active, _RETRYABLE_STATUSES
  <2>3. CASE OperatorIntake \/ Elapse \/ OtherTick
    BY <2>3 DEF OperatorIntake, Elapse, OtherTick, TypeOK, runVars
  <2> QED
    BY <2>1, <2>2, <2>3
<1>4. TypeOK'
  BY <1>1, <1>2, <1>3 DEF TypeOK, policyVars, outcomeVars
<1>5. Counted' /\ RetriesBounded' /\ Targeted'
  BY <1>1, <1>3 DEF Counted, RetriesBounded, Targeted, Uncounted, outcomeVars
<1> QED
  BY <1>4, <1>5

\* A restart loses at most the one charge that was under way.
LEMMA RestartRetryInv ==
  ASSUME RetryInv, Restart
  PROVE  RetryInv'
<1> USE DEF RetryInv
<1>1. /\ boots' = boots + 1
      /\ UNCHANGED <<now, age, count, applied>>
      /\ stage' = "idle" /\ target' = NoTarget /\ found' = None
      /\ ticks' = 0 /\ lastTick' = 0
      /\ recent' = {} /\ attempts' = {} /\ journal' = {}
      /\ intakePaused' \in BOOLEAN
  BY DEF Restart, Leave
<1>2. gates' \in [hourly : BOOLEAN, cooldown : BOOLEAN]
  BY Zenon DEF Restart, Leave, Closed
<1>3. status' \in [Runs -> RunStatus]
  BY DEF Restart, TypeOK, RunStatus, Active
<1>4. TypeOK'
  BY <1>1, <1>2, <1>3 DEF TypeOK, NoTarget, OpencodeAction, Bounded
<1>5. /\ boots \in Nat /\ MaxRetries \in Nat
      /\ \A x \in Runs : applied[x] \in Nat /\ count[x] \in Nat
  BY BudgetAssumption DEF TypeOK
<1>6. Counted' /\ RetriesBounded'
  BY <1>1, <1>5 DEF Counted, RetriesBounded, Uncounted
<1>7. Targeted'
  BY <1>1 DEF Targeted
<1> QED
  BY <1>4, <1>6, <1>7

LEMMA NextRetry == RetryInv /\ [Next]_vars => RetryInv'
<1> SUFFICES ASSUME RetryInv, [Next]_vars PROVE RetryInv'
  OBVIOUS
<1>1. CASE UNCHANGED vars
  BY <1>1 DEF vars, RetryInv, TypeOK, Counted, RetriesBounded, Targeted, Uncounted
<1>2. CASE DecideRetry \/ DecideNudge \/ DecideFallback
  BY <1>2, DecideRetryInv
<1>3. CASE \/ ApplyPause \/ (\E r \in Runs : ApplySubmit(r)) \/ ApplyRefused
           \/ increment_intervention_count \/ Journal
  BY <1>3, ApplyRetryInv
<1>4. CASE \/ \E r \in Runs : Submitted(r) \/ RunMoves(r)
           \/ OperatorIntake \/ Elapse \/ OtherTick
  BY <1>4, AroundRetryInv
<1>5. CASE Restart
  BY <1>5, RestartRetryInv
<1> QED
  BY <1>1, <1>2, <1>3, <1>4, <1>5 DEF Next, Handle

\* RetryInv holds in every behaviour of the daemon.
THEOREM RetryInvariant == Spec => []RetryInv
BY InitRetry, NextRetry, PTL DEF Spec

\* Every variable of the policy, the handler and the runs keeps its type.
THEOREM InterventionTypes == Spec => []TypeOK
<1>1. RetryInv => TypeOK
  BY DEF RetryInv
<1> QED
  BY <1>1, RetryInvariant, PTL

\* For every budget: only a run that failed is retried, and no more often than the
\* budget says but for one retry each restart of the daemon may lose the count of.
THEOREM RetriesAlwaysSound == Spec => []RetriesSound
<1>1. RetryInv => RetriesSound
  BY DEF RetryInv, RetriesSound, RetryTargetsFailed, Targeted
<1> QED
  BY <1>1, RetryInvariant, PTL
=============================================================================
