----------------------------- MODULE HeartProofs -----------------------------
(***************************************************************************)
(* What the processes that use the Heart promise, for every configuration: *)
(* the daemon's ticks (HeartTick), the bench (HeartBench) and the report   *)
(* store (ReportStore).  A behaviour of HeartUse is of one of the three,   *)
(* so each has an inductive invariant over its own variables.              *)
(***************************************************************************)
EXTENDS HeartUse, TLAPS, FiniteSetTheorems, FunctionTheorems

-----------------------------------------------------------------------------
(* Lists, orders and counts                                                *)

(* A list with one more.                                                   *)
LEMMA AppendIs ==
    ASSUME NEW S, NEW s \in Seq(S), NEW e \in S
    PROVE  /\ Append(s, e) \in Seq(S)
           /\ DOMAIN s = 1 .. Len(s) /\ Len(s) \in Nat /\ Len(Append(s, e)) = Len(s) + 1
           /\ DOMAIN Append(s, e) = 1 .. Len(s) + 1
           /\ \A i \in DOMAIN s : Append(s, e)[i] = s[i] /\ s[i] \in S
           /\ Append(s, e)[Len(s) + 1] = e
  OBVIOUS

\* What comes before i in the order Sorted puts a set in.
Before(S, key, i) == {j \in S : key[j] < key[i] \/ (key[j] = key[i] /\ j < i)}

(* Sorted lists every element once, smallest key first.                    *)
LEMMA SortedIs ==
    ASSUME NEW S \in SUBSET Int, IsFiniteSet(S), NEW key, \A i \in S : key[i] \in Int
    PROVE  LET f == Sorted(S, key)
               n == Cardinality(S)
           IN /\ n \in Nat /\ f \in [1 .. n -> S]
              /\ \A i \in S : \E p \in 1 .. n : f[p] = i
              /\ \A p, q \in 1 .. n : p < q => f[p] # f[q] /\ key[f[p]] <= key[f[q]]
<1> DEFINE f == Sorted(S, key)
           n == Cardinality(S)
           c(i) == Cardinality(Before(S, key, i))
           g == [i \in S |-> c(i) + 1]
<1>1. n \in Nat
  BY FS_CardinalityType
<1>2. ASSUME NEW i \in S PROVE c(i) \in 0 .. n - 1
  <2>1. Before(S, key, i) \subseteq S /\ i \notin Before(S, key, i)
    BY DEF Before
  <2>2. IsFiniteSet(Before(S, key, i)) /\ c(i) <= n /\ c(i) # n
    BY <2>1, FS_Subset
  <2>3. c(i) \in Nat
    BY <2>2, FS_CardinalityType
  <2>4. QED
    BY <1>1, <2>2, <2>3
<1>3. ASSUME NEW i \in S, NEW j \in S, i \in Before(S, key, j) PROVE c(i) < c(j)
  <2>1. Before(S, key, i) \subseteq Before(S, key, j)
    <3> SUFFICES ASSUME NEW k \in S, key[k] < key[i] \/ (key[k] = key[i] /\ k < i)
                 PROVE  key[k] < key[j] \/ (key[k] = key[j] /\ k < j)
      BY DEF Before
    <3>1. key[i] < key[j] \/ (key[i] = key[j] /\ i < j)
      BY <1>3 DEF Before
    <3>2. {i, j, k} \subseteq Int /\ key[i] \in Int /\ key[j] \in Int /\ key[k] \in Int
      OBVIOUS
    <3>3. QED
      BY <3>1, <3>2
  <2>2. i \notin Before(S, key, i)
    BY DEF Before
  <2>3. IsFiniteSet(Before(S, key, j))
    BY FS_Subset DEF Before
  <2>4. c(i) <= c(j) /\ c(i) # c(j)
    BY <1>3, <2>1, <2>2, <2>3, FS_Subset
  <2>5. c(i) \in Nat /\ c(j) \in Nat
    BY <1>2
  <2>6. QED
    BY <2>4, <2>5
<1>4. \A i, j \in S : i # j => i \in Before(S, key, j) \/ j \in Before(S, key, i)
  BY DEF Before
<1> HIDE DEF c
<1>5. g \in Injection(S, 1 .. n)
  <2>1. \A i \in S : c(i) + 1 \in 1 .. n
    BY <1>1, <1>2
  <2>2. \A i, j \in S : c(i) + 1 = c(j) + 1 => i = j
    BY <1>1, <1>2, <1>3, <1>4
  <2>3. QED
    BY <2>1, <2>2 DEF Injection, IsInjective
<1>6. IsFiniteSet(1 .. n) /\ Cardinality(1 .. n) = n
  <2>1. 1 \in Int /\ n \in Int
    BY <1>1
  <2>2. QED
    BY <1>1, <2>1, FS_Interval
<1>7. g \in Surjection(S, 1 .. n)
  BY <1>5, <1>6, FS_Injection
<1>8. \A p \in 1 .. n : \E i \in S : c(i) = p - 1
  <2> TAKE p \in 1 .. n
  <2>1. PICK i \in S : g[i] = p
    BY <1>7 DEF Surjection
  <2>2. c(i) \in 0 .. n - 1 /\ c(i) + 1 = p
    BY <1>2, <2>1
  <2>3. QED
    BY <1>1, <2>2
<1>9. f = [p \in 1 .. n |-> CHOOSE i \in S : c(i) = p - 1]
  BY DEF Sorted, c, Before
<1>10. \A p \in 1 .. n : f[p] \in S /\ c(f[p]) = p - 1
  <2> TAKE p \in 1 .. n
  <2>1. f[p] = CHOOSE i \in S : c(i) = p - 1
    BY <1>9
  <2>2. QED
    BY <1>8, <2>1
<1>11. f \in [1 .. n -> S]
  BY <1>9, <1>10
<1> HIDE DEF f, n
<1>12. ASSUME NEW i \in S PROVE \E p \in 1 .. n : f[p] = i
  <2> DEFINE p == c(i) + 1
  <2>1. p \in 1 .. n /\ c(i) \in Nat
    BY <1>1, <1>2
  <2>2. f[p] \in S /\ c(f[p]) = c(i)
    BY <1>10, <2>1
  <2>3. f[p] = i
    <3>1. c(f[p]) \in Int /\ c(i) \in Int
      BY <2>1, <2>2
    <3> DEFINE j == f[p]
    <3> HIDE DEF p
    <3>2. j \in S /\ c(j) = c(i)
      BY <2>2
    <3> HIDE DEF j
    <3>3. j = i
      BY <1>3, <1>4, <3>2, <2>1
    <3>4. QED
      BY <3>3 DEF j
  <2>4. QED
    BY <2>1, <2>3
<1>13. ASSUME NEW p \in 1 .. n, NEW q \in 1 .. n, p < q
       PROVE  f[p] # f[q] /\ key[f[p]] <= key[f[q]]
  <2> DEFINE i == f[p]
             j == f[q]
  <2>1. i \in S /\ j \in S /\ c(i) = p - 1 /\ c(j) = q - 1
    BY <1>10
  <2> HIDE DEF i, j
  <2>2. c(i) < c(j)
    BY <1>1, <1>13, <2>1
  <2>3. i # j
    BY <2>1, <2>2, <1>1, <1>13
  <2>4. ~(j \in Before(S, key, i))
    <3>1. SUFFICES ASSUME c(j) < c(i) PROVE FALSE
      BY <1>3, <2>1
    <3>2. QED
      BY <1>1, <1>13, <2>1, <2>2, <3>1
  <2>5. key[i] <= key[j]
    BY <2>1, <2>4 DEF Before
  <2>6. QED
    BY <2>3, <2>5 DEF i, j
<1>14. QED
  BY <1>1, <1>11, <1>12, <1>13 DEF f, n

(* Of some numbers up to a bound one is the greatest.                      *)
LEMMA Greatest ==
    ASSUME NEW N \in Nat, NEW T \in SUBSET (0 .. N), T # {}
    PROVE  \E m \in T : \A k \in T : k <= m
<1> DEFINE key == [i \in T |-> i]
           f == Sorted(T, key)
           n == Cardinality(T)
<1>1. T \in SUBSET Int /\ \A i \in T : i \in Int /\ key[i] = i
  OBVIOUS
<1>2. IsFiniteSet(T)
  <2>1. IsFiniteSet(0 .. N)
    BY FS_Interval
  <2>2. QED
    BY <2>1, FS_Subset
<1> HIDE DEF key
<1>3. /\ n \in Nat /\ f \in [1 .. n -> T]
      /\ \A i \in T : \E p \in 1 .. n : f[p] = i
      /\ \A p, q \in 1 .. n : p < q => f[p] # f[q] /\ key[f[p]] <= key[f[q]]
  BY <1>1, <1>2, SortedIs
<1> HIDE DEF f, n
<1>4. n \in 1 .. n
  <2>1. PICK i \in T : TRUE
    OBVIOUS
  <2>2. PICK p \in 1 .. n : f[p] = i
    BY <1>3
  <2>3. QED
    BY <1>3, <2>2
<1>5. f[n] \in T
  BY <1>3, <1>4
<1>6. ASSUME NEW k \in T PROVE k <= f[n]
  <2>1. PICK p \in 1 .. n : f[p] = k
    BY <1>3
  <2>2. CASE p = n
    BY <1>1, <2>1, <2>2
  <2>3. CASE p < n
    BY <1>1, <1>3, <1>4, <1>5, <2>1, <2>3
  <2>4. QED
    BY <1>3, <2>2, <2>3
<1>7. QED
  BY <1>5, <1>6

-----------------------------------------------------------------------------
(* Within a process that uses the Heart a step is one of the daemon or     *)
(* leaves the tick alone.                                                  *)
LEMMA UseSteps == [UseNext]_useVars => [Next]_vars
  BY DEF UseNext, useVars

LEMMA UseInits == UseInit => Init
  BY DEF UseInit, NoDaemon

-----------------------------------------------------------------------------
(* The bench: what a transcript, a budget and a selection are              *)

Events == [n : Nat, cost : Nat]

(* The tokens of some events are a number, and those of none are none.     *)
LEMMA CostIs ==
    ASSUME NEW events \in Seq(Events), NEW selected
    PROVE  Cost(events, selected) \in Nat /\ Cost(events, {}) = 0
<1> DEFINE I == {j \in DOMAIN events : events[j].n \in selected}
           T == {{i} \X (1 .. events[i].cost) : i \in I}
           h == [i \in I |-> {i} \X (1 .. events[i].cost)]
<1>1. DOMAIN events = 1 .. Len(events) /\ Len(events) \in Nat /\ IsFiniteSet(1 .. Len(events))
  BY FS_Interval
<1>2. IsFiniteSet(I)
  BY <1>1, FS_Subset
<1>3. h \in Surjection(I, T)
  BY DEF Surjection
<1>4. IsFiniteSet(T)
  BY <1>2, <1>3, FS_Surjection
<1>5. ASSUME NEW i \in I PROVE IsFiniteSet({i} \X (1 .. events[i].cost))
  <2>1. events[i] \in Events
    OBVIOUS
  <2>2. events[i].cost \in Int /\ 1 \in Int
    BY <2>1 DEF Events
  <2>3. IsFiniteSet({i}) /\ IsFiniteSet(1 .. events[i].cost)
    BY <2>2, FS_Singleton, FS_Interval
  <2>4. QED
    BY <2>3, FS_Product
<1>6. IsFiniteSet(UNION T)
  BY <1>4, <1>5, FS_UNION
<1>7. Cost(events, selected) \in Nat
  BY <1>6, FS_CardinalityType DEF Cost
<1>8. Cost(events, {}) = 0
  <2>1. UNION {{i} \X (1 .. events[i].cost) : i \in {j \in DOMAIN events : events[j].n \in {}}} = {}
    OBVIOUS
  <2>2. QED
    BY <2>1, FS_EmptySet DEF Cost
<1>9. QED
  BY <1>7, <1>8

(* As many are taken as fit.                                               *)
LEMMA TakenIs ==
    ASSUME NEW events \in Seq(Events), NEW ordered, Len(ordered) \in Nat, NEW budget \in Nat
    PROVE  /\ Taken(events, ordered, budget) \in 0 .. Len(ordered)
           /\ Cost(events, {ordered[i] : i \in 1 .. Taken(events, ordered, budget)}) <= budget
<1> DEFINE Spent(k) == Cost(events, {ordered[i] : i \in 1 .. k})
           T == {k \in 0 .. Len(ordered) : Spent(k) <= budget}
<1>1. \A k : Spent(k) \in Nat
  BY CostIs
<1>2. 0 \in T
  <2>1. {ordered[i] : i \in 1 .. 0} = {}
    OBVIOUS
  <2>2. Spent(0) = 0
    BY <2>1, CostIs
  <2> HIDE DEF Spent
  <2>3. QED
    BY <2>2
<1> HIDE DEF Spent
<1>3. PICK m \in T : \A k \in T : k <= m
  BY <1>2, Greatest
<1>4. m < Len(ordered) => Spent(m + 1) > budget
  <2> SUFFICES ASSUME m < Len(ordered), ~(Spent(m + 1) > budget) PROVE FALSE
    OBVIOUS
  <2>1. m \in Nat /\ m + 1 \in 0 .. Len(ordered)
    OBVIOUS
  <2>2. Spent(m + 1) \in Nat
    BY <1>1
  <2>3. Spent(m + 1) <= budget
    BY <2>2
  <2>4. m + 1 <= m
    BY <1>3, <2>1, <2>3
  <2>5. QED
    BY <2>1, <2>4
<1>5. \E k \in 0 .. Len(ordered) :
         Spent(k) <= budget /\ (k < Len(ordered) => Spent(k + 1) > budget)
  BY <1>4
<1> DEFINE t == CHOOSE k \in 0 .. Len(ordered) :
                   Spent(k) <= budget /\ (k < Len(ordered) => Spent(k + 1) > budget)
<1>6. t \in 0 .. Len(ordered) /\ Spent(t) <= budget
  BY <1>5
<1>7. t = Taken(events, ordered, budget)
  BY DEF Taken, Spent
<1> HIDE DEF t
<1>8. QED
  BY <1>6, <1>7 DEF Spent

\* What is taken of a list of numbers of the transcript.
TakenOf(events, ordered, budget) == {ordered[i] : i \in 1 .. Taken(events, ordered, budget)}

(* It is of the list, fits, and is nothing only when something is left out. *)
LEMMA TakenFits ==
    ASSUME NEW events \in Seq(Events), NEW ordered \in Seq(Numbers(events)), NEW budget \in Nat
    PROVE  /\ TakenOf(events, ordered, budget) \subseteq Numbers(events)
           /\ Cost(events, TakenOf(events, ordered, budget)) <= budget
           /\ TakenOf(events, ordered, budget) = {} /\ ordered # <<>>
                 => Taken(events, ordered, budget) < Len(ordered)
<1>1. Len(ordered) \in Nat /\ \A i \in 1 .. Len(ordered) : ordered[i] \in Numbers(events)
  OBVIOUS
<1> DEFINE t == Taken(events, ordered, budget)
<1>2. t \in 0 .. Len(ordered) /\ Cost(events, {ordered[i] : i \in 1 .. t}) <= budget
  BY <1>1, TakenIs
<1> HIDE DEF t
<1>3. {ordered[i] : i \in 1 .. t} \subseteq Numbers(events)
  BY <1>1, <1>2
<1>4. ASSUME {ordered[i] : i \in 1 .. t} = {}, ordered # <<>> PROVE t < Len(ordered)
  <2>1. ~(1 \in 1 .. t)
    BY <1>4
  <2>2. t = 0
    BY <1>1, <1>2, <2>1
  <2>3. Len(ordered) # 0
    BY <1>4
  <2>4. QED
    BY <1>1, <2>2, <2>3
<1>5. QED
  BY <1>2, <1>3, <1>4 DEF t, TakenOf

(* The numbers of a transcript are finitely many numbers.                  *)
LEMMA NumbersAre ==
    ASSUME NEW events \in Seq(Events)
    PROVE  Numbers(events) \in SUBSET Int /\ IsFiniteSet(Numbers(events))
<1> DEFINE h == [i \in DOMAIN events |-> events[i].n]
<1>1. DOMAIN events = 1 .. Len(events) /\ Len(events) \in Nat /\ IsFiniteSet(DOMAIN events)
  BY FS_Interval
<1>2. \A i \in DOMAIN events : events[i].n \in Nat
  <2> TAKE i \in DOMAIN events
  <2>1. events[i] \in Events
    OBVIOUS
  <2>2. QED
    BY <2>1 DEF Events
<1>3. h \in Surjection(DOMAIN events, Numbers(events))
  BY DEF Surjection, Numbers
<1>4. IsFiniteSet(Numbers(events))
  BY <1>1, <1>3, FS_Surjection
<1>5. Numbers(events) \in SUBSET Int
  BY <1>2 DEF Numbers
<1>6. QED
  BY <1>4, <1>5

(* The newest that fit are of the transcript and fit.                      *)
LEMMA RecencyFits ==
    ASSUME NEW events \in Seq(Events), NEW budget \in Nat
    PROVE  /\ RecencyWindow(events, budget) \subseteq Numbers(events)
           /\ Cost(events, RecencyWindow(events, budget)) <= budget
<1> DEFINE S == Numbers(events)
           key == [n \in S |-> -n]
           newest == Sorted(S, key)
<1>1. S \in SUBSET Int /\ IsFiniteSet(S)
  BY NumbersAre
<1>2. \A n \in S : key[n] \in Int
  BY <1>1
<1> HIDE DEF key
<1>3. Cardinality(S) \in Nat /\ newest \in [1 .. Cardinality(S) -> S]
  BY <1>1, <1>2, SortedIs
<1> HIDE DEF newest
<1>4. newest \in Seq(S)
  BY <1>3
<1>5. RecencyWindow(events, budget) = TakenOf(events, newest, budget)
  BY DEF RecencyWindow, TakenOf, newest, key
<1>6. QED
  BY <1>4, <1>5, TakenFits

(* What a reply names is of the transcript.                                *)
LEMMA ParsedAre ==
    ASSUME NEW events, NEW reply \in Seq(Nat)
    PROVE  ParsedCuration(reply, events) \in Seq(Numbers(events))
<1> DEFINE first == {i \in DOMAIN reply : /\ reply[i] \in Numbers(events)
                                          /\ \A j \in 1 .. i - 1 : reply[j] # reply[i]}
           key == [i \in first |-> i]
           places == Sorted(first, key)
           n == Cardinality(first)
<1>1. DOMAIN reply = 1 .. Len(reply) /\ Len(reply) \in Nat /\ IsFiniteSet(DOMAIN reply)
  BY FS_Interval
<1>2. first \in SUBSET Int /\ IsFiniteSet(first)
  BY <1>1, FS_Subset
<1>3. \A i \in first : key[i] \in Int
  BY <1>2
<1> HIDE DEF key
<1>4. n \in Nat /\ places \in [1 .. n -> first]
  BY <1>2, <1>3, SortedIs
<1>5. \A i \in first : reply[i] \in Numbers(events)
  OBVIOUS
<1> DEFINE l == [p \in DOMAIN places |-> reply[places[p]]]
<1>6. ParsedCuration(reply, events) = l
  BY DEF ParsedCuration, key
<1> HIDE DEF first, places, n
<1>7. l \in [1 .. n -> Numbers(events)]
  BY <1>4, <1>5
<1> HIDE DEF l
<1>8. l \in Seq(Numbers(events))
  BY <1>4, <1>7
<1>9. QED
  BY <1>6, <1>8

LEMMA BudgetIs == ASSUME NEW events \in Seq(Events) PROVE CurationBudget(events) \in Nat
<1>1. Full(events) \in Nat
  BY CostIs DEF Full
<1>2. QED
  BY <1>1 DEF CurationBudget

-----------------------------------------------------------------------------
(* The bench: its invariant                                                *)

\* What a suite records of a fixture.
TickResult(r) == r.suite = "tick" /\ r.actual \in Decisions \cup {Null}

TriageResult(r) ==
    r.suite = "triage" /\ r.actual \in Classes \cup {Null} /\ r.expected \in Classes

CurationResult(r) ==
    /\ r.suite = "curation"
    /\ r.curated \subseteq Numbers(r.events) /\ Cost(r.events, r.curated) <= r.budget
    /\ r.truncated \subseteq Numbers(r.events) /\ Cost(r.events, r.truncated) <= r.budget
    /\ r.fallback => r.curated = r.truncated /\ ~r.exceeded
    /\ r.curated = {} => r.exceeded \/ r.fallback

ExtractionResult(r) ==
    \/ /\ r.suite = "intervention"
       /\ r.valid => r.action \in Actions /\ r.run_id \in r.candidates \cup {Null}
    \/ r.suite = "failure_cause" /\ (r.valid => r.evidence \in r.numbers)
    \/ r.suite = "title"

Result(suite, r) ==
    /\ \/ suite = "tick" /\ TickResult(r)
       \/ suite = "triage" /\ TriageResult(r)
       \/ suite = "curation" /\ CurationResult(r)
       \/ suite = "extraction" /\ ExtractionResult(r)
    /\ r.latency \in Nat

\* A list, whatever it is of.
IsList(l) == \E S : l \in Seq(S)

\* The inductive invariant behind RepliesTamed and BenchSound.
BenchInv ==
    /\ bpc \in {"none", "start", "load", "suite", "exit"}
    /\ bpc # "none" => file \in Files
    /\ bpc \in {"load", "suite"} => FixturesOk(file)
    /\ IsList(results) /\ \A i \in DOMAIN results : Result(file.suite, results[i])
    /\ bpc \in {"none", "start", "load"} => results = <<>> /\ ~loaded
    /\ bpc \in {"none", "start"} => ~brainOpen
    /\ brainOpen => file.suite = "curation"
    /\ verdict = "passed" => bpc = "exit"

(* A list with one more.                                                   *)
LEMMA ListGrows ==
    ASSUME NEW l, NEW r, IsList(l)
    PROVE  /\ IsList(Append(l, r))
           /\ \A i \in DOMAIN Append(l, r) :
                 Append(l, r)[i] = r \/ (i \in DOMAIN l /\ Append(l, r)[i] = l[i])
<1>1. PICK S : l \in Seq(S)
  BY DEF IsList
<1> DEFINE T == S \cup {r}
<1>2. l \in Seq(T) /\ r \in T
  BY <1>1
<1> HIDE DEF T
<1>3. /\ Append(l, r) \in Seq(T)
      /\ DOMAIN l = 1 .. Len(l) /\ Len(l) \in Nat /\ DOMAIN Append(l, r) = 1 .. Len(l) + 1
      /\ \A i \in DOMAIN l : Append(l, r)[i] = l[i]
      /\ Append(l, r)[Len(l) + 1] = r
  BY <1>2, AppendIs
<1>4. \A i \in 1 .. Len(l) + 1 : i = Len(l) + 1 \/ i \in 1 .. Len(l)
  BY <1>3
<1>5. QED
  BY <1>3, <1>4 DEF IsList

(* Results of each kind.                                                   *)
LEMMA LabelledIs ==
    ASSUME NEW line, NEW reply, NEW t \in Nat,
           file.suite = "tick" \/ (file.suite = "triage" /\ line.expect \in Classes)
    PROVE  Result(file.suite, Labelled(line, reply, t))
<1> DEFINE r == Labelled(line, reply, t)
<1>1. r.suite = file.suite /\ r.actual = Parsed(reply) /\ r.expected = line.expect /\ r.latency = t
  BY DEF Labelled
<1>2. Parsed(reply) \in Labels(file.suite) \cup {Null}
  BY DEF Parsed
<1> HIDE DEF r
<1>3. CASE file.suite = "tick"
  <2>1. Labels(file.suite) = Decisions
    BY <1>3 DEF Labels
  <2>2. QED
    BY <1>1, <1>2, <1>3, <2>1 DEF Result, TickResult, r
<1>4. CASE file.suite = "triage" /\ line.expect \in Classes
  <2>1. Labels(file.suite) = Classes
    BY <1>4 DEF Labels
  <2>2. QED
    BY <1>1, <1>2, <1>4, <2>1 DEF Result, TriageResult, r
<1>5. QED
  BY <1>3, <1>4

LEMMA CuratedIs ==
    ASSUME NEW line, line.events \in Seq(Events), NEW reply \in Seq(Nat), NEW named, NEW t \in Nat
    PROVE  Result("curation", Curated(line, reply, named, t))
<1> DEFINE events == line.events
           budget == CurationBudget(events)
           outcome == Curate(events, reply, budget)
           ordered == ParsedCuration(reply, events)
           window == RecencyWindow(events, budget)
           r == Curated(line, reply, named, t)
<1>1. /\ r.suite = "curation" /\ r.events = events /\ r.budget = budget /\ r.latency = t
      /\ r.curated = outcome.selected /\ r.fallback = outcome.fallback
      /\ r.exceeded = outcome.exceeded /\ r.truncated = window
  BY DEF Curated
<1>2. budget \in Nat
  BY BudgetIs
<1>3. ordered \in Seq(Numbers(events))
  BY ParsedAre
<1>4. outcome = IF ordered = <<>>
                THEN [selected |-> window, fallback |-> TRUE, exceeded |-> FALSE]
                ELSE [selected |-> TakenOf(events, ordered, budget), fallback |-> FALSE,
                      exceeded |-> Taken(events, ordered, budget) < Len(ordered)]
  BY DEF Curate, TakenOf
<1> HIDE DEF r, outcome, ordered, budget, window
<1>5. window \subseteq Numbers(events) /\ Cost(events, window) <= budget
  BY <1>2, RecencyFits DEF window
<1>6. CASE ordered = <<>>
  <2>1. outcome.selected = window /\ outcome.fallback = TRUE /\ outcome.exceeded = FALSE
    BY <1>4, <1>6
  <2>2. CurationResult(r)
    BY <1>1, <1>5, <2>1 DEF CurationResult
  <2>3. QED
    BY <1>1, <2>2 DEF Result, r
<1>7. CASE ordered # <<>>
  <2>1. /\ outcome.selected = TakenOf(events, ordered, budget) /\ outcome.fallback = FALSE
        /\ outcome.exceeded = (Taken(events, ordered, budget) < Len(ordered))
    BY <1>4, <1>7
  <2>2. /\ outcome.selected \subseteq Numbers(events) /\ Cost(events, outcome.selected) <= budget
        /\ outcome.selected = {} => outcome.exceeded
    BY <1>2, <1>3, <1>7, <2>1, TakenFits
  <2>3. CurationResult(r)
    BY <1>1, <1>5, <2>1, <2>2 DEF CurationResult
  <2>4. QED
    BY <1>1, <2>3 DEF Result, r
<1>8. QED
  BY <1>6, <1>7

LEMMA ExtractedIs ==
    ASSUME NEW line, NEW reply, NEW t \in Nat
    PROVE  /\ Result("extraction", Intervened(line, reply, t))
           /\ Result("extraction", Explained(line, reply, t))
           /\ Result("extraction", Titled(line, reply, t))
<1>1. Result("extraction", Intervened(line, reply, t))
  <2> DEFINE v == InterventionOk(reply, line.candidates)
             r == Intervened(line, reply, t)
  <2>1. /\ r.suite = "intervention" /\ r.valid = v /\ r.candidates = line.candidates
        /\ r.action = (IF v THEN reply.action ELSE Null)
        /\ r.run_id = (IF v THEN reply.run_id ELSE Null) /\ r.latency = t
    BY DEF Intervened
  <2>2. v => reply.action \in Actions /\ reply.run_id \in line.candidates \cup {Null}
    BY DEF InterventionOk
  <2> HIDE DEF v, r
  <2>3. ExtractionResult(r)
    BY <2>1, <2>2 DEF ExtractionResult
  <2>4. QED
    BY <2>1, <2>3 DEF Result, r
<1>2. Result("extraction", Explained(line, reply, t))
  <2> DEFINE v == FailureOk(reply, Numbers(line.events))
             r == Explained(line, reply, t)
  <2>1. /\ r.suite = "failure_cause" /\ r.valid = v /\ r.numbers = Numbers(line.events)
        /\ r.evidence = (IF v THEN reply.evidence ELSE 0) /\ r.latency = t
    BY DEF Explained
  <2>2. v => reply.evidence \in Numbers(line.events)
    BY DEF FailureOk
  <2> HIDE DEF v, r
  <2>3. ExtractionResult(r)
    BY <2>1, <2>2 DEF ExtractionResult
  <2>4. QED
    BY <2>1, <2>3 DEF Result, r
<1>3. Result("extraction", Titled(line, reply, t))
  BY DEF Result, ExtractionResult, Titled
<1>4. QED
  BY <1>1, <1>2, <1>3

(* Every step of the bench keeps to it.                                    *)
LEMMA StepBench == BenchInv /\ [BenchNext]_benchVars => BenchInv'
<1> SUFFICES ASSUME BenchInv, [BenchNext]_benchVars PROVE BenchInv'
  OBVIOUS
<1>1. CASE UNCHANGED benchVars
  BY <1>1 DEF benchVars, BenchInv
<1>2. ASSUME NEW r, bpc = "suite", Record(r), Result(file.suite, r),
             UNCHANGED <<file, bpc, loaded, brainOpen, verdict>>
      PROVE  BenchInv'
  <2>1. /\ IsList(results')
        /\ \A i \in DOMAIN results' :
              results'[i] = r \/ (i \in DOMAIN results /\ results'[i] = results[i])
    BY <1>2, ListGrows DEF BenchInv, Record
  <2>2. \A i \in DOMAIN results' : Result(file.suite, results'[i])
    BY <1>2, <2>1 DEF BenchInv
  <2>3. QED
    BY <1>2, <2>1, <2>2 DEF BenchInv
<1>3. \A t \in Latencies : t \in Nat
  BY RepliesAssumption
<1>4. ASSUME EvaluateTick PROVE BenchInv'
  <2>1. PICK reply \in Decisions \cup {"mumble"}, t \in Latencies :
          Record(Labelled(NextLine, reply, t))
    BY <1>4 DEF EvaluateTick
  <2>2. /\ bpc = "suite" /\ file.suite = "tick"
        /\ UNCHANGED <<file, bpc, loaded, brainOpen, verdict>>
    BY <1>4 DEF EvaluateTick, Evaluating
  <2>3. Result(file.suite, Labelled(NextLine, reply, t))
    BY <1>3, <2>2, LabelledIs
  <2>4. QED
    BY <1>2, <2>1, <2>2, <2>3
<1>5. ASSUME bpc = "suite", Len(results) < Len(file.lines)
      PROVE  Len(results) + 1 \in DOMAIN file.lines
  <2>1. PICK S : results \in Seq(S)
    BY DEF BenchInv, IsList
  <2>2. Len(results) \in Nat
    BY <2>1
  <2>3. file \in Files
    BY <1>5 DEF BenchInv
  <2>4. Len(file.lines) \in Nat /\ DOMAIN file.lines = 1 .. Len(file.lines)
    BY <2>3, FilesAssumption
  <2>5. QED
    BY <1>5, <2>2, <2>4
<1>6. ASSUME EvaluateTriage PROVE BenchInv'
  <2>1. PICK reply \in Classes \cup {"mumble"}, t \in Latencies :
          Record(Labelled(NextLine, reply, t))
    BY <1>6 DEF EvaluateTriage
  <2>2. /\ bpc = "suite" /\ file.suite = "triage" /\ Len(results) < Len(file.lines)
        /\ UNCHANGED <<file, bpc, loaded, brainOpen, verdict>>
    BY <1>6 DEF EvaluateTriage, Evaluating
  <2>3. LineOk("triage", NextLine)
    BY <1>5, <2>2 DEF BenchInv, FixturesOk, NextLine
  <2>4. NextLine.expect \in Classes
    BY <2>3 DEF LineOk, TriageLineOk
  <2>5. Result(file.suite, Labelled(NextLine, reply, t))
    BY <1>3, <2>2, <2>4, LabelledIs
  <2>6. QED
    BY <1>2, <2>1, <2>2, <2>5
<1>7. ASSUME EvaluateCuration PROVE BenchInv'
  <2>1. PICK reply \in CurationReplies, named \in SUBSET {"curated", "truncated"}, t \in Latencies :
          Record(Curated(NextLine, reply, named, t))
    BY <1>7 DEF EvaluateCuration
  <2>2. /\ bpc = "suite" /\ file.suite = "curation" /\ Len(results) < Len(file.lines)
        /\ UNCHANGED <<file, bpc, loaded, brainOpen, verdict>>
    BY <1>7 DEF EvaluateCuration, Evaluating
  <2>3. NextLine.events \in Seq(Events)
    <3>1. file \in Files
      BY <2>2 DEF BenchInv
    <3>2. QED
      BY <1>5, <2>2, <3>1, FilesAssumption DEF NextLine, Events
  <2>4. Result(file.suite, Curated(NextLine, reply, named, t))
    BY <1>3, <2>2, <2>3, CuratedIs, RepliesAssumption
  <2>5. QED
    BY <1>2, <2>1, <2>2, <2>4
<1>8. ASSUME EvaluateExtraction PROVE BenchInv'
  <2>1. PICK t \in Latencies : \E reply :
          \/ Record(Intervened(NextLine, reply, t))
          \/ Record(Explained(NextLine, reply, t))
          \/ Record(Titled(NextLine, reply, t))
    BY <1>8 DEF EvaluateExtraction
  <2>2. PICK reply : \/ Record(Intervened(NextLine, reply, t))
                     \/ Record(Explained(NextLine, reply, t))
                     \/ Record(Titled(NextLine, reply, t))
    BY <2>1
  <2>3. /\ bpc = "suite" /\ file.suite = "extraction"
        /\ UNCHANGED <<file, bpc, loaded, brainOpen, verdict>>
    BY <1>8 DEF EvaluateExtraction, Evaluating
  <2>4. /\ Result(file.suite, Intervened(NextLine, reply, t))
        /\ Result(file.suite, Explained(NextLine, reply, t))
        /\ Result(file.suite, Titled(NextLine, reply, t))
    BY <1>3, <2>3, ExtractedIs
  <2>5. QED
    BY <1>2, <2>2, <2>3, <2>4
<1>9. ASSUME NEW configured \in BOOLEAN, Refuse(configured) PROVE BenchInv'
  BY <1>9 DEF Refuse, BenchInv
<1>10. ASSUME NEW configured \in BOOLEAN, Prepare(configured) PROVE BenchInv'
  BY <1>10 DEF Prepare, Startable, BenchInv
<1>11. ASSUME Load PROVE BenchInv'
  <2>1. FixturesOk(file)
    BY <1>11 DEF Load, BenchInv
  <2>2. QED
    BY <1>11, <2>1 DEF Load, BenchInv
<1>12. ASSUME NoRuntime \/ LoadFails PROVE BenchInv'
  BY <1>12 DEF NoRuntime, LoadFails, BenchInv
<1>13. ASSUME NEW outcome, Leave(outcome), bpc = "suite" PROVE BenchInv'
  BY <1>13 DEF Leave, BenchInv
<1>14. QED
  BY <1>1, <1>4, <1>6, <1>7, <1>8, <1>9, <1>10, <1>11, <1>12, <1>13
     DEF BenchNext, EvaluateFails, Report, ReportTick, ReportTriage, ReportCuration,
         ReportExtraction

(* It starts empty.                                                        *)
LEMMA InitBench == UseInit => BenchInv
<1>1. <<>> \in Seq({}) /\ DOMAIN <<>> = {}
  OBVIOUS
<1>2. IsList(<<>>)
  BY <1>1 DEF IsList
<1>3. CASE NoBench
  <2>1. file.suite = "none"
    BY <1>3 DEF NoBench
  <2>2. QED
    BY <1>1, <1>2, <1>3, <2>1 DEF NoBench, BenchInv
<1>4. CASE BenchInit
  BY <1>1, <1>2, <1>4 DEF BenchInit, BenchInv
<1>5. QED
  BY <1>3, <1>4 DEF UseInit

LEMMA UseBench == [UseNext]_useVars => [BenchNext]_benchVars
  BY DEF UseNext, useVars

(* What the Brain is sent is of the transcript and within the budget, and  *)
(* no run, action or event a reply made up gets past its parser: for every *)
(* fixture file, reply, transcript and budget.                             *)
THEOREM RepliesAlwaysTamed == UseSpec => []RepliesTamed
<1>1. BenchInv /\ [UseNext]_useVars => BenchInv'
  BY UseBench, StepBench
<1>2. BenchInv => RepliesTamed
  <2> SUFFICES ASSUME BenchInv, NEW i \in DOMAIN results
               PROVE  /\ results[i].suite = "curation" =>
                            LET r == results[i] IN
                            /\ \A selected \in {r.curated, r.truncated} :
                                  /\ selected \subseteq Numbers(r.events)
                                  /\ Cost(r.events, selected) <= r.budget
                            /\ r.fallback => r.curated = r.truncated /\ ~r.exceeded
                            /\ r.curated = {} => r.exceeded \/ r.fallback
                      /\ LET r == results[i] IN
                         /\ r.suite = "intervention" /\ r.valid =>
                                r.action \in Actions /\ r.run_id \in r.candidates \cup {Null}
                         /\ r.suite = "failure_cause" /\ r.valid => r.evidence \in r.numbers
    BY DEF RepliesTamed, SelectedFits, NothingMadeUp
  <2> DEFINE r == results[i]
  <2>1. Result(file.suite, r)
    BY DEF BenchInv
  <2> HIDE DEF r
  <2>2. TickResult(r) \/ TriageResult(r) \/ CurationResult(r) \/ ExtractionResult(r)
    BY <2>1 DEF Result
  <2>3. /\ r.suite = "curation" =>
               /\ \A selected \in {r.curated, r.truncated} :
                     selected \subseteq Numbers(r.events) /\ Cost(r.events, selected) <= r.budget
               /\ r.fallback => r.curated = r.truncated /\ ~r.exceeded
               /\ r.curated = {} => r.exceeded \/ r.fallback
        /\ r.suite = "intervention" /\ r.valid =>
               r.action \in Actions /\ r.run_id \in r.candidates \cup {Null}
        /\ r.suite = "failure_cause" /\ r.valid => r.evidence \in r.numbers
    BY <2>2 DEF TickResult, TriageResult, CurationResult, ExtractionResult
  <2>4. QED
    BY <2>3 DEF r
<1>3. QED
  BY InitBench, <1>1, <1>2, PTL DEF UseSpec

-----------------------------------------------------------------------------
(* The bench: what a gate promises                                         *)

(* A list is of finitely many, and none of them is such when the count is  *)
(* zero, and all are when the count is their number.                       *)
LEMMA Counted ==
    ASSUME IsList(results), NEW S \in SUBSET DOMAIN results
    PROVE  /\ Len(results) \in Nat /\ DOMAIN results = 1 .. Len(results)
           /\ IsFiniteSet(DOMAIN results) /\ Cardinality(DOMAIN results) = Len(results)
           /\ Cardinality(S) = 0 => S = {}
           /\ Cardinality(S) = Len(results) => S = DOMAIN results
<1>1. PICK T : results \in Seq(T)
  BY DEF IsList
<1>2. Len(results) \in Nat /\ DOMAIN results = 1 .. Len(results)
  BY <1>1
<1>3. IsFiniteSet(DOMAIN results) /\ Cardinality(DOMAIN results) = Len(results)
  <2>1. 1 \in Int /\ Len(results) \in Int
    BY <1>2
  <2>2. QED
    BY <1>2, <2>1, FS_Interval
<1>4. IsFiniteSet(S)
  BY <1>3, FS_Subset
<1>5. Cardinality(S) = 0 => S = {}
  BY <1>4, FS_EmptySet
<1>6. Cardinality(S) = Len(results) => S = DOMAIN results
  BY <1>3, FS_Subset
<1>7. QED
  BY <1>2, <1>3, <1>5, <1>6

(* The rank of the percentile leaves at most a twentieth after it, rounded. *)
LEMMA RankIs ==
    ASSUME NEW n \in Nat \ {0}
    PROVE  LET k == 1 + RoundedRank(95, n) IN k \in 1 .. n /\ 20 * (n - k) <= n + 9
<1> DEFINE scaled == 95 * (n - 1)
           low == scaled \div 100
           rest == scaled % 100
           r == RoundedRank(95, n)
<1>1. scaled \in Nat /\ scaled = 95 * n - 95
  OBVIOUS
<1> HIDE DEF scaled
<1>2. low \in Nat /\ rest \in 0 .. 99 /\ scaled = 100 * low + rest
  BY <1>1
<1> HIDE DEF low, rest
<1>3. r = IF rest > 50 \/ (rest = 50 /\ low % 2 = 1) THEN low + 1 ELSE low
  BY DEF RoundedRank, low, rest, scaled
<1>4. (r = low + 1 /\ rest >= 50) \/ (r = low /\ rest <= 50)
  BY <1>2, <1>3
<1> HIDE DEF r
<1>5. r \in Nat /\ 100 * r >= scaled - 50 /\ 100 * r <= scaled + 50
  BY <1>1, <1>2, <1>4
<1>6. r <= n - 1
  BY <1>1, <1>5
<1>7. 1 + r \in 1 .. n /\ 20 * (n - (1 + r)) <= n + 9
  BY <1>1, <1>5, <1>6
<1>8. QED
  BY <1>7 DEF r

(* When the percentile is in time, few replies are late.                   *)
LEMMA FewAreLate ==
    ASSUME IsList(results), \A i \in DOMAIN results : results[i].latency \in Nat, InTime
    PROVE  20 * Cardinality({i \in DOMAIN results : results[i].latency > MaxLatency})
               <= Len(results) + 9
<1> DEFINE n == Len(results)
           D == DOMAIN results
           key == [i \in D |-> results[i].latency]
           order == Sorted(D, key)
           k == 1 + RoundedRank(95, n)
           late == {i \in D : results[i].latency > MaxLatency}
           after == {order[p] : p \in k + 1 .. n}
<1>1. n \in Nat /\ D = 1 .. n /\ IsFiniteSet(D) /\ Cardinality(D) = n
  BY Counted
<1>2. CASE n = 0
  <2>1. late = {}
    BY <1>1, <1>2
  <2>2. Cardinality(late) = 0
    BY <2>1, FS_EmptySet
  <2> HIDE DEF late
  <2>3. QED
    BY <1>2, <2>2 DEF late
<1>3. CASE n # 0
  <2>1. k \in 1 .. n /\ 20 * (n - k) <= n + 9
    BY <1>1, <1>3, RankIs
  <2>2. \A i \in D : key[i] \in Nat /\ key[i] = results[i].latency
    OBVIOUS
  <2>3. D \in SUBSET Int /\ \A i \in D : key[i] \in Int
    BY <1>1, <2>2
  <2>4. results[order[k]].latency <= MaxLatency
    BY DEF InTime, Percentile
  <2> HIDE DEF key, k
  <2>5. /\ order \in [1 .. n -> D]
        /\ \A i \in D : \E p \in 1 .. n : order[p] = i
        /\ \A p, q \in 1 .. n : p < q => key[order[p]] <= key[order[q]]
    BY <1>1, <2>3, SortedIs
  <2> HIDE DEF order
  <2>6. late \subseteq after
    <3> SUFFICES ASSUME NEW i \in D, results[i].latency > MaxLatency PROVE i \in after
      OBVIOUS
    <3>1. PICK p \in 1 .. n : order[p] = i
      BY <2>5
    <3>2. key[order[p]] > MaxLatency
      BY <2>2, <3>1
    <3>3. order[k] \in D /\ key[order[k]] <= MaxLatency
      BY <2>1, <2>2, <2>4, <2>5
    <3>4. p < k => key[order[p]] <= key[order[k]]
      BY <2>1, <2>5
    <3>5. key[order[p]] \in Nat /\ key[order[k]] \in Nat /\ MaxLatency \in Nat
      BY <2>2, <3>1, <3>3, RepliesAssumption
    <3>6. p # k /\ ~(p < k)
      BY <3>2, <3>3, <3>4, <3>5
    <3>7. p \in k + 1 .. n
      BY <1>1, <2>1, <3>6
    <3>8. QED
      BY <3>1, <3>7
  <2>7. IsFiniteSet(after) /\ Cardinality(after) <= n - k
    <3> DEFINE h == [p \in k + 1 .. n |-> order[p]]
    <3>1. h \in Surjection(k + 1 .. n, after)
      BY DEF Surjection
    <3>2. k + 1 \in Int /\ n \in Int /\ k \in Nat /\ k <= n
      BY <1>1, <2>1
    <3>3. /\ IsFiniteSet(k + 1 .. n)
          /\ Cardinality(k + 1 .. n) = IF k + 1 > n THEN 0 ELSE n - (k + 1) + 1
      BY <3>2, FS_Interval
    <3>4. Cardinality(k + 1 .. n) = n - k
      BY <3>2, <3>3
    <3>5. IsFiniteSet(after) /\ Cardinality(after) <= Cardinality(k + 1 .. n)
      BY <3>1, <3>3, FS_Surjection
    <3>6. QED
      BY <3>4, <3>5
  <2>8. Cardinality(late) <= Cardinality(after)
    BY <2>6, <2>7, FS_Subset
  <2>9. IsFiniteSet(late)
    BY <1>1, FS_Subset
  <2>10. Cardinality(late) \in Nat /\ Cardinality(after) \in Nat
    BY <2>7, <2>9, FS_CardinalityType
  <2> DEFINE c == Cardinality(late)
             a == Cardinality(after)
  <2>11. c \in Nat /\ a \in Nat /\ c <= a /\ a <= n - k
    BY <2>7, <2>8, <2>10
  <2> HIDE DEF c, a
  <2>12. 20 * c <= n + 9
    BY <1>1, <2>1, <2>11
  <2>13. QED
    BY <2>12 DEF c
<1>4. QED
  BY <1>2, <1>3

\* What PASS promises of a fixture.
Safe(r) ==
    /\ r.suite \in {"tick", "triage"} => r.actual # Null
    /\ r.suite = "triage" /\ NeedsBrain(r) => RoutedToBrain(r)
    /\ r.suite = "tick" /\ r.idle => r.actual = "idle"
    /\ r.suite = "curation" => r.must_keep \subseteq r.curated
    /\ r.suite = "intervention" =>
           /\ r.valid
           /\ \/ r.action = r.expected /\ r.run_id = r.expected_run
              \/ RankOf(r.action) > RankOf(r.expected)

LEMMA TickIsSafe ==
    ASSUME BenchInv, file.suite = "tick", TickGate, NEW i \in DOMAIN results
    PROVE  Safe(results[i])
<1> DEFINE Alarms == {j \in DOMAIN results :
                         results[j].idle /\ results[j].actual \in {"act", "escalate"}}
           Fallen == {j \in DOMAIN results : results[j].actual = Null}
<1>1. Cardinality(Alarms) = 0 /\ Cardinality(Fallen) = 0
  BY DEF TickGate, FalseAlarms, ParseFallbacks, Such
<1>2. Alarms = {} /\ Fallen = {}
  BY <1>1, Counted DEF BenchInv
<1>3. results[i].actual # Null
  BY <1>2
<1>4. results[i].idle => results[i].actual \notin {"act", "escalate"}
  BY <1>2
<1>5. Result(file.suite, results[i])
  BY DEF BenchInv
<1>6. TickResult(results[i])
  BY <1>5 DEF Result
<1>7. QED
  BY <1>3, <1>4, <1>6 DEF TickResult, Decisions, Safe

LEMMA TriageIsSafe ==
    ASSUME BenchInv, file.suite = "triage", TriageGate, NEW i \in DOMAIN results
    PROVE  Safe(results[i])
<1> DEFINE KeptBack(class) == {j \in DOMAIN results :
                                  results[j].expected = class /\ results[j].actual = "trivial"}
           Fallen == {j \in DOMAIN results : results[j].actual = Null}
<1>1. Cardinality(Fallen) = 0
  BY DEF TriageGate, ParseFallbacks, Such
<1>2. Cardinality(KeptBack("complex")) = 0 /\ Cardinality(KeptBack("tool-only")) = 0
  BY DEF TriageGate, Misrouted, Confusion, Such
<1>3. Fallen = {} /\ KeptBack("complex") = {} /\ KeptBack("tool-only") = {}
  BY <1>1, <1>2, Counted DEF BenchInv
<1>4. results[i].actual # Null
  BY <1>3
<1>5. results[i].expected \in {"complex", "tool-only"} => results[i].actual # "trivial"
  BY <1>3
<1>6. Result(file.suite, results[i])
  BY DEF BenchInv
<1>7. TriageResult(results[i])
  BY <1>6 DEF Result
<1>8. QED
  BY <1>4, <1>5, <1>7 DEF TriageResult, Classes, NeedsBrain, RoutedToBrain, Safe

LEMMA CurationIsSafe ==
    ASSUME BenchInv, file.suite = "curation", CurationGate, NEW i \in DOMAIN results
    PROVE  Safe(results[i])
<1> DEFINE Whole == {j \in DOMAIN results : results[j].must_keep \subseteq results[j].curated}
<1>1. Cardinality(Whole) = Len(results)
  BY DEF CurationGate, Recalled, Such
<1>2. Whole = DOMAIN results
  BY <1>1, Counted DEF BenchInv
<1>3. results[i].must_keep \subseteq results[i].curated
  BY <1>2
<1>4. Result(file.suite, results[i])
  BY DEF BenchInv
<1>5. CurationResult(results[i])
  BY <1>4 DEF Result
<1>6. QED
  BY <1>3, <1>5 DEF CurationResult, Safe

LEMMA ExtractionIsSafe ==
    ASSUME BenchInv, file.suite = "extraction", InterventionGate, NEW i \in DOMAIN results
    PROVE  Safe(results[i])
<1> DEFINE Going(direction) == {j \in DOMAIN results :
                                   /\ results[j].suite = "intervention"
                                   /\ Direction(results[j]) = direction}
           r == results[i]
<1>1. /\ Cardinality(Going("unparsed")) = 0 /\ Cardinality(Going("less_conservative")) = 0
      /\ Cardinality(Going("wrong_run")) = 0
  BY DEF InterventionGate, Directed, Such
<1>2. Going("unparsed") = {} /\ Going("less_conservative") = {} /\ Going("wrong_run") = {}
  BY <1>1, Counted DEF BenchInv
<1>3. r.suite = "intervention" =>
         Direction(r) \notin {"unparsed", "less_conservative", "wrong_run"}
  BY <1>2
<1>4. Result(file.suite, r)
  BY DEF BenchInv
<1>5. ExtractionResult(r)
  BY <1>4 DEF Result
<1> HIDE DEF r
<1>6. CASE r.suite = "intervention"
  <2>1. r.valid
    BY <1>3, <1>6 DEF Direction
  <2>2. \/ r.action = r.expected /\ r.run_id = r.expected_run
        \/ RankOf(r.action) > RankOf(r.expected)
    BY <1>3, <1>6, <2>1 DEF Direction
  <2>3. Safe(r)
    BY <1>6, <2>1, <2>2 DEF Safe
  <2>4. QED
    BY <2>3 DEF r
<1>7. CASE r.suite \in {"failure_cause", "title"}
  <2>1. Safe(r)
    BY <1>7 DEF Safe
  <2>2. QED
    BY <2>1 DEF r
<1>8. QED
  BY <1>5, <1>6, <1>7 DEF ExtractionResult

\* What PASS promises of all of them.
Promise ==
    /\ \A i \in DOMAIN results : Safe(results[i])
    /\ 20 * Cardinality({i \in DOMAIN results : results[i].latency > MaxLatency})
           <= Len(results) + 9

(* A gate that passes keeps its promise.                                   *)
LEMMA GatePromises ==
    ASSUME BenchInv,
           \/ file.suite = "tick" /\ TickGate
           \/ file.suite = "triage" /\ TriageGate
           \/ file.suite = "curation" /\ CurationGate
           \/ file.suite = "extraction" /\ InterventionGate
    PROVE  Promise
<1>1. \A i \in DOMAIN results : Safe(results[i])
  BY TickIsSafe, TriageIsSafe, CurationIsSafe, ExtractionIsSafe
<1>2. InTime
  BY DEF TickGate, TriageGate, CurationGate, InterventionGate
<1>3. \A i \in DOMAIN results : results[i].latency \in Nat
  BY DEF BenchInv, Result
<1>4. QED
  BY <1>1, <1>2, <1>3, FewAreLate DEF BenchInv, Promise

LEMMA PromiseKept == BenchInv /\ BenchSound /\ [BenchNext]_benchVars => BenchSound'
<1> SUFFICES ASSUME BenchInv, BenchSound, [BenchNext]_benchVars PROVE BenchSound'
  OBVIOUS
<1>1. CASE UNCHANGED benchVars
  BY <1>1 DEF benchVars, BenchSound, PassMeansSafe, PassMeansInTime, NothingLeftLoaded,
              RankOf, NeedsBrain, RoutedToBrain
<1>2. ASSUME verdict' # "passed", NothingLeftLoaded' PROVE BenchSound'
  BY <1>2 DEF BenchSound, PassMeansSafe, PassMeansInTime
<1>3. bpc \in {"start", "load", "suite"} => verdict # "passed"
  BY DEF BenchInv
<1>4. ASSUME NEW configured \in BOOLEAN, Refuse(configured) PROVE BenchSound'
  BY <1>2, <1>4 DEF Refuse, BenchInv, NothingLeftLoaded
<1>5. ASSUME NEW configured \in BOOLEAN, Prepare(configured) PROVE BenchSound'
  BY <1>2, <1>3, <1>5 DEF Prepare, NothingLeftLoaded
<1>6. ASSUME Load PROVE BenchSound'
  BY <1>2, <1>3, <1>6 DEF Load, NothingLeftLoaded
<1>7. ASSUME NoRuntime \/ LoadFails PROVE BenchSound'
  BY <1>2, <1>7 DEF NoRuntime, LoadFails, BenchInv, NothingLeftLoaded
<1>8. ASSUME NEW suite, Evaluating(suite) PROVE BenchSound'
  BY <1>2, <1>3, <1>8 DEF Evaluating, NothingLeftLoaded
<1>9. ASSUME NEW outcome, outcome # "passed", Leave(outcome) PROVE BenchSound'
  BY <1>2, <1>9 DEF Leave, NothingLeftLoaded
<1>10. ASSUME NEW suite, NEW passed, Report(suite, passed), passed => Promise
       PROVE  BenchSound'
  <2>1. CASE passed
    <3>1. results' = results /\ loaded' = FALSE /\ brainOpen' = FALSE
      BY <1>10 DEF Report, Leave
    <3>2. NothingLeftLoaded'
      BY <3>1 DEF NothingLeftLoaded
    <3>3. QED
      BY <1>10, <2>1, <3>1, <3>2
         DEF BenchSound, PassMeansSafe, PassMeansInTime, Promise, Safe, NeedsBrain,
             RoutedToBrain, RankOf
  <2>2. CASE ~passed
    BY <1>9, <1>10, <2>2 DEF Report
  <2>3. QED
    BY <2>1, <2>2
<1>11. ASSUME ReportTick \/ ReportTriage \/ ReportCuration \/ ReportExtraction
       PROVE  BenchSound'
  <2>1. CASE ReportTick
    <3>1. Report("tick", TickGate) /\ file.suite = "tick"
      BY <2>1 DEF ReportTick, Report
    <3>2. QED
      BY <1>10, <3>1, GatePromises
  <2>2. CASE ReportTriage
    <3>1. Report("triage", TriageGate) /\ file.suite = "triage"
      BY <2>2 DEF ReportTriage, Report
    <3>2. QED
      BY <1>10, <3>1, GatePromises
  <2>3. CASE ReportCuration
    <3>1. Report("curation", CurationGate) /\ file.suite = "curation"
      BY <2>3 DEF ReportCuration, Report
    <3>2. QED
      BY <1>10, <3>1, GatePromises
  <2>4. CASE ReportExtraction
    <3>1. Report("extraction", InterventionGate) /\ file.suite = "extraction"
      BY <2>4 DEF ReportExtraction, Report
    <3>2. QED
      BY <1>10, <3>1, GatePromises
  <2>5. QED
    BY <1>11, <2>1, <2>2, <2>3, <2>4
<1>12. ASSUME EvaluateFails \/ EvaluateTick \/ EvaluateTriage \/ EvaluateCuration
              \/ EvaluateExtraction
       PROVE  BenchSound'
  BY <1>8, <1>9, <1>12
     DEF EvaluateFails, EvaluateTick, EvaluateTriage, EvaluateCuration, EvaluateExtraction
<1>13. QED
  BY <1>1, <1>4, <1>5, <1>6, <1>7, <1>11, <1>12 DEF BenchNext

(* PASS means, of every fixture, that the reply was parsed and safe, and   *)
(* of all of them that few were late; and whatever way the command ends,   *)
(* it leaves nothing loaded or open, but for the Brain of a curation suite *)
(* whose model could not be built or loaded: for every file, reply,        *)
(* latency and limit.                                                      *)
THEOREM BenchAlwaysSound == UseSpec => []BenchSound
<1>1. UseInit => BenchSound
  BY DEF UseInit, NoBench, BenchInit, BenchSound, PassMeansSafe, PassMeansInTime,
         NothingLeftLoaded
<1>2. BenchInv /\ BenchSound /\ [UseNext]_useVars => (BenchInv /\ BenchSound)'
  BY UseBench, StepBench, PromiseKept
<1>3. QED
  BY InitBench, <1>1, <1>2, PTL DEF UseSpec

-----------------------------------------------------------------------------
(* The tick: the Brain's stream                                            *)

\* The inductive invariant behind NoTextTwice: only an attempt without text is repeated.
StreamInv ==
    /\ stream = [attempt |-> stream.attempt, text |-> stream.text,
                 delay |-> stream.delay, status |-> stream.status]
    /\ stream.attempt \in Nat /\ stream.text \in Seq(Nat)
    /\ stream.status \in {"called", "error"}
    /\ NoTextTwice
    /\ pc = "stream" => stream.attempt # 0
    /\ pc = "backoff" => stream.text = <<>> /\ stream.attempt <= MaxRetries

(* Delays are capped.                                                      *)
LEMMA BackoffIs == ASSUME NEW n \in Nat \ {0} PROVE Backoff(n) <= BackoffMax
<1> DEFINE delay == BackoffInitial * 2 ^ (n - 1)
<1>1. BackoffMax \in Nat /\ BackoffInitial \in Nat
  BY BrainAssumption
<1>2. 2 ^ (n - 1) \in Int
  OBVIOUS
<1>3. delay \in Int
  BY <1>1, <1>2
<1> HIDE DEF delay
<1>4. Backoff(n) = IF delay < BackoffMax THEN delay ELSE BackoffMax
  BY DEF delay, Backoff
<1>5. QED
  BY <1>1, <1>3, <1>4

LEMMA StepStream == StreamInv /\ [Next]_vars => StreamInv'
<1> SUFFICES ASSUME StreamInv, [Next]_vars PROVE StreamInv'
  OBVIOUS
<1> DEFINE Stays == stream' = stream /\ (pc' \in {"stream", "backoff"} => pc' = pc)
<1>1. ASSUME Stays PROVE StreamInv'
  BY <1>1 DEF StreamInv, NoTextTwice
<1>2. MaxRetries \in Nat /\ BackoffMax \in Nat
  BY BrainAssumption
<1>3. ASSUME stream' = NoStream, pc' = "idle" PROVE StreamInv'
  <2>1. <<>> \in Seq(Nat) /\ DOMAIN <<>> = {}
    OBVIOUS
  <2>2. QED
    BY <1>2, <1>3, <2>1 DEF StreamInv, NoTextTwice, NoStream
<1>4. ASSUME OpenStream PROVE StreamInv'
  <2>1. stream' = [attempt |-> 1, text |-> <<>>, delay |-> 0, status |-> "called"] /\ pc' = "stream"
    BY <1>4 DEF OpenStream, NoStream
  <2>2. <<>> \in Seq(Nat) /\ DOMAIN <<>> = {}
    OBVIOUS
  <2>3. QED
    BY <1>2, <2>1, <2>2 DEF StreamInv, NoTextTwice
<1>5. ASSUME TextDelta PROVE StreamInv'
  <2> DEFINE a == stream.attempt
             l == stream.text
  <2>1. stream' = [attempt |-> a, text |-> Append(l, a),
                   delay |-> stream.delay, status |-> stream.status]
        /\ pc' = "stream"
    BY <1>5 DEF TextDelta, StreamInv
  <2>2. a \in Nat /\ l \in Seq(Nat) /\ \A i \in DOMAIN l : l[i] = a
    BY DEF StreamInv, NoTextTwice
  <2> HIDE DEF a, l
  <2>3. Append(l, a) \in Seq(Nat) /\ \A i \in DOMAIN Append(l, a) : Append(l, a)[i] = a
    <3>1. /\ Append(l, a) \in Seq(Nat) /\ DOMAIN l = 1 .. Len(l) /\ Len(l) \in Nat
          /\ DOMAIN Append(l, a) = 1 .. Len(l) + 1
          /\ \A i \in DOMAIN l : Append(l, a)[i] = l[i]
          /\ Append(l, a)[Len(l) + 1] = a
      BY <2>2, AppendIs
    <3>2. \A i \in 1 .. Len(l) + 1 : i = Len(l) + 1 \/ i \in 1 .. Len(l)
      BY <3>1
    <3>3. QED
      BY <2>2, <3>1, <3>2
  <2>4. a <= MaxRetries + 1 /\ stream.delay <= BackoffMax
        /\ stream.status \in {"called", "error"}
    BY DEF StreamInv, NoTextTwice, a
  <2>5. a # 0
    BY <1>5 DEF StreamInv, TextDelta, a
  <2>6. QED
    BY <2>1, <2>2, <2>3, <2>4, <2>5 DEF StreamInv, NoTextTwice
<1>6. ASSUME NEW class \in ErrorClasses, Retry(class) PROVE StreamInv'
  <2>1. /\ stream' = [attempt |-> stream.attempt, text |-> stream.text,
                      delay |-> Backoff(stream.attempt), status |-> stream.status]
        /\ stream.text = <<>> /\ stream.attempt <= MaxRetries
    BY <1>6 DEF Retry, Retries, StreamInv
  <2>2. pc = "stream" /\ pc' = "backoff"
    BY <1>6 DEF Retry
  <2>3. stream.attempt \in Nat \ {0}
    BY <2>2 DEF StreamInv
  <2>4. Backoff(stream.attempt) <= BackoffMax
    BY <2>3, BackoffIs
  <2>5. QED
    BY <2>1, <2>2, <2>4 DEF StreamInv, NoTextTwice
<1>7. ASSUME Wake PROVE StreamInv'
  <2>1. /\ stream' = [attempt |-> stream.attempt + 1, text |-> stream.text,
                      delay |-> stream.delay, status |-> stream.status]
        /\ stream.text = <<>> /\ stream.attempt <= MaxRetries /\ pc' = "stream"
        /\ stream.attempt \in Nat
    BY <1>7 DEF Wake, StreamInv
  <2>2. DOMAIN <<>> = {}
    OBVIOUS
  <2>3. QED
    BY <1>2, <2>1, <2>2 DEF StreamInv, NoTextTwice
<1>8. ASSUME NEW class \in ErrorClasses, StreamFails(class) PROVE StreamInv'
  <2>1. stream' = [attempt |-> stream.attempt, text |-> stream.text,
                   delay |-> stream.delay, status |-> "error"] /\ pc' = "brain_row"
    BY <1>8 DEF StreamFails, StreamInv
  <2>2. QED
    BY <2>1 DEF StreamInv, NoTextTwice
<1>9. CASE GenerateFails \/ Inject \/ WriteFails \/ Finish \/ Die
  <2>1. stream' = NoStream /\ pc' = "idle"
    BY <1>9 DEF GenerateFails, Inject, WriteFails, Raise, Finish, Die
  <2>2. QED
    BY <1>3, <2>1
<1>10. CASE \/ \E trouble \in SUBSET Troubles,
                    broken \in {{}, {"daemon_state"}, {"opencode_state"}} :
                   Collect(trouble, broken)
            \/ \E reply \in {"idle", "act", "escalate", "other"}, long \in BOOLEAN :
                   Generate(reply, long)
            \/ JournalTick \/ SweepTick \/ SkipBrain \/ Decline \/ Done \/ JournalBrain
            \/ SweepBrain \/ Boot \/ UNCHANGED vars
  <2>1. Stays
    BY <1>10 DEF Collect, Generate, FirstHandler, JournalTick, SweepTick, SkipBrain, Decline,
                 Done, JournalBrain, SweepBrain, Boot, Insert, Sweep, vars
  <2>2. QED
    BY <1>1, <2>1
<1>11. QED
  BY <1>4, <1>5, <1>6, <1>7, <1>8, <1>9, <1>10 DEF Next, TickStep

LEMMA InitStream == Init => StreamInv
<1> SUFFICES ASSUME Init PROVE StreamInv
  OBVIOUS
<1>1. <<>> \in Seq(Nat) /\ DOMAIN <<>> = {} /\ MaxRetries \in Nat /\ BackoffMax \in Nat
  BY BrainAssumption
<1>2. pc = "idle" /\ stream = [attempt |-> 0, text |-> <<>>, delay |-> 0, status |-> "called"]
  BY DEF Init, NoStream
<1>3. QED
  BY <1>1, <1>2 DEF StreamInv, NoTextTwice

(* No text of the Brain reaches the caller twice, for any number of        *)
(* retries, chunks and errors.                                             *)
THEOREM NoTextEverTwice == UseSpec => []NoTextTwice
<1>1. UseInit => StreamInv
  BY UseInits, InitStream
<1>2. StreamInv => NoTextTwice
  BY DEF StreamInv
<1>3. QED
  BY UseSteps, StepStream, <1>1, <1>2, PTL DEF UseSpec

-----------------------------------------------------------------------------
(* The tick: the journal                                                   *)

\* Every row ever written.
AllWritten == {log[i] : i \in DOMAIN log}

\* While the clock runs forward the rows are written in the order of their times.
InOrder ==
    ~steppedBack =>
        /\ \A i, j \in DOMAIN log : i <= j => log[i].at <= log[j].at
        /\ \A i \in DOMAIN log : log[i].at <= now

\* What is so of the table whatever the tick is at.
TableInv ==
    /\ now \in 1 .. MaxTime /\ steppedBack \in BOOLEAN
    /\ log \in Seq(Rows) /\ rows \subseteq AllWritten
    /\ InOrder /\ BrainRowFollowsTick /\ JournalIsNewest

\* The row of the tick that is being handled.
OfThisTick(r) == r.kind = "tick" /\ r.tick = ticksRun /\ r.decision = tick.decision

Undecided == {"idle", "generate"}

Handling == {"sweep", "brain", "stream", "backoff", "brain_row"}

Handled == {"sweep_brain", "inject"}

\* What is so at each place of the tick.
PlaceInv ==
    /\ up \in BOOLEAN /\ failing \in BOOLEAN /\ slow \in BOOLEAN /\ ticksRun \in Nat
    /\ pc \in Undecided \cup {"journal"} \cup Handling \cup Handled
    /\ pc \in Undecided => tick.decision = "none"
    /\ pc \notin Undecided => tick.decision \in {"idle", "act", "escalate"}
    /\ Len(log) <= MaxRows + 1
    /\ pc \in {"generate", "journal"} => Len(log) < MaxRows
    /\ pc \in Handling => /\ Len(log) <= MaxRows /\ Len(log) > 0
                          /\ OfThisTick(log[Len(log)])
    /\ pc \in {"stream", "backoff", "brain_row"} => tick.decision = "escalate"
    /\ pc \in Handled => \E i \in DOMAIN log : OfThisTick(log[i])
    /\ pc \in {"brain", "stream", "backoff", "brain_row", "inject"} =>
           Cardinality(rows) <= MaxEntries

\* The inductive invariant behind JournalSound and DecidedIsJournaled.
JournalInv == TableInv /\ PlaceInv /\ StreamInv

LEMMA JournalIs == JournalInv => JournalSound
<1> SUFFICES ASSUME JournalInv PROVE JournalSound
  OBVIOUS
<1>1. rows \subseteq Rows
  BY DEF JournalInv, TableInv, AllWritten
<1>2. (tick.decision = "none") <=> (pc \in {"idle", "generate"})
  BY DEF JournalInv, PlaceInv, Undecided
<1>3. TypeOK
  BY <1>1, <1>2 DEF JournalInv, TableInv, PlaceInv, AllWritten, Undecided, Handling, Handled, TypeOK
<1>4. QED
  BY <1>3 DEF JournalInv, TableInv, PlaceInv, JournalBounded, JournalSound

(* Rows are finitely many.                                                 *)
LEMMA RowsFinite ==
    ASSUME TableInv
    PROVE  /\ IsFiniteSet(AllWritten) /\ IsFiniteSet(rows) /\ Cardinality(rows) \in Nat
           /\ DOMAIN log = 1 .. Len(log) /\ Len(log) \in Nat
           /\ \A r \in AllWritten : r \in Rows /\ r.at \in Nat
<1> DEFINE h == [i \in DOMAIN log |-> log[i]]
<1>1. DOMAIN log = 1 .. Len(log) /\ Len(log) \in Nat /\ \A i \in DOMAIN log : log[i] \in Rows
  BY DEF TableInv
<1>2. IsFiniteSet(DOMAIN log)
  BY <1>1, FS_Interval
<1>3. h \in Surjection(DOMAIN log, AllWritten)
  BY DEF Surjection, AllWritten
<1>4. IsFiniteSet(AllWritten)
  BY <1>2, <1>3, FS_Surjection
<1>5. IsFiniteSet(rows)
  BY <1>4, FS_Subset DEF TableInv
<1>6. \A r \in Rows : r.at \in Nat
  BY DEF Rows
<1>7. QED
  BY <1>1, <1>4, <1>5, <1>6, FS_CardinalityType DEF AllWritten

(* A row is written as the clock shows, which the journal's order survives. *)
LEMMA InsertKeeps ==
    ASSUME TableInv, ReadClock, NEW row \in Rows, NEW next, Insert(row, next), row.at = now',
           row.kind = "brain" =>
               /\ Len(log) > 0 /\ log[Len(log)].kind = "tick"
               /\ row.tick = log[Len(log)].tick /\ log[Len(log)].decision = "escalate"
    PROVE  TableInv' /\ Len(log') = Len(log) + 1 /\ log'[Len(log')] = row
           /\ \A i \in DOMAIN log : i \in DOMAIN log' /\ log'[i] = log[i]
<1>1. /\ log' \in Seq(Rows)
      /\ DOMAIN log = 1 .. Len(log) /\ Len(log) \in Nat /\ Len(log') = Len(log) + 1
      /\ DOMAIN log' = 1 .. Len(log) + 1
      /\ \A i \in DOMAIN log : log'[i] = log[i] /\ log[i] \in Rows
      /\ log'[Len(log) + 1] = row
  BY AppendIs DEF Insert, TableInv
<1>2. rows' = rows \cup {row}
  BY DEF Insert
<1>3. \A i \in DOMAIN log' : i \in DOMAIN log \/ i = Len(log) + 1
  BY <1>1
<1>4. AllWritten' = AllWritten \cup {row}
  BY <1>1, <1>3 DEF AllWritten
<1>5. /\ now \in 1 .. MaxTime /\ now' \in 1 .. MaxTime /\ steppedBack' \in BOOLEAN
      /\ ~steppedBack' => ~steppedBack /\ now <= now'
  <2>1. MaxTime \in Nat
    BY TickBounds
  <2>2. CASE now' \in now .. MaxTime /\ UNCHANGED steppedBack
    BY <2>1, <2>2 DEF TableInv
  <2>3. CASE now' \in 1 .. now - 1 /\ steppedBack' = TRUE
    BY <2>1, <2>3 DEF TableInv
  <2>4. QED
    BY <2>2, <2>3 DEF ReadClock
<1>6. \A i \in DOMAIN log : log[i].at \in Nat
  BY <1>1 DEF Rows
<1>7. row.at \in Nat /\ row.at = now' /\ now \in Nat
  BY <1>5 DEF Rows
<1>8. ASSUME ~steppedBack' PROVE \A i \in DOMAIN log : log[i].at <= row.at
  BY <1>5, <1>6, <1>7, <1>8 DEF TableInv, InOrder
<1>9. InOrder'
  <2> SUFFICES ASSUME ~steppedBack'
               PROVE  /\ \A i, j \in DOMAIN log' : i <= j => log'[i].at <= log'[j].at
                      /\ \A i \in DOMAIN log' : log'[i].at <= now'
    BY DEF InOrder
  <2>1. ASSUME NEW i \in DOMAIN log', NEW j \in DOMAIN log', i <= j
        PROVE  log'[i].at <= log'[j].at
    <3>1. CASE j \in DOMAIN log
      <4>1. i \in DOMAIN log
        BY <1>1, <2>1, <3>1
      <4>2. QED
        BY <1>1, <1>5, <2>1, <3>1, <4>1 DEF TableInv, InOrder
    <3>2. CASE j = Len(log) + 1
      <4>1. log'[j] = row
        BY <1>1, <3>2
      <4>2. CASE i \in DOMAIN log
        BY <1>1, <1>8, <4>1, <4>2
      <4>3. CASE i = Len(log) + 1
        BY <1>1, <1>7, <4>1, <4>3
      <4>4. QED
        BY <1>3, <4>2, <4>3
    <3>3. QED
      BY <1>3, <3>1, <3>2
  <2>2. ASSUME NEW i \in DOMAIN log' PROVE log'[i].at <= now'
    BY <1>1, <1>3, <1>7, <1>8
  <2>3. QED
    BY <2>1, <2>2
<1>10. BrainRowFollowsTick'
  <2> SUFFICES ASSUME NEW i \in DOMAIN log', log'[i].kind = "brain"
               PROVE  /\ i > 1 /\ log'[i - 1].kind = "tick"
                      /\ log'[i].tick = log'[i - 1].tick /\ log'[i - 1].decision = "escalate"
    BY DEF BrainRowFollowsTick
  <2>1. CASE i \in DOMAIN log
    <3>1. /\ i > 1 /\ log[i - 1].kind = "tick"
          /\ log[i].tick = log[i - 1].tick /\ log[i - 1].decision = "escalate"
      BY <1>1, <2>1 DEF TableInv, BrainRowFollowsTick
    <3>2. i - 1 \in DOMAIN log
      BY <1>1, <2>1, <3>1
    <3>3. QED
      BY <1>1, <2>1, <3>1, <3>2
  <2>2. CASE i = Len(log) + 1
    <3>1. log'[i] = row /\ i - 1 = Len(log)
      BY <1>1, <2>2
    <3>2. Len(log) > 0
      BY <3>1
    <3>3. Len(log) \in DOMAIN log
      BY <1>1, <3>2
    <3>4. QED
      BY <1>1, <2>2, <3>1, <3>2, <3>3
  <2>3. QED
    BY <1>3, <2>1, <2>2
<1>11. JournalIsNewest'
  <2> DEFINE gone == AllWritten \ rows
             gone1 == AllWritten' \ rows'
  <2>1. gone1 \subseteq gone
    BY <1>2, <1>4
  <2>2. SUFFICES ASSUME gone1 # {}, ~steppedBack'
                 PROVE  /\ \A r \in rows', g \in gone1 : g.at <= r.at
                        /\ \/ Cardinality(rows') >= MaxEntries
                           \/ \A g \in gone1 : g.at < log'[Len(log')].at - Retention
    BY DEF JournalIsNewest, AllWritten
  <2>3. ~steppedBack /\ gone # {}
    BY <1>5, <2>1, <2>2
  <2>4. /\ \A r \in rows, g \in gone : g.at <= r.at
        /\ \/ Cardinality(rows) >= MaxEntries
           \/ \A g \in gone : g.at < log[Len(log)].at - Retention
    BY <2>3 DEF TableInv, JournalIsNewest, AllWritten
  <2>5. \A g \in gone1 : g.at <= row.at /\ g.at \in Nat
    BY <1>6, <1>8, <2>1, <2>2 DEF AllWritten
  <2>6. \A r \in rows', g \in gone1 : g.at <= r.at
    BY <1>2, <2>1, <2>4, <2>5
  <2>7. CASE Cardinality(rows) >= MaxEntries
    <3>1. IsFiniteSet(rows) /\ Cardinality(rows) \in Nat
      BY RowsFinite
    <3>2. IsFiniteSet(rows')
      BY <1>2, <3>1, FS_AddElement
    <3>3. Cardinality(rows) <= Cardinality(rows') /\ Cardinality(rows') \in Nat
      BY <1>2, <3>2, FS_Subset, FS_CardinalityType
    <3>4. MaxEntries \in Nat
      BY JournalAssumption
    <3>5. Cardinality(rows') >= MaxEntries
      BY <2>7, <3>1, <3>3, <3>4
    <3>6. QED
      BY <2>6, <3>5
  <2>8. CASE \A g \in gone : g.at < log[Len(log)].at - Retention
    <3>1. Len(log) \in DOMAIN log
      <4>1. PICK i \in DOMAIN log : log[i] \in gone
        BY <2>3 DEF AllWritten
      <4>2. QED
        BY <1>1, <4>1
    <3>2. log[Len(log)].at <= row.at /\ log[Len(log)].at \in Nat
      BY <1>6, <1>8, <2>2, <3>1
    <3>3. log'[Len(log')] = row
      BY <1>1
    <3>4. Retention \in Nat
      BY JournalAssumption
    <3>5. \A g \in gone1 : g.at < row.at - Retention
      BY <1>7, <2>1, <2>5, <2>8, <3>2, <3>4
    <3>6. QED
      BY <2>6, <3>3, <3>5
  <2>9. QED
    BY <2>4, <2>7, <2>8
<1>12. TableInv'
  <2>1. rows' \subseteq AllWritten'
    BY <1>2, <1>4 DEF TableInv
  <2>2. QED
    BY <1>1, <1>5, <1>9, <1>10, <1>11, <2>1 DEF TableInv
<1>13. QED
  BY <1>1, <1>12

(* A sweep leaves the newest rows, within the limit.                       *)
LEMMA SweepKeeps ==
    ASSUME TableInv, Len(log) > 0, NEW kept \in SUBSET rows, Kept(kept, log[Len(log)].at),
           rows' = kept, UNCHANGED <<log, now, steppedBack>>
    PROVE  TableInv' /\ Cardinality(rows') <= MaxEntries
<1> DEFINE last == log[Len(log)].at
           recent == {r \in rows : r.at >= last - Retention}
           gone == AllWritten \ rows
<1>1. MaxEntries \in Nat /\ Retention \in Nat
  BY JournalAssumption
<1>2. /\ DOMAIN log = 1 .. Len(log) /\ Len(log) \in Nat /\ IsFiniteSet(rows)
      /\ Cardinality(rows) \in Nat /\ \A r \in AllWritten : r.at \in Nat
  BY RowsFinite
<1>3. last \in Nat
  BY <1>2 DEF AllWritten
<1>4. /\ kept \subseteq recent
      /\ Cardinality(kept) = IF Cardinality(recent) < MaxEntries
                             THEN Cardinality(recent) ELSE MaxEntries
      /\ \A r \in kept, s \in recent \ kept : r.at >= s.at
  BY DEF Kept
<1>5. IsFiniteSet(recent) /\ Cardinality(recent) \in Nat /\ IsFiniteSet(kept)
      /\ Cardinality(kept) \in Nat
  BY <1>2, <1>4, FS_Subset, FS_CardinalityType
<1>6. rows \subseteq AllWritten
  BY DEF TableInv
<1>7. AllWritten' = AllWritten
  BY DEF AllWritten
<1> HIDE DEF last, recent
<1>8. Cardinality(kept) <= MaxEntries
  BY <1>1, <1>4, <1>5
<1>9. \A r \in rows \ recent : r.at < last - Retention
  BY <1>1, <1>2, <1>3, <1>6 DEF recent
<1>10. \A r \in recent : r.at >= last - Retention /\ r \in rows
  BY DEF recent
<1>11. JournalIsNewest'
  <2> SUFFICES ASSUME ~steppedBack
               PROVE  /\ \A r \in kept, g \in AllWritten \ kept : g.at <= r.at
                      /\ \/ Cardinality(kept) >= MaxEntries
                         \/ \A g \in AllWritten \ kept : g.at < last - Retention
    BY DEF JournalIsNewest, AllWritten, last
  <2>1. gone # {} => /\ \A r \in rows, g \in gone : g.at <= r.at
                     /\ \/ Cardinality(rows) >= MaxEntries
                        \/ \A g \in gone : g.at < last - Retention
    BY DEF TableInv, JournalIsNewest, AllWritten, last
  <2>2. ASSUME NEW r \in kept, NEW g \in AllWritten \ kept PROVE g.at <= r.at
    <3>1. r \in recent /\ r \in rows /\ r.at >= last - Retention
      BY <1>4, <1>10
    <3>2. r.at \in Nat /\ g.at \in Nat
      BY <1>2, <1>6
    <3>3. CASE g \in gone
      BY <2>1, <3>1, <3>3
    <3>4. CASE g \in rows \ recent
      <4>1. g.at < last - Retention
        BY <1>9, <3>4
      <4>2. QED
        BY <1>1, <1>3, <3>1, <3>2, <4>1
    <3>5. CASE g \in recent
      <4>1. r.at >= g.at
        BY <1>4, <3>5
      <4>2. QED
        BY <3>2, <4>1
    <3>6. QED
      BY <3>3, <3>4, <3>5
  <2>3. ASSUME ~(Cardinality(kept) >= MaxEntries)
        PROVE  \A g \in AllWritten \ kept : g.at < last - Retention
    <3>1. Cardinality(recent) < MaxEntries /\ Cardinality(kept) = Cardinality(recent)
      BY <1>1, <1>4, <1>5, <2>3
    <3>2. kept = recent
      BY <1>4, <1>5, <3>1, FS_Subset
    <3>3. ASSUME NEW g \in gone PROVE g.at < last - Retention
      <4>1. CASE \A x \in gone : x.at < last - Retention
        BY <4>1
      <4>2. CASE Cardinality(rows) >= MaxEntries
        <5>1. rows # recent
          BY <1>1, <1>2, <3>1, <4>2
        <5>2. PICK r \in rows : r \notin recent
          BY <1>10, <5>1
        <5>3. g.at <= r.at /\ r.at < last - Retention
          BY <1>9, <2>1, <5>2
        <5>4. g.at \in Nat /\ r.at \in Nat
          BY <1>2, <1>6
        <5>5. QED
          BY <1>1, <1>3, <5>3, <5>4
      <4>3. QED
        BY <2>1, <4>1, <4>2
    <3>4. QED
      BY <1>9, <3>2, <3>3
  <2>4. QED
    BY <2>2, <2>3
<1>12. TableInv'
  <2>1. InOrder' /\ BrainRowFollowsTick'
    BY DEF TableInv, InOrder, BrainRowFollowsTick
  <2>2. rows' \subseteq AllWritten'
    BY <1>6, <1>7
  <2>3. QED
    BY <1>11, <2>1, <2>2 DEF TableInv
<1>13. QED
  BY <1>8, <1>12

(* The rows the handlers write.                                            *)
LEMMA RowIs ==
    ASSUME TableInv, ReadClock, ticksRun \in Nat, tick.decision \in {"idle", "act", "escalate"},
           Len(log) <= MaxRows, NEW kind \in {"tick", "brain"},
           NEW status \in {"none", "called", "declined", "error"}
    PROVE  /\ Row(kind, status) \in Rows
           /\ Row(kind, status).at = now' /\ Row(kind, status).kind = kind
           /\ Row(kind, status).tick = ticksRun /\ Row(kind, status).decision = tick.decision
<1>1. now' \in 1 .. MaxTime
  <2>1. MaxTime \in Nat /\ now \in 1 .. MaxTime
    BY TickBounds DEF TableInv
  <2>2. QED
    BY <2>1 DEF ReadClock
<1>2. Len(log) + 1 \in 1 .. MaxRows + 1
  <2>1. Len(log) \in Nat /\ MaxRows \in Nat
    BY RowsFinite, TickBounds
  <2>2. QED
    BY <2>1
<1>3. QED
  BY <1>1, <1>2 DEF Row, Rows

(* A step that writes and sweeps nothing leaves the table as good as it was. *)
LEMMA TableStays ==
    ASSUME TableInv, UNCHANGED <<now, steppedBack, log, rows>>
    PROVE  TableInv'
BY DEF TableInv, InOrder, AllWritten, BrainRowFollowsTick, JournalIsNewest

LEMMA PlaceStep == JournalInv /\ [Next]_vars => TableInv' /\ PlaceInv'
<1> SUFFICES ASSUME JournalInv, [Next]_vars PROVE TableInv' /\ PlaceInv'
  OBVIOUS
<1> USE DEF JournalInv
<1>1. MaxRows \in Nat /\ MaxEntries \in Nat /\ Len(log) \in Nat /\ DOMAIN log = 1 .. Len(log)
  BY TickBounds, JournalAssumption, RowsFinite
<1>2. CASE UNCHANGED vars
  <2>1. TableInv'
    BY <1>2, TableStays DEF vars
  <2>2. PlaceInv'
    BY <1>2 DEF vars, PlaceInv, OfThisTick
  <2>3. QED
    BY <2>1, <2>2
<1>3. ASSUME NEW trouble, NEW broken, Collect(trouble, broken)
      PROVE  TableInv' /\ PlaceInv'
  <2>1. /\ pc' = "generate" /\ tick'.decision = "none" /\ Len(log) < MaxRows
        /\ UNCHANGED <<now, up, ticksRun, failing, slow, rows, log, steppedBack>>
    BY <1>3 DEF Collect, historyVars
  <2>2. TableInv'
    BY <2>1, TableStays
  <2>3. PlaceInv'
    BY <2>1 DEF PlaceInv, Undecided, Handling, Handled
  <2>4. QED
    BY <2>2, <2>3
<1>4. ASSUME pc' = "idle", tick' = NoTick, ticksRun' \in {0, ticksRun},
             up' \in BOOLEAN, failing' \in BOOLEAN, slow' \in BOOLEAN,
             UNCHANGED <<now, rows, log, steppedBack>>
      PROVE  TableInv' /\ PlaceInv'
  <2>1. TableInv'
    BY <1>4, TableStays
  <2>2. tick'.decision = "none"
    BY <1>4 DEF NoTick
  <2>3. PlaceInv'
    BY <1>4, <2>2 DEF PlaceInv, Undecided, Handling, Handled
  <2>4. QED
    BY <2>1, <2>3
<1>5. ASSUME Raise PROVE TableInv' /\ PlaceInv'
  BY <1>4, <1>5 DEF Raise, historyVars, PlaceInv
<1>6. ASSUME Finish PROVE TableInv' /\ PlaceInv'
  BY <1>4, <1>6 DEF Finish, historyVars, PlaceInv
<1>7. ASSUME Die PROVE TableInv' /\ PlaceInv'
  BY <1>4, <1>7 DEF Die
<1>8. ASSUME Boot PROVE TableInv' /\ PlaceInv'
  <2>1. up' = TRUE /\ UNCHANGED <<now, pc, tick, ticksRun, failing, slow, rows, log, steppedBack>>
    BY <1>8 DEF Boot, historyVars
  <2>2. TableInv'
    BY <2>1, TableStays
  <2>3. PlaceInv'
    BY <2>1 DEF PlaceInv, OfThisTick
  <2>4. QED
    BY <2>2, <2>3
<1>9. ASSUME NEW reply \in {"idle", "act", "escalate", "other"}, NEW long \in BOOLEAN,
             Generate(reply, long)
      PROVE  TableInv' /\ PlaceInv'
  <2>1. /\ pc = "generate" /\ pc' = "journal" /\ ticksRun' = ticksRun + 1 /\ failing' = FALSE
        /\ slow' = (long \/ Active("tick_overrun", ticksRun + 1))
        /\ UNCHANGED <<now, up, rows, log, steppedBack>>
    BY <1>9 DEF Generate, FirstHandler, historyVars
  <2>2. slow' \in BOOLEAN
    BY <2>1, Zenon
  <2>3. tick'.decision \in {"idle", "act", "escalate"}
    <3> DEFINE d == IF reply \in {"idle", "act", "escalate"} THEN reply ELSE "idle"
    <3>1. d \in {"idle", "act", "escalate"}
      OBVIOUS
    <3>2. tick' = [NoTick EXCEPT !.decision = d]
      BY <1>9 DEF Generate
    <3> HIDE DEF d
    <3>3. tick'.decision = d
      BY <3>2 DEF NoTick
    <3>4. QED
      BY <3>1, <3>3
  <2>4. TableInv'
    BY <2>1, TableStays
  <2>5. PlaceInv'
    <3>1. up \in BOOLEAN /\ up' = up /\ failing' = FALSE /\ ticksRun' \in Nat
      BY <2>1 DEF PlaceInv
    <3>2. Len(log') < MaxRows /\ Len(log') <= MaxRows + 1
      BY <2>1 DEF PlaceInv
    <3> DEFINE late == slow'
    <3>3. late \in BOOLEAN
      BY <2>2
    <3> HIDE DEF late
    <3>4. QED
      BY <2>1, <2>3, <3>1, <3>2, <3>3 DEF PlaceInv, Undecided, Handling, Handled, late
  <2>6. QED
    BY <2>4, <2>5
<1>10. ASSUME JournalTick PROVE TableInv' /\ PlaceInv'
  <2> DEFINE row == Row("tick", "none")
  <2>1. /\ pc = "journal" /\ pc' = "sweep" /\ ReadClock /\ Insert(row, "sweep")
        /\ UNCHANGED <<up, tick, ticksRun, failing, slow>>
    BY <1>10 DEF JournalTick, Insert
  <2>2. /\ ticksRun \in Nat /\ tick.decision \in {"idle", "act", "escalate"}
        /\ Len(log) < MaxRows
    BY <2>1 DEF PlaceInv, Undecided
  <2>3. /\ row \in Rows /\ row.at = now' /\ row.kind = "tick" /\ row.tick = ticksRun
        /\ row.decision = tick.decision
    BY <1>1, <2>1, <2>2, RowIs
  <2> HIDE DEF row
  <2>4. TableInv' /\ Len(log') = Len(log) + 1 /\ log'[Len(log')] = row
    BY <2>1, <2>3, InsertKeeps
  <2>5. OfThisTick(log[Len(log)])'
    BY <2>1, <2>3, <2>4 DEF OfThisTick
  <2>6. PlaceInv'
    BY <1>1, <2>1, <2>2, <2>4, <2>5 DEF PlaceInv, Undecided, Handling, Handled
  <2>7. QED
    BY <2>4, <2>6
<1>11. ASSUME SweepTick PROVE TableInv' /\ PlaceInv'
  <2>1. /\ pc = "sweep" /\ pc' = "brain"
        /\ UNCHANGED <<now, up, tick, ticksRun, failing, slow, log, steppedBack>>
    BY <1>11 DEF SweepTick, Sweep, historyVars
  <2>2. PICK kept \in SUBSET rows : Kept(kept, log[Len(log)].at) /\ rows' = kept
    BY <1>11 DEF SweepTick, Sweep
  <2>3. Len(log) > 0
    BY <2>1 DEF PlaceInv, Handling
  <2>4. TableInv' /\ Cardinality(rows') <= MaxEntries
    BY <2>1, <2>2, <2>3, SweepKeeps
  <2>5. PlaceInv'
    BY <2>1, <2>4 DEF PlaceInv, Undecided, Handling, Handled, OfThisTick
  <2>6. QED
    BY <2>4, <2>5
<1>12. ASSUME SweepBrain PROVE TableInv' /\ PlaceInv'
  <2>1. /\ pc = "sweep_brain" /\ pc' = "inject"
        /\ UNCHANGED <<now, up, tick, ticksRun, failing, slow, log, steppedBack>>
    BY <1>12 DEF SweepBrain, Sweep, historyVars
  <2>2. PICK kept \in SUBSET rows : Kept(kept, log[Len(log)].at) /\ rows' = kept
    BY <1>12 DEF SweepBrain, Sweep
  <2>3. PICK i \in DOMAIN log : OfThisTick(log[i])
    BY <2>1 DEF PlaceInv, Handled
  <2>4. Len(log) > 0
    BY <1>1, <2>3
  <2>5. TableInv' /\ Cardinality(rows') <= MaxEntries
    BY <2>1, <2>2, <2>4, SweepKeeps
  <2>6. PlaceInv'
    BY <2>1, <2>5 DEF PlaceInv, Undecided, Handling, Handled, OfThisTick
  <2>7. QED
    BY <2>5, <2>6
<1>13. ASSUME SkipBrain PROVE TableInv' /\ PlaceInv'
  <2>1. /\ pc = "brain" /\ pc' = "inject"
        /\ UNCHANGED <<now, up, tick, ticksRun, failing, slow, rows, log, steppedBack>>
    BY <1>13 DEF SkipBrain, historyVars
  <2>2. Len(log) \in DOMAIN log /\ OfThisTick(log[Len(log)])
    BY <1>1, <2>1 DEF PlaceInv, Handling
  <2>3. TableInv'
    BY <2>1, TableStays
  <2>4. PlaceInv'
    BY <2>1, <2>2 DEF PlaceInv, Undecided, Handling, Handled, OfThisTick
  <2>5. QED
    BY <2>3, <2>4
<1>14. ASSUME OpenStream PROVE TableInv' /\ PlaceInv'
  <2>1. /\ pc = "brain" /\ pc' = "stream" /\ tick.decision = "escalate"
        /\ UNCHANGED <<now, up, tick, ticksRun, failing, slow, rows, log, steppedBack>>
    BY <1>14 DEF OpenStream, Escalates, historyVars
  <2>2. TableInv'
    BY <2>1, TableStays
  <2>3. PlaceInv'
    BY <2>1 DEF PlaceInv, Undecided, Handling, Handled, OfThisTick
  <2>4. QED
    BY <2>2, <2>3
<1>15. ASSUME \/ TextDelta \/ Done \/ Wake
              \/ \E class \in ErrorClasses : Retry(class) \/ StreamFails(class)
       PROVE  TableInv' /\ PlaceInv'
  <2>1. /\ pc \in {"stream", "backoff"} /\ pc' \in {"stream", "backoff", "brain_row"}
        /\ UNCHANGED <<now, up, tick, ticksRun, failing, slow, rows, log, steppedBack>>
    BY <1>15 DEF TextDelta, Done, Wake, Retry, StreamFails, historyVars
  <2>2. TableInv'
    BY <2>1, TableStays
  <2>3. PlaceInv'
    BY <2>1 DEF PlaceInv, Undecided, Handling, Handled, OfThisTick
  <2>4. QED
    BY <2>2, <2>3
<1>16. ASSUME NEW status \in {"none", "called", "declined", "error"},
              Insert(Row("brain", status), "sweep_brain"), ReadClock,
              pc \in {"brain", "brain_row"}, tick.decision = "escalate",
              UNCHANGED <<up, tick, ticksRun, failing, slow>>
       PROVE  TableInv' /\ PlaceInv'
  <2> DEFINE row == Row("brain", status)
  <2>1. /\ ticksRun \in Nat /\ Len(log) <= MaxRows /\ Len(log) > 0
        /\ OfThisTick(log[Len(log)])
    BY <1>16 DEF PlaceInv, Handling
  <2>2. /\ row \in Rows /\ row.at = now' /\ row.kind = "brain" /\ row.tick = ticksRun
    BY <1>16, <2>1, RowIs
  <2>3. Insert(row, "sweep_brain") /\ pc' = "sweep_brain"
    BY <1>16 DEF Insert
  <2> HIDE DEF row
  <2>4. /\ TableInv' /\ Len(log') = Len(log) + 1
        /\ \A i \in DOMAIN log : i \in DOMAIN log' /\ log'[i] = log[i]
    BY <1>16, <2>1, <2>2, <2>3, InsertKeeps DEF OfThisTick
  <2>5. \E i \in DOMAIN log' : OfThisTick(log[i])'
    BY <1>1, <1>16, <2>1, <2>4 DEF OfThisTick
  <2>6. PlaceInv'
    BY <1>1, <1>16, <2>1, <2>3, <2>4, <2>5 DEF PlaceInv, Undecided, Handling, Handled
  <2>7. QED
    BY <2>4, <2>6
<1>17. ASSUME Decline PROVE TableInv' /\ PlaceInv'
  BY <1>16, <1>17 DEF Decline, Escalates
<1>18. ASSUME JournalBrain PROVE TableInv' /\ PlaceInv'
  <2>1. stream.status \in {"none", "called", "declined", "error"}
    BY DEF StreamInv
  <2>2. tick.decision = "escalate"
    BY <1>18 DEF JournalBrain, PlaceInv
  <2>3. QED
    BY <1>16, <1>18, <2>1, <2>2 DEF JournalBrain
<1>19. QED
  BY <1>2, <1>3, <1>5, <1>6, <1>7, <1>8, <1>9, <1>10, <1>11, <1>12, <1>13, <1>14, <1>15,
     <1>17, <1>18
     DEF Next, TickStep, GenerateFails, Inject, WriteFails

LEMMA StepJournal == JournalInv /\ [Next]_vars => JournalInv'
BY PlaceStep, StepStream DEF JournalInv

LEMMA InitJournal == UseInit => JournalInv
<1> SUFFICES ASSUME Init PROVE JournalInv
  BY UseInits
<1>1. StreamInv
  BY InitStream
<1>2. /\ <<>> \in Seq(Rows) /\ DOMAIN <<>> = {} /\ Len(<<>>) = 0
      /\ MaxTime \in Nat \ {0} /\ MaxRows \in Nat \ {0}
  BY TickBounds
<1>3. log = <<>> /\ rows = {} /\ now = 1 /\ steppedBack = FALSE
  BY DEF Init
<1>4. TableInv
  <2>1. DOMAIN log = {} /\ log \in Seq(Rows)
    BY <1>2, <1>3
  <2>2. now \in 1 .. MaxTime
    BY <1>2, <1>3
  <2>3. steppedBack \in BOOLEAN
    BY <1>3
  <2>4. AllWritten = {}
    BY <2>1 DEF AllWritten
  <2>5. InOrder /\ BrainRowFollowsTick
    BY <2>1 DEF InOrder, BrainRowFollowsTick
  <2>6. JournalIsNewest
    BY <2>4 DEF JournalIsNewest, AllWritten
  <2>7. QED
    BY <1>3, <2>1, <2>2, <2>3, <2>5, <2>6 DEF TableInv
<1>5. tick.decision = "none"
  BY DEF Init, NoTick
<1>6. PlaceInv
  <2>1. /\ pc = "idle" /\ up = TRUE /\ failing = FALSE /\ slow = FALSE /\ ticksRun = 0
    BY DEF Init
  <2>2. Len(log) <= MaxRows + 1
    BY <1>2, <1>3
  <2>3. QED
    BY <1>5, <2>1, <2>2 DEF PlaceInv, Undecided, Handling, Handled
<1>7. QED
  BY <1>1, <1>4, <1>6 DEF JournalInv

(* The journal an operator reads is in order, within its limits, and says  *)
(* which tick called the Brain: after any interruption and step of the     *)
(* clock, for any limits.                                                  *)
THEOREM JournalAlwaysSound == UseSpec => []JournalSound
BY InitJournal, UseSteps, StepJournal, JournalIs, PTL DEF UseSpec

(* A tick that leaves the handlers has its row in the journal's history,   *)
(* also when the injector makes it fail.                                   *)
THEOREM DecidedAreJournaled == UseSpec => DecidedIsJournaled
<1>1. JournalInv /\ (Inject \/ Finish) =>
          \E i \in DOMAIN log : log[i].kind = "tick" /\ log[i].tick = ticksRun
                                /\ log[i].decision = tick.decision
  BY DEF JournalInv, PlaceInv, Handled, OfThisTick, Inject, Finish
<1>2. QED
  BY InitJournal, UseSteps, StepJournal, <1>1, PTL DEF UseSpec, DecidedIsJournaled

-----------------------------------------------------------------------------
(* The tick: the prompt                                                    *)

(* The tokens of some items are finitely many.                             *)
LEMMA UsedFinite ==
    ASSUME NEW items \in Seq(ItemKinds), NEW n \in 0 .. Len(items)
    PROVE  IsFiniteSet(UNION {{i} \X (1 .. ItemCost[items[i]]) : i \in 1 .. n})
<1> DEFINE I == 1 .. n
           T == {{i} \X (1 .. ItemCost[items[i]]) : i \in I}
           h == [i \in I |-> {i} \X (1 .. ItemCost[items[i]])]
<1>1. IsFiniteSet(I)
  BY FS_Interval
<1>2. h \in Surjection(I, T)
  BY DEF Surjection
<1>3. IsFiniteSet(T)
  BY <1>1, <1>2, FS_Surjection
<1>4. ASSUME NEW i \in I PROVE IsFiniteSet({i} \X (1 .. ItemCost[items[i]]))
  <2>1. items[i] \in ItemKinds
    OBVIOUS
  <2>2. ItemCost[items[i]] \in Int /\ 1 \in Int
    BY <2>1, BudgetAssumption
  <2>3. IsFiniteSet({i}) /\ IsFiniteSet(1 .. ItemCost[items[i]])
    BY <2>2, FS_Singleton, FS_Interval
  <2>4. QED
    BY <2>3, FS_Product
<1>5. QED
  BY <1>3, <1>4, FS_UNION

(* They are a number, and those of no item are none.                       *)
LEMMA UsedIs ==
    ASSUME NEW items \in Seq(ItemKinds), NEW n \in 0 .. Len(items)
    PROVE  Used(items, n) \in Nat /\ Used(items, 0) = 0
<1>1. Used(items, n) \in Nat
  BY UsedFinite, FS_CardinalityType DEF Used
<1>2. Used(items, 0) = 0
  <2>1. 1 .. 0 = {}
    OBVIOUS
  <2>2. UNION {{i} \X (1 .. ItemCost[items[i]]) : i \in 1 .. 0} = {}
    BY <2>1
  <2>3. QED
    BY <2>2, FS_EmptySet DEF Used
<1>3. QED
  BY <1>1, <1>2

(* As many items are taken as fit.                                         *)
LEMMA FittingIs ==
    ASSUME NEW items \in Seq(ItemKinds)
    PROVE  /\ Fitting(items) \in 0 .. Len(items) /\ Used(items, Fitting(items)) <= Available
           /\ Fitting(items) < Len(items) => Used(items, Fitting(items) + 1) > Available
<1> DEFINE cost(k) == Used(items, k)
           T == {k \in 0 .. Len(items) : cost(k) <= Available}
<1>1. Available \in Nat /\ Len(items) \in Nat
  BY BudgetAssumption DEF Available, Budget
<1>2. cost(0) = 0 /\ \A k \in 0 .. Len(items) : cost(k) \in Nat
  BY <1>1, UsedIs
<1> HIDE DEF cost
<1>3. 0 \in T
  BY <1>1, <1>2
<1>4. PICK m \in T : \A k \in T : k <= m
  BY <1>1, <1>3, Greatest
<1>5. m < Len(items) => cost(m + 1) > Available
  <2> SUFFICES ASSUME m < Len(items), ~(cost(m + 1) > Available) PROVE FALSE
    OBVIOUS
  <2>1. m \in Nat /\ m + 1 \in 0 .. Len(items) /\ cost(m + 1) \in Nat
    BY <1>1, <1>2
  <2>2. m + 1 <= m
    BY <1>1, <1>4, <2>1
  <2>3. QED
    BY <2>1, <2>2
<1> DEFINE Fits(k) == cost(k) <= Available /\ (k < Len(items) => cost(k + 1) > Available)
           n == CHOOSE k \in 0 .. Len(items) : Fits(k)
<1>6. \E k \in 0 .. Len(items) : Fits(k)
  BY <1>5
<1>7. n \in 0 .. Len(items) /\ Fits(n)
  BY <1>6
<1>8. Fitting(items) = n
  BY DEF Fitting, cost
<1> HIDE DEF n
<1>9. QED
  BY <1>7, <1>8 DEF cost

(* Trimming: what is over the budget, and what there was no room for.      *)
LEMMA TextFits ==
    ASSUME NEW items \in Seq(ItemKinds), NEW n, n = Fitting(items)
    PROVE  /\ TextTokens(items, n) > Budget =>
              \/ n = 0 /\ Template > Budget
              \/ n > 0 /\ TextTokens(items, n) - Budget <= (n - 1) * JoinCost - Placeholder
           /\ n < Len(items) => Template + Used(items, n + 1) > Budget
<1> DEFINE cost(k) == Used(items, k)
           joins == (n - 1) * JoinCost
<1>1. /\ {JoinCost, Template, Placeholder} \subseteq Nat /\ Budget \in Nat
      /\ Available = IF Budget > Template THEN Budget - Template ELSE 0
  BY BudgetAssumption DEF Budget, Available
<1>2. /\ n \in 0 .. Len(items) /\ cost(n) <= Available /\ Len(items) \in Nat
      /\ n < Len(items) => cost(n + 1) > Available
  BY FittingIs
<1>3. /\ cost(n) \in Nat /\ (n < Len(items) => cost(n + 1) \in Nat)
      /\ n \in Nat /\ joins \in Int
  <2>1. n \in Nat /\ (n < Len(items) => n + 1 \in 0 .. Len(items))
    BY <1>2
  <2>2. QED
    BY <1>1, <1>2, <2>1, UsedIs
<1>4. /\ n = 0 => TextTokens(items, n) = Template
      /\ n # 0 => TextTokens(items, n) = Template - Placeholder + cost(n) + joins
  BY DEF TextTokens
<1>5. n # 0 => cost(n) >= 1
  <2> SUFFICES ASSUME n # 0 PROVE cost(n) # 0
    BY <1>3
  <2> DEFINE U == UNION {{i} \X (1 .. ItemCost[items[i]]) : i \in 1 .. n}
  <2>1. 1 \in 1 .. n /\ items[1] \in ItemKinds
    BY <1>2
  <2>2. ItemCost[items[1]] \in Nat \ {0}
    BY <2>1, BudgetAssumption
  <2>3. <<1, 1>> \in {1} \X (1 .. ItemCost[items[1]])
    BY <2>2
  <2>4. U # {}
    BY <2>1, <2>3
  <2>5. IsFiniteSet(U)
    BY <1>2, UsedFinite
  <2> HIDE DEF U
  <2>6. Cardinality(U) # 0
    BY <2>4, <2>5, FS_EmptySet
  <2>7. QED
    BY <2>6 DEF Used, U
<1> HIDE DEF cost, joins
<1>6. TextTokens(items, n) > Budget =>
          \/ n = 0 /\ Template > Budget
          \/ n > 0 /\ TextTokens(items, n) - Budget <= joins - Placeholder
  BY <1>1, <1>2, <1>3, <1>4, <1>5
<1>7. n < Len(items) => Template + cost(n + 1) > Budget
  BY <1>1, <1>2, <1>3
<1>8. QED
  BY <1>6, <1>7 DEF cost, joins

\* What sources may report when there are, or are no, faults to report.
Reportable(trouble) ==
    {x \in ItemKinds : trouble /\ x.name = "faults" => x.priority = 100}

(* The list is that of the sources, highest priority first.                *)
LEMMA ByPriorityIs ==
    ASSUME NEW S, \A x \in S : x.priority \in Int, NEW items \in Seq(S)
    PROVE  LET l == ByPriority(items) IN
           /\ l \in Seq(S) /\ Len(l) \in Nat /\ DOMAIN l = 1 .. Len(l)
           /\ \A p, q \in 1 .. Len(l) : p < q => l[p].priority >= l[q].priority
<1> DEFINE D == DOMAIN items
           n == Cardinality(D)
           key == [i \in D |-> -items[i].priority]
           order == Sorted(D, key)
           l == ByPriority(items)
<1>1. /\ Len(items) \in Nat /\ D = 1 .. Len(items) /\ \A i \in D : items[i] \in S
      /\ D \in SUBSET Int
  OBVIOUS
<1>2. IsFiniteSet(D) /\ n = Len(items)
  BY <1>1, FS_Interval
<1>3. \A i \in D : items[i].priority \in Int /\ key[i] = -items[i].priority /\ key[i] \in Int
  BY <1>1
<1>4. l = [p \in D |-> items[order[p]]]
  BY DEF ByPriority
<1> HIDE DEF key
<1>5. /\ n \in Nat /\ order \in [1 .. n -> D]
      /\ \A p, q \in 1 .. n : p < q => key[order[p]] <= key[order[q]]
  BY <1>1, <1>2, <1>3, SortedIs
<1> HIDE DEF order, n, l
<1>6. D = 1 .. n
  BY <1>1, <1>2
<1>7. \A p \in 1 .. n : order[p] \in D /\ l[p] = items[order[p]] /\ l[p] \in S
  BY <1>1, <1>4, <1>5, <1>6
<1>8. l \in [1 .. n -> S]
  BY <1>4, <1>6, <1>7
<1>9. l \in Seq(S) /\ Len(l) = n /\ DOMAIN l = 1 .. n
  BY <1>5, <1>8
<1>10. ASSUME NEW p \in 1 .. n, NEW q \in 1 .. n, p < q
       PROVE  l[p].priority >= l[q].priority
  <2> DEFINE a == items[order[p]].priority
             b == items[order[q]].priority
  <2>1. a \in Int /\ b \in Int /\ key[order[p]] = -a /\ key[order[q]] = -b
    BY <1>3, <1>7
  <2>2. key[order[p]] <= key[order[q]]
    BY <1>5, <1>10
  <2>3. l[p].priority = a /\ l[q].priority = b
    BY <1>7
  <2> HIDE DEF a, b
  <2>4. QED
    BY <2>1, <2>2, <2>3
<1>11. QED
  BY <1>5, <1>9, <1>10 DEF l

(* What the three sources report.                                          *)
LEMMA Reported ==
    ASSUME NEW trouble
    PROVE  LET S == Reportable(failing \/ slow) IN
           /\ <<>> \in Seq(S) /\ DaemonItems(trouble) \in Seq(S)
           /\ JournalItems \in Seq(S) /\ OpencodeItems(trouble) \in Seq(S)
<1> DEFINE S == Reportable(failing \/ slow)
           ready == IF "readiness" \in trouble THEN 100 ELSE 10
           healthy == IF "database" \in trouble THEN 100 ELSE 10
           fault == IF failing \/ slow THEN 100 ELSE 10
           stall == IF "stalled" \in trouble THEN 50 ELSE 5
           ended == IF "outcomes" \in trouble THEN 50 ELSE 5
<1>1. /\ {ready, healthy, fault, stall, ended} \subseteq Priorities
      /\ (failing \/ slow) => fault = 100
  BY DEF Priorities
<1> HIDE DEF ready, healthy, fault, stall, ended
<1>2. /\ Item("uptime", 0) \in S /\ Item("readiness", ready) \in S
      /\ Item("database", healthy) \in S
      /\ Item("activity", 0) \in S /\ Item("faults", fault) \in S
  BY <1>1 DEF Item, Reportable, ItemKinds, ItemNames, Priorities
<1>3. /\ Item("journal", -10) \in S /\ Item("runs", 5) \in S
      /\ Item("stalled", stall) \in S /\ Item("outcomes", ended) \in S
  BY <1>1 DEF Item, Reportable, ItemKinds, ItemNames, Priorities
<1> HIDE DEF S
<1>4. <<Item("uptime", 0), Item("readiness", ready), Item("database", healthy),
        Item("activity", 0), Item("faults", fault)>> \in Seq(S)
  BY <1>2
<1>5. DaemonItems(trouble) \in Seq(S)
  BY <1>4 DEF DaemonItems, ready, healthy, fault
<1>6. <<Item("journal", -10)>> \in Seq(S) /\ <<>> \in Seq(S)
  BY <1>3
<1>7. JournalItems \in Seq(S)
  BY <1>6 DEF JournalItems
<1>8. <<Item("runs", 5), Item("stalled", stall), Item("outcomes", ended)>> \in Seq(S)
  BY <1>3
<1>9. OpencodeItems(trouble) \in Seq(S)
  BY <1>8 DEF OpencodeItems, stall, ended
<1>10. QED
  BY <1>5, <1>6, <1>7, <1>9 DEF S

LEMMA CollectSound ==
    ASSUME NEW trouble, NEW broken, Collect(trouble, broken)
    PROVE  PromptSound'
<1> DEFINE S == Reportable(failing \/ slow)
           injected == IF Active("readiness_check", ticksRun + 1) THEN {"readiness"} ELSE {}
           daemon == IF "daemon_state" \in broken THEN <<>>
                     ELSE DaemonItems(trouble \cup injected)
           opencode == IF "opencode_state" \in broken THEN <<>> ELSE OpencodeItems(trouble)
           reported == daemon \o JournalItems \o opencode
           items == ByPriority(reported)
           n == Fitting(items)
<1>1. /\ tick' = [items |-> items, included |-> n, tokens |-> TextTokens(items, n),
                   decision |-> "none"]
      /\ failing' = failing /\ slow' = slow
  BY DEF Collect
<1>2. daemon \in Seq(S) /\ JournalItems \in Seq(S) /\ opencode \in Seq(S)
  BY Reported
<1> HIDE DEF injected, daemon, opencode, S
<1>3. reported \in Seq(S)
  BY <1>2
<1>4. \A x \in S : x.priority \in Int /\ x.priority <= 100
                   /\ ((failing \/ slow) /\ x.name = "faults" => x.priority = 100)
                   /\ x \in ItemKinds
  BY DEF S, Reportable, ItemKinds, Priorities
<1> HIDE DEF reported
<1>5. /\ items \in Seq(S) /\ Len(items) \in Nat /\ DOMAIN items = 1 .. Len(items)
      /\ \A p, q \in 1 .. Len(items) : p < q => items[p].priority >= items[q].priority
  BY <1>3, <1>4, ByPriorityIs
<1> HIDE DEF items
<1>6. items \in Seq(ItemKinds)
  BY <1>4, <1>5
<1> HIDE DEF n
<1>7. TrimmedToBudget' /\ n \in 0 .. Len(items)
  <2>1. n = Fitting(items)
    BY DEF n
  <2>2. tick'.items = items /\ tick'.included = n /\ tick'.tokens = TextTokens(items, n)
    BY <1>1
  <2>3. n \in 0 .. Len(items)
    BY <1>6, <2>1, FittingIs
  <2>4. TextTokens(items, n) + MaxOutput > Context => TextTokens(items, n) > Budget
    BY <1>6, <2>3, UsedIs, BudgetAssumption DEF TextTokens, Budget
  <2>5. QED
    BY <1>6, <2>1, <2>2, <2>3, <2>4, TextFits
       DEF TrimmedToBudget, Overflows, Used, Budget
<1>8. UrgentFirst'
  <2>1. tick'.included = n /\ tick'.items = items
    BY <1>1
  <2>2. ASSUME NEW i \in 1 .. n, NEW j \in n + 1 .. Len(items)
        PROVE  items[i].priority >= items[j].priority
    <3>1. i \in 1 .. Len(items) /\ j \in 1 .. Len(items) /\ i < j
      BY <1>5, <1>7
    <3>2. QED
      BY <1>5, <3>1
  <2>3. ASSUME failing \/ slow, NEW i \in DOMAIN items, items[i].name = "faults",
               NEW k \in Note(items)
        PROVE  items[k].priority = 100
    <3>1. items[i] \in S /\ items[i].priority = 100
      BY <1>4, <1>5, <2>3
    <3>2. 1 \in 1 .. Len(items) /\ items[1] \in S
      BY <1>5
    <3>3. items[1].priority \in Int /\ items[1].priority <= 100
      BY <1>4, <3>2
    <3>4. items[1].priority >= 100
      <4>1. CASE i = 1
        BY <3>1, <4>1
      <4>2. CASE i # 1
        BY <1>5, <3>1, <3>2, <4>2
      <4>3. QED
        BY <4>1, <4>2
    <3>5. items[k].priority = items[1].priority
      BY DEF Note
    <3>6. QED
      BY <3>3, <3>4, <3>5
  <2>4. QED
    BY <1>1, <2>1, <2>2, <2>3 DEF UrgentFirst, Note
<1>9. QED
  BY <1>7, <1>8 DEF PromptSound

(* A prompt stays as it is until it is put to the model.                   *)
LEMMA StepPrompt == PromptSound /\ [Next]_vars => PromptSound'
<1> SUFFICES ASSUME PromptSound, [Next]_vars PROVE PromptSound'
  OBVIOUS
<1>1. ASSUME pc' # "generate" PROVE PromptSound'
  BY <1>1 DEF PromptSound, TrimmedToBudget, UrgentFirst
<1>2. ASSUME UNCHANGED <<pc, tick, failing, slow>> PROVE PromptSound'
  BY <1>2 DEF PromptSound, TrimmedToBudget, UrgentFirst, Note, Budget, Overflows, Used
<1>3. CASE \E trouble \in SUBSET Troubles, broken \in {{}, {"daemon_state"}, {"opencode_state"}} :
              Collect(trouble, broken)
  BY <1>3, CollectSound
<1>4. CASE TickStep \/ Die
  <2>1. pc' # "generate"
    BY <1>4 DEF TickStep, Die, GenerateFails, Inject, WriteFails, Raise, Generate, FirstHandler,
                JournalTick, Insert, SweepTick, Sweep, SkipBrain, Decline, OpenStream, TextDelta,
                Done, Retry, StreamFails, Wake, JournalBrain, SweepBrain, Finish
  <2>2. QED
    BY <1>1, <2>1
<1>5. CASE Boot \/ UNCHANGED vars
  BY <1>2, <1>5 DEF Boot, vars
<1>6. QED
  BY <1>3, <1>4, <1>5 DEF Next

(* What the model is asked about is what is most urgent, a fault before    *)
(* all else, and as much of it as there is room for.  The budget is        *)
(* exceeded by the line breaks beyond the placeholder at most, or by the   *)
(* template alone: for any sizes of context, template and items.           *)
THEOREM PromptAlwaysSound == UseSpec => []PromptSound
<1>1. UseInit => PromptSound
  BY UseInits DEF Init, PromptSound, TrimmedToBudget, UrgentFirst
<1>2. QED
  BY UseSteps, StepPrompt, <1>1, PTL DEF UseSpec

-----------------------------------------------------------------------------
(* The report store.  What follows holds until two have been at work at    *)
(* once; from then on nothing is promised.                                 *)

Exts == {"md", "json"}

Keys == [kind : Kinds, n : Stems, ext : Exts]

ReportFiles == [key : Keys, of : Reports]

Mate(k) == Key(k.kind, k.n, IF k.ext = "md" THEN "json" ELSE "md")

\* One file per key.
OneEach(files) == \A f, g \in files : f.key = g.key => f = g

Writers == [dir : Dirs, kind : Kinds, n : Stems, lost : BOOLEAN,
            pc : {"new", "md", "json", "list", "put_md", "put_json", "done", "dead"}]

Publishers == [pc : {"off", "list", "items", "contract", "published"}, kind : Kinds,
               items : SUBSET Keys, existing : SUBSET Keys, failed : BOOLEAN]

StoreTypes ==
    /\ writer \in [Reports -> Writers]
    /\ publisher \in [Dirs -> Publishers]
    /\ local \in [Dirs -> SUBSET ReportFiles] /\ bucket \in SUBSET ReportFiles
    /\ OneEach(bucket) /\ \A d \in Dirs : OneEach(local[d])
    /\ faults \in Nat

\* A stem is 1 or that of some report, so there is always a free one.
StemInv ==
    LET used == {writer[r].n : r \in Reports} \cup {1} IN
    \A d \in Dirs : \A f \in bucket \cup local[d] : f.key.n \in used

AloneInv == \A a, b \in Working(writer, publisher) : a = b

Mine(r, n, ext) == [key |-> Key(writer[r].kind, n, ext), of |-> r]

\* What the run or renderer of r has written so far, and that what it writes next is free.
WriterInv(r) ==
    LET w == writer[r]
        here == local[w.dir]
        name(ext) == Key(w.kind, w.n, ext)
    IN /\ w.pc = "new" \/ (w.kind = "bench" /\ w.pc \in {"md", "json", "list"}) => w.n = 1
       /\ w.pc \in {"list", "put_md", "put_json"} =>
             w.kind = "bench" /\ \A ext \in Exts : Mine(r, 1, ext) \in here
       /\ w.pc = "json" => Mine(r, w.n, "md") \in here
       /\ w.kind = "soak" /\ w.pc = "md" => \A ext \in Exts : name(ext) \notin Present(here)
       /\ w.kind = "soak" /\ w.pc = "json" => name("json") \notin Present(here)
       /\ w.pc = "put_md" => \A ext \in Exts : name(ext) \notin Present(bucket)
       /\ w.pc = "put_json" =>
             name("json") \notin Present(bucket) /\ Mine(r, w.n, "md") \in bucket
       /\ w.pc = "done" /\ ~w.lost =>
             \A ext \in Exts : Mine(r, w.n, ext) \in IF w.kind = "bench" THEN bucket ELSE here

\* What publish has sent so far, and what of its checkout it still has to send.
PublisherInv(d) ==
    LET p == publisher[d] IN
    /\ p.failed => faults > 0
    /\ p.items \subseteq Present(local[d])
    /\ p.pc = "items" => /\ p.existing \subseteq Present(bucket)
                         /\ Remaining(d) \cap Present(bucket) = {}
                         /\ faults = 0 => \A k \in p.existing : Mate(k) \in p.existing
    /\ \A f \in local[d] :
          /\ p.pc = "list" /\ f.key.kind = p.kind => f.key \in p.items
          /\ p.pc \in {"list", "items"} /\ p.kind = "bench" /\ f.key.kind = "soak" =>
                f.key \in p.items
          /\ p.pc = "items" /\ ~p.failed /\ f.key.kind = p.kind =>
                f.key \in p.items \cup p.existing \/ f \in bucket
          /\ p.pc \in {"list", "items"} /\ ~p.failed /\ p.kind = "soak" /\ f.key.kind = "bench" =>
                f.key \in Present(bucket)
    /\ (p.pc = "contract" /\ ~p.failed) \/ p.pc = "published" =>
          Present(local[d]) \subseteq Present(bucket)

Paired(f, files) == [key |-> Mate(f.key), of |-> f.of] \in files

\* Until something is cut off, files come in pairs, but for one whose mate is on its way.
PairInv ==
    /\ \A d \in Dirs : \A f \in local[d] :
          \/ Paired(f, local[d])
          \/ \E r \in Reports : /\ writer[r].pc = "json" /\ writer[r].dir = d
                                /\ f.key.kind = writer[r].kind /\ f.key.n = writer[r].n
    /\ \A f \in bucket :
          \/ Paired(f, bucket)
          \/ \E r \in Reports : writer[r].pc = "put_json" /\ f = Mine(r, writer[r].n, "md")
          \/ \E d \in Dirs : /\ publisher[d].pc = "items" /\ f \in local[d]
                             /\ Mate(f.key) \in Remaining(d)

Undisturbed ==
    /\ StoreTypes /\ StemInv /\ AloneInv
    /\ \A r \in Reports : WriterInv(r)
    /\ \A d \in Dirs : PublisherInv(d)
    /\ faults = 0 => PairInv

StoreInv == beside \in BOOLEAN /\ (beside \/ Undisturbed)

-----------------------------------------------------------------------------
(* What the operators on files do                                          *)

(* Writing a file under a key.                                             *)
LEMMA WrittenIs ==
    ASSUME NEW files, OneEach(files), NEW key, NEW r,
           \A f \in files : f = [key |-> f.key, of |-> f.of]
    PROVE  LET W == Written(files, key, r)
               new == [key |-> key, of |-> r]
           IN /\ OneEach(W) /\ new \in W
              /\ Present(W) = Present(files) \cup {key}
              /\ \A f \in W : f = new \/ (f \in files /\ f.key # key)
              /\ \A f \in files : f.key # key => f \in W
              /\ key \notin Present(files) => files \subseteq W
<1> DEFINE W == Written(files, key, r)
           new == [key |-> key, of |-> r]
<1>1. new.key = key
  OBVIOUS
<1>2. \A f : f \in W <=> (f \in files /\ f.key # key) \/ f = new
  BY DEF Written
<1> HIDE DEF new, W
<1>3. OneEach(W)
  BY <1>1, <1>2 DEF OneEach
<1>4. Present(W) = Present(files) \cup {key}
  BY <1>1, <1>2 DEF Present
<1>5. key \notin Present(files) => files \subseteq W
  BY <1>2 DEF Present
<1>6. QED
  BY <1>2, <1>3, <1>4, <1>5 DEF W, new

(* The report a file is of.                                                *)
LEMMA OfIs ==
    ASSUME NEW files, OneEach(files), NEW f \in files
    PROVE  Of(files, f.key) = f.of
  BY DEF OneEach, Of

(* A mate is the other file of the pair, and that one's mate is the first. *)
LEMMA Mates ==
    ASSUME NEW k \in Keys
    PROVE  /\ Mate(k) \in Keys /\ Mate(k) # k /\ Mate(Mate(k)) = k
           /\ Mate(k).kind = k.kind /\ Mate(k).n = k.n
           /\ \A j \in Keys : j.kind = k.kind /\ j.n = k.n => j = k \/ j = Mate(k)
<1>1. k.ext \in Exts /\ k.kind \in Kinds /\ k.n \in Stems
  BY DEF Keys
<1>2. k = Key(k.kind, k.n, k.ext) /\ \A j \in Keys : j = Key(j.kind, j.n, j.ext) /\ j.ext \in Exts
  BY DEF Keys, Key
<1>3. CASE k.ext = "md"
  <2>1. Mate(k) = Key(k.kind, k.n, "json")
    BY <1>3 DEF Mate
  <2>2. Mate(Key(k.kind, k.n, "json")) = Key(k.kind, k.n, "md")
    BY DEF Mate, Key
  <2>3. Key(k.kind, k.n, "json") \in Keys /\ Key(k.kind, k.n, "json") # Key(k.kind, k.n, "md")
    BY <1>1 DEF Key, Keys, Exts
  <2>4. \A j \in Keys : j.kind = k.kind /\ j.n = k.n => j = k \/ j = Mate(k)
    BY <1>2, <1>3, <2>1 DEF Exts
  <2>5. Mate(k).kind = k.kind /\ Mate(k).n = k.n
    BY <2>1 DEF Key
  <2>6. QED
    BY <1>2, <1>3, <2>1, <2>2, <2>3, <2>4, <2>5
<1>4. CASE k.ext = "json"
  <2>1. Mate(k) = Key(k.kind, k.n, "md")
    BY <1>4 DEF Mate
  <2>2. Mate(Key(k.kind, k.n, "md")) = Key(k.kind, k.n, "json")
    BY DEF Mate, Key
  <2>3. Key(k.kind, k.n, "md") \in Keys /\ Key(k.kind, k.n, "json") # Key(k.kind, k.n, "md")
    BY <1>1 DEF Key, Keys, Exts
  <2>4. \A j \in Keys : j.kind = k.kind /\ j.n = k.n => j = k \/ j = Mate(k)
    BY <1>2, <1>4, <2>1 DEF Exts
  <2>5. Mate(k).kind = k.kind /\ Mate(k).n = k.n
    BY <2>1 DEF Key
  <2>6. QED
    BY <1>2, <1>4, <2>1, <2>2, <2>3, <2>4, <2>5
<1>5. QED
  BY <1>1, <1>3, <1>4 DEF Exts

(* When every stem taken is 1 or that of a report, and that of one report  *)
(* is still 1, next_available_stem() finds one with both files free.       *)
LEMMA FreeIs ==
    ASSUME NEW kind, NEW taken, NEW r \in Reports, writer[r].n = 1,
           \A q \in Reports : writer[q].n \in Stems,
           \A k \in taken : k.n \in {writer[q].n : q \in Reports} \cup {1}
    PROVE  /\ Free(kind, taken) \in Stems
           /\ \A ext \in Exts : Key(kind, Free(kind, taken), ext) \notin taken
<1> DEFINE c == Cardinality(Reports)
           g == [q \in Reports |-> writer[q].n]
           used == {writer[q].n : q \in Reports}
           free(n) == \A ext \in Exts : Key(kind, n, ext) \notin taken
<1>1. IsFiniteSet(Reports) /\ c \in Nat
  BY ReportsAssumption, FS_CardinalityType
<1>2. 1 \in used
  OBVIOUS
<1>3. IsFiniteSet(used) /\ Cardinality(used) <= c
  <2>1. g \in Surjection(Reports, used)
    BY DEF Surjection
  <2>2. QED
    BY <1>1, <2>1, FS_Surjection
<1>4. IsFiniteSet(Stems) /\ Cardinality(Stems) = c + 1
  BY <1>1, FS_Interval DEF Stems
<1>5. PICK n \in Stems : n \notin used
  <2>1. Stems \subseteq used => Cardinality(Stems) <= Cardinality(used)
    BY <1>3, FS_Subset
  <2>2. Cardinality(used) \in Nat
    BY <1>3, FS_CardinalityType
  <2>3. QED
    BY <1>1, <1>3, <1>4, <2>1, <2>2
<1>6. free(n)
  <2>1. \A ext \in Exts : Key(kind, n, ext).n = n
    BY DEF Key
  <2>2. QED
    BY <1>2, <1>5, <2>1
<1> DEFINE T == {c + 1 - m : m \in {m \in Stems : free(m)}}
<1> HIDE DEF free, used
<1>7. T \in SUBSET (0 .. c) /\ T # {}
  BY <1>1, <1>5, <1>6 DEF Stems
<1>8. PICK t \in T : \A u \in T : u <= t
  BY <1>1, <1>7, Greatest
<1>9. PICK m \in Stems : free(m) /\ t = c + 1 - m
  BY <1>8
<1>10. \A j \in 1 .. m - 1 : ~free(j)
  <2> SUFFICES ASSUME NEW j \in 1 .. m - 1, free(j) PROVE FALSE
    OBVIOUS
  <2>1. m \in 1 .. c + 1 /\ j \in Stems
    BY <1>1, <1>9 DEF Stems
  <2>2. c + 1 - j \in T
    BY <2>1
  <2>3. c + 1 - j <= c + 1 - m
    BY <1>8, <1>9, <2>2
  <2>4. QED
    BY <1>1, <2>1, <2>3
<1>11. \A j \in 1 .. m - 1 : \E ext \in Exts : Key(kind, j, ext) \in taken
  BY <1>10 DEF free
<1>12. \E i \in Stems : /\ \A ext \in Exts : Key(kind, i, ext) \notin taken
                        /\ \A j \in 1 .. i - 1 : \E ext \in Exts : Key(kind, j, ext) \in taken
  BY <1>9, <1>11 DEF free
<1>13. QED
  BY <1>12 DEF Free, Exts

-----------------------------------------------------------------------------
(* Who else is at work, and what that leaves as it is                      *)

Idle == {"new", "done", "dead"}

(* While a run or a renderer is at work, nobody else is.                   *)
LEMMA AloneWriter ==
    ASSUME NEW w, NEW p, \A a, b \in Working(w, p) : a = b,
           NEW r \in Reports, w[r].pc \notin Idle
    PROVE  /\ \A q \in Reports \ {r} : w[q].pc \in Idle
           /\ \A d \in Dirs : p[d].pc = "off"
<1>1. <<"writer", r>> \in Working(w, p)
  BY DEF Working, Idle
<1>2. ASSUME NEW q \in Reports \ {r}, w[q].pc \notin Idle PROVE FALSE
  <2>1. <<"writer", q>> \in Working(w, p)
    BY <1>2 DEF Working, Idle
  <2>2. QED
    BY <1>1, <2>1
<1>3. ASSUME NEW d \in Dirs, p[d].pc # "off" PROVE FALSE
  <2>1. <<"publisher", d>> \in Working(w, p)
    BY <1>3 DEF Working
  <2>2. QED
    BY <1>1, <2>1
<1>4. QED
  BY <1>2, <1>3

(* While a checkout is published, nobody else is at work.                  *)
LEMMA AlonePublisher ==
    ASSUME NEW w, NEW p, \A a, b \in Working(w, p) : a = b,
           NEW d \in Dirs, p[d].pc # "off"
    PROVE  /\ \A q \in Reports : w[q].pc \in Idle
           /\ \A e \in Dirs \ {d} : p[e].pc = "off"
<1>1. <<"publisher", d>> \in Working(w, p)
  BY DEF Working
<1>2. ASSUME NEW q \in Reports, w[q].pc \notin Idle PROVE FALSE
  <2>1. <<"writer", q>> \in Working(w, p)
    BY <1>2 DEF Working, Idle
  <2>2. QED
    BY <1>1, <2>1
<1>3. ASSUME NEW e \in Dirs \ {d}, p[e].pc # "off" PROVE FALSE
  <2>1. <<"publisher", e>> \in Working(w, p)
    BY <1>3 DEF Working
  <2>2. QED
    BY <1>1, <2>1
<1>4. QED
  BY <1>2, <1>3

(* One who is at work and goes on, or stops, is still alone.               *)
LEMMA StillAlone ==
    ASSUME AloneInv, writer \in [Reports -> Writers], publisher \in [Dirs -> Publishers]
    PROVE  /\ \A r \in Reports : \A w : writer[r].pc \notin Idle /\ Step(r, w) /\ publisher' = publisher
                  => AloneInv'
           /\ \A d \in Dirs : \A p : publisher[d].pc # "off" /\ Publish(d, p) /\ writer' = writer
                  => AloneInv'
<1>1. ASSUME NEW r \in Reports, NEW w, writer[r].pc \notin Idle, Step(r, w), publisher' = publisher
      PROVE  Working(writer', publisher') \subseteq Working(writer, publisher)
  BY <1>1 DEF Working, Step, Idle
<1>2. ASSUME NEW d \in Dirs, NEW p, publisher[d].pc # "off", Publish(d, p), writer' = writer
      PROVE  Working(writer', publisher') \subseteq Working(writer, publisher)
  BY <1>2 DEF Working, Publish
<1>3. QED
  BY <1>1, <1>2 DEF AloneInv

(* Once a report is finished, what it left stays so while the bucket and   *)
(* the soak reports of its checkout only grow.                             *)
LEMMA FinishedStay ==
    ASSUME NEW q \in Reports, writer \in [Reports -> Writers], WriterInv(q),
           writer[q].pc \in Idle, writer'[q] = writer[q], bucket \subseteq bucket',
           \A f \in local[writer[q].dir] : f.key.kind = "soak" => f \in local'[writer[q].dir]
    PROVE  WriterInv(q)'
<1>1. writer[q] \in Writers
  OBVIOUS
<1>2. \A n, ext : Mine(q, n, ext)' = Mine(q, n, ext)
  BY DEF Mine
<1>3. writer[q].pc = "new" => writer[q].n = 1
  BY DEF WriterInv
<1>4. ASSUME writer[q].pc = "done", ~writer[q].lost, NEW ext \in Exts
      PROVE  Mine(q, writer[q].n, ext) \in
                 IF writer[q].kind = "bench" THEN bucket' ELSE local'[writer[q].dir]
  <2>1. Mine(q, writer[q].n, ext) \in
            IF writer[q].kind = "bench" THEN bucket ELSE local[writer[q].dir]
    BY <1>4 DEF WriterInv
  <2>2. CASE writer[q].kind = "bench"
    BY <2>1, <2>2
  <2>3. CASE writer[q].kind = "soak"
    <3>1. Mine(q, writer[q].n, ext) \in local[writer[q].dir]
      BY <2>1, <2>3
    <3>2. Mine(q, writer[q].n, ext).key.kind = "soak"
      BY <2>3 DEF Mine, Key
    <3>3. QED
      BY <2>3, <3>1, <3>2
  <2>4. QED
    BY <1>1, <2>2, <2>3 DEF Writers, Kinds
<1>5. QED
  BY <1>2, <1>3, <1>4 DEF WriterInv, Idle

(* A checkout that is not being published.                                 *)
LEMMA NotPublished ==
    ASSUME NEW d \in Dirs, PublisherInv(d), publisher[d].pc = "off", publisher'[d] = publisher[d],
           Present(local[d]) \subseteq Present(local'[d]),
           faults \in Nat, faults' \in Nat, faults <= faults'
    PROVE  PublisherInv(d)'
  BY DEF PublisherInv

(* With nobody half way through a pair, every file has its mate.           *)
WholePairs ==
    /\ \A d \in Dirs : \A f \in local[d] : Paired(f, local[d])
    /\ \A f \in bucket : Paired(f, bucket)

LEMMA Whole ==
    ASSUME PairInv, \A r \in Reports : writer[r].pc \notin {"json", "put_json"},
           \A d \in Dirs : publisher[d].pc # "items" \/ Remaining(d) = {}
    PROVE  WholePairs
  BY DEF PairInv, WholePairs

LEMMA WholeStays ==
    ASSUME WholePairs, local' = local, bucket' = bucket
    PROVE  PairInv'
  BY DEF PairInv, WholePairs, Paired

(* A step of a run or renderer: what is left to show of one.               *)
LEMMA WriterStep ==
    ASSUME Undisturbed, NEW r \in Reports, NEW w \in Writers, Step(r, w),
           w.n = writer[r].n \/ writer[r].n = 1,
           \A q \in Reports \ {r} : writer[q].pc \in Idle,
           \A d \in Dirs : publisher[d].pc = "off", publisher' = publisher,
           AloneInv', faults' \in Nat, faults <= faults',
           local' \in [Dirs -> SUBSET ReportFiles], bucket' \in SUBSET ReportFiles,
           OneEach(bucket'), \A d \in Dirs : OneEach(local'[d]),
           bucket \subseteq bucket',
           \A d \in Dirs : Present(local[d]) \subseteq Present(local'[d]),
           \A d \in Dirs : \A f \in local[d] : f.key.kind = "soak" => f \in local'[d],
           \A d \in Dirs : \A f \in bucket' \cup local'[d] :
               f \in bucket \cup local[d] \/ f.key.n = w.n,
           WriterInv(r)', faults' = 0 => PairInv'
    PROVE  Undisturbed'
<1>1. writer' \in [Reports -> Writers] /\ writer'[r] = w
      /\ \A q \in Reports \ {r} : writer'[q] = writer[q]
  BY DEF Step, Undisturbed, StoreTypes
<1>2. StoreTypes'
  BY <1>1 DEF Undisturbed, StoreTypes
<1>3. StemInv'
  <2>1. {writer[q].n : q \in Reports} \cup {1} \subseteq {writer'[q].n : q \in Reports} \cup {1}
    <3> SUFFICES ASSUME NEW q \in Reports
                 PROVE  writer[q].n \in {writer'[u].n : u \in Reports} \cup {1}
      OBVIOUS
    <3>1. CASE q = r
      BY <1>1, <3>1
    <3>2. CASE q # r
      BY <1>1, <3>2
    <3>3. QED
      BY <3>1, <3>2
  <2>2. w.n \in {writer'[q].n : q \in Reports} \cup {1}
    BY <1>1
  <2>3. \A d \in Dirs : \A f \in bucket \cup local[d] :
            f.key.n \in {writer'[q].n : q \in Reports} \cup {1}
    BY <2>1 DEF Undisturbed, StemInv
  <2>4. QED
    BY <2>2, <2>3 DEF StemInv
<1>4. ASSUME NEW q \in Reports PROVE WriterInv(q)'
  <2>1. CASE q = r
    BY <2>1
  <2>2. CASE q # r
    <3>1. writer[q] \in Writers
      BY DEF Undisturbed, StoreTypes
    <3>2. writer[q].dir \in Dirs
      BY <3>1 DEF Writers
    <3>3. writer'[q] = writer[q] /\ writer[q].pc \in Idle
      BY <1>1, <2>2
    <3>4. QED
      BY <3>2, <3>3, FinishedStay DEF Undisturbed, StoreTypes
  <2>3. QED
    BY <2>1, <2>2
<1>5. ASSUME NEW d \in Dirs PROVE PublisherInv(d)'
  BY NotPublished DEF Undisturbed, StoreTypes
<1>6. QED
  BY <1>2, <1>3, <1>4, <1>5 DEF Undisturbed

(* A step of a publish: what is left to show of one.                       *)
LEMMA PublisherStep ==
    ASSUME Undisturbed, NEW d \in Dirs, NEW p \in Publishers, Publish(d, p),
           \A q \in Reports : writer[q].pc \in Idle, writer' = writer, local' = local,
           \A e \in Dirs \ {d} : publisher[e].pc = "off",
           AloneInv', faults' \in Nat, faults <= faults',
           bucket' \in SUBSET ReportFiles, OneEach(bucket'), bucket \subseteq bucket',
           \A f \in bucket' : f \in bucket \/ f.key \in Present(local[d]),
           PublisherInv(d)', faults' = 0 => PairInv'
    PROVE  Undisturbed'
<1>1. publisher' \in [Dirs -> Publishers] /\ \A e \in Dirs \ {d} : publisher'[e] = publisher[e]
  BY DEF Publish, Undisturbed, StoreTypes
<1>2. StoreTypes'
  BY <1>1 DEF Undisturbed, StoreTypes
<1>3. StemInv'
  <2>1. \A f \in bucket' : \E g \in bucket \cup local[d] : f.key = g.key
    BY DEF Present
  <2>2. QED
    BY <2>1 DEF StemInv, Undisturbed
<1>4. ASSUME NEW q \in Reports PROVE WriterInv(q)'
  BY FinishedStay DEF Undisturbed, StoreTypes
<1>5. ASSUME NEW e \in Dirs PROVE PublisherInv(e)'
  <2>1. CASE e = d
    BY <2>1
  <2>2. CASE e # d
    BY <1>1, <2>2, NotPublished DEF Undisturbed, StoreTypes
  <2>3. QED
    BY <2>1, <2>2
<1>6. QED
  BY <1>2, <1>3, <1>4, <1>5 DEF Undisturbed

-----------------------------------------------------------------------------
(* The steps of a run or renderer                                          *)

LEMMA StemsBounded == Undisturbed =>
    /\ \A q \in Reports : writer[q].n \in Stems /\ writer[q].dir \in Dirs /\ writer[q].kind \in Kinds
    /\ \A k \in Present(bucket) : k.n \in {writer[q].n : q \in Reports} \cup {1}
    /\ \A d \in Dirs : \A k \in Present(local[d]) : k.n \in {writer[q].n : q \in Reports} \cup {1}
<1> SUFFICES ASSUME Undisturbed
             PROVE  /\ \A q \in Reports : writer[q] \in Writers
                    /\ \A k \in Present(bucket) : k.n \in {writer[q].n : q \in Reports} \cup {1}
                    /\ \A d \in Dirs : \A k \in Present(local[d]) :
                          k.n \in {writer[q].n : q \in Reports} \cup {1}
  BY DEF Writers
<1>1. \A q \in Reports : writer[q] \in Writers
  BY DEF Undisturbed, StoreTypes
<1>2. \A d \in Dirs : \A k \in Present(local[d]) : k.n \in {writer[q].n : q \in Reports} \cup {1}
  BY DEF Undisturbed, StemInv, Present
<1>3. ASSUME NEW k \in Present(bucket) PROVE k.n \in {writer[q].n : q \in Reports} \cup {1}
  <2>1. PICK f \in bucket : f.key = k
    BY DEF Present
  <2>2. f \in ReportFiles
    BY <2>1 DEF Undisturbed, StoreTypes
  <2>3. PICK q \in Reports : q = f.of
    BY <2>2 DEF ReportFiles
  <2>4. writer[q].dir \in Dirs
    BY <1>1 DEF Writers
  <2>5. QED
    BY <2>1, <2>4 DEF Undisturbed, StemInv
<1>4. QED
  BY <1>1, <1>2, <1>3

LEMMA NameSound ==
    ASSUME Undisturbed, NEW r \in Reports, Name(r), ~beside'
    PROVE  Undisturbed'
<1> DEFINE v == writer[r]
           n == IF v.n = 1 /\ v.kind = "soak" THEN Free("soak", Present(local[v.dir])) ELSE 1
           w == [v EXCEPT !.pc = "md", !.n = n]
<1>1. v \in Writers /\ v.pc = "new" /\ v.n = 1 /\ v.dir \in Dirs /\ v.kind \in Kinds
  <2>1. v \in Writers /\ v.pc = "new"
    BY DEF Name, Undisturbed, StoreTypes
  <2>2. v.n = 1
    BY <2>1 DEF Undisturbed, WriterInv
  <2>3. QED
    BY <2>1, <2>2 DEF Writers
<1>2. /\ n \in Stems
      /\ v.kind = "bench" => n = 1
      /\ v.kind = "soak" => \A ext \in Exts : Key("soak", n, ext) \notin Present(local[v.dir])
  <2>1. /\ Free("soak", Present(local[v.dir])) \in Stems
        /\ \A ext \in Exts : Key("soak", Free("soak", Present(local[v.dir])), ext)
                                 \notin Present(local[v.dir])
    BY <1>1, StemsBounded, FreeIs
  <2>2. 1 \in Stems
    BY <1>1 DEF Writers
  <2>3. QED
    BY <1>1, <2>1, <2>2
<1> HIDE DEF n
<1>3. Step(r, w) /\ local' = local /\ bucket' = bucket /\ publisher' = publisher /\ faults' = faults
  BY DEF Name, n
<1>4. w \in Writers /\ w.dir = v.dir /\ w.kind = v.kind /\ w.n = n /\ w.pc = "md"
  <2>1. v \in Writers /\ n \in Stems
    BY <1>1, <1>2
  <2> HIDE DEF v
  <2>2. QED
    BY <2>1 DEF Writers
<1>5. writer'[r] = w
  BY <1>3 DEF Step, Undisturbed, StoreTypes
<1> HIDE DEF w, v
<1>6. AloneInv'
  BY DEF Name, Noted, AloneInv
<1>7. /\ \A q \in Reports \ {r} : writer[q].pc \in Idle
      /\ \A d \in Dirs : publisher[d].pc = "off"
  <2>1. writer'[r].pc \notin Idle
    BY <1>4, <1>5 DEF Idle
  <2>2. /\ \A q \in Reports \ {r} : writer'[q].pc \in Idle
        /\ \A d \in Dirs : publisher'[d].pc = "off"
    BY <1>6, <2>1, AloneWriter DEF AloneInv
  <2>3. \A q \in Reports \ {r} : writer'[q] = writer[q]
    BY <1>3 DEF Step, Undisturbed, StoreTypes
  <2>4. QED
    BY <1>3, <2>2, <2>3
<1>8. WriterInv(r)'
  <2>1. w.kind = "bench" => w.n = 1
    BY <1>2, <1>4
  <2>2. w.kind = "soak" => \A ext \in Exts : Key(w.kind, w.n, ext) \notin Present(local'[w.dir])
    BY <1>2, <1>3, <1>4
  <2>3. QED
    BY <1>4, <1>5, <2>1, <2>2 DEF WriterInv
<1>9. faults' = 0 => PairInv'
  <2> SUFFICES ASSUME faults = 0 PROVE PairInv'
    BY <1>3
  <2>1. writer[r].pc = "new"
    BY <1>1 DEF v
  <2>2. \A q \in Reports : writer[q].pc \notin {"json", "put_json"}
    BY <1>7, <2>1 DEF Idle
  <2>3. \A d \in Dirs : publisher[d].pc # "items"
    BY <1>7
  <2>4. PairInv
    BY DEF Undisturbed
  <2>5. WholePairs
    BY <2>2, <2>3, <2>4, Whole
  <2>6. QED
    BY <1>3, <2>5, WholeStays
<1>10. writer[r].n = 1 /\ w.dir = writer[r].dir /\ w.kind = writer[r].kind
  BY <1>1, <1>4 DEF v
<1>11. QED
  BY <1>3, <1>4, <1>6, <1>7, <1>8, <1>9, <1>10, WriterStep DEF Undisturbed, StoreTypes

(* What holds at a step of one who is already at work.                     *)
LEMMA AtWork ==
    ASSUME Undisturbed, NEW r \in Reports, NEW w, Step(r, w), writer[r].pc \notin Idle,
           publisher' = publisher
    PROVE  /\ AloneInv' /\ writer[r] \in Writers /\ writer'[r] = w
           /\ writer[r].dir \in Dirs /\ writer[r].kind \in Kinds /\ writer[r].n \in Stems
           /\ \A q \in Reports \ {r} : writer[q].pc \in Idle
           /\ \A d \in Dirs : publisher[d].pc = "off"
<1>1. writer \in [Reports -> Writers] /\ publisher \in [Dirs -> Publishers] /\ AloneInv
  BY DEF Undisturbed, StoreTypes
<1>2. AloneInv'
  BY <1>1, StillAlone
<1>3. writer[r] \in Writers /\ writer'[r] = w
  BY <1>1 DEF Step
<1>4. /\ \A q \in Reports \ {r} : writer[q].pc \in Idle
      /\ \A d \in Dirs : publisher[d].pc = "off"
  BY <1>1, AloneWriter DEF AloneInv
<1>5. QED
  BY <1>2, <1>3, <1>4 DEF Writers

LEMMA ListSound ==
    ASSUME Undisturbed, NEW r \in Reports, List(r)
    PROVE  Undisturbed'
<1> DEFINE v == writer[r]
           n == Free("bench", Present(bucket))
           w == [v EXCEPT !.pc = "put_md", !.n = n]
<1>1. /\ v.pc = "list" /\ v.pc \notin Idle /\ Step(r, w)
      /\ local' = local /\ bucket' = bucket /\ publisher' = publisher /\ faults' = faults
  BY DEF List, Idle
<1>2. /\ AloneInv' /\ v \in Writers /\ writer'[r] = w /\ v.dir \in Dirs
      /\ \A q \in Reports \ {r} : writer[q].pc \in Idle
      /\ \A d \in Dirs : publisher[d].pc = "off"
  BY <1>1, AtWork
<1>3. v.kind = "bench" /\ v.n = 1 /\ \A ext \in Exts : Mine(r, 1, ext) \in local[v.dir]
  BY <1>1 DEF Undisturbed, WriterInv
<1>4. n \in Stems /\ \A ext \in Exts : Key("bench", n, ext) \notin Present(bucket)
  BY <1>3, StemsBounded, FreeIs
<1> HIDE DEF n
<1>5. w \in Writers /\ w.dir = v.dir /\ w.kind = v.kind /\ w.n = n /\ w.pc = "put_md"
  BY <1>2, <1>4 DEF Writers
<1>6. WriterInv(r)'
  <2>1. \A ext : Mine(r, 1, ext)' = Mine(r, 1, ext)
    BY <1>2, <1>5 DEF Mine
  <2> HIDE DEF w
  <2>2. QED
    BY <1>1, <1>2, <1>3, <1>4, <1>5, <2>1 DEF WriterInv
<1>7. faults' = 0 => PairInv'
  <2> SUFFICES ASSUME faults = 0 PROVE PairInv'
    BY <1>1
  <2>1. \A q \in Reports : writer[q].pc \notin {"json", "put_json"}
    BY <1>1, <1>2 DEF Idle
  <2>2. \A d \in Dirs : publisher[d].pc # "items"
    BY <1>2
  <2>3. PairInv
    BY DEF Undisturbed
  <2>4. QED
    BY <1>1, <2>1, <2>2, <2>3, Whole, WholeStays
<1> HIDE DEF w
<1>8. writer[r].n = 1 /\ w.dir = writer[r].dir /\ w.kind = writer[r].kind
  BY <1>3, <1>5
<1>9. QED
  BY <1>1, <1>2, <1>5, <1>6, <1>7, <1>8, WriterStep DEF Undisturbed, StoreTypes

(* An upload that fails, and a process that is killed.                     *)
LEMMA CutOffSound ==
    ASSUME Undisturbed, NEW r \in Reports, UploadFails(r) \/ Kill(r)
    PROVE  Undisturbed'
<1>1. PICK w \in Writers :
          /\ Step(r, w) /\ w.dir = writer[r].dir /\ w.kind = writer[r].kind /\ w.n = writer[r].n
          /\ (w.pc = "done" /\ w.lost) \/ w.pc = "dead"
  <2> DEFINE v == writer[r]
  <2>1. v \in Writers
    BY DEF Undisturbed, StoreTypes
  <2>2. CASE UploadFails(r)
    <3> DEFINE w == [v EXCEPT !.pc = "done", !.lost = TRUE]
    <3>1. Step(r, w)
      BY <2>2 DEF UploadFails
    <3>2. w \in Writers /\ w.dir = v.dir /\ w.kind = v.kind /\ w.n = v.n /\ w.pc = "done"
      BY <2>1 DEF Writers
    <3>3. w.lost
      BY <2>1 DEF Writers
    <3>4. QED
      BY <3>1, <3>2, <3>3
  <2>3. CASE Kill(r)
    <3> DEFINE w == [v EXCEPT !.pc = "dead"]
    <3>1. Step(r, w)
      BY <2>3 DEF Kill
    <3>2. w \in Writers /\ w.dir = v.dir /\ w.kind = v.kind /\ w.n = v.n /\ w.pc = "dead"
      BY <2>1 DEF Writers
    <3>3. QED
      BY <3>1, <3>2
  <2>4. QED
    BY <2>2, <2>3
<1>2. /\ writer[r].pc \notin Idle /\ local' = local /\ bucket' = bucket
      /\ publisher' = publisher /\ faults' = faults + 1
  BY DEF UploadFails, Kill, Idle
<1>3. /\ AloneInv' /\ writer'[r] = w
      /\ \A q \in Reports \ {r} : writer[q].pc \in Idle
      /\ \A d \in Dirs : publisher[d].pc = "off"
  BY <1>1, <1>2, AtWork
<1>4. WriterInv(r)'
  BY <1>1, <1>3 DEF WriterInv
<1>5. faults \in Nat /\ faults' \in Nat /\ faults <= faults' /\ faults' # 0
  BY <1>2 DEF Undisturbed, StoreTypes
<1>6. QED
  BY <1>1, <1>2, <1>3, <1>4, <1>5, WriterStep DEF Undisturbed, StoreTypes

(* A file written in the checkout of a report.                             *)
LEMMA LocalWrite ==
    ASSUME Undisturbed, NEW r \in Reports, NEW ext \in Exts, WriteLocal(r, ext)
    PROVE  LET v == writer[r]
               new == Mine(r, v.n, ext)
               here == local[v.dir]
           IN /\ local' \in [Dirs -> SUBSET ReportFiles]
              /\ \A e \in Dirs : /\ OneEach(local'[e]) /\ Present(local[e]) \subseteq Present(local'[e])
                                 /\ \A f \in local'[e] : f \in local[e] \/ f.key.n = v.n
                                 /\ e # v.dir => local'[e] = local[e]
              /\ new \in local'[v.dir] /\ new.key = Key(v.kind, v.n, ext)
              /\ Present(local'[v.dir]) = Present(here) \cup {new.key}
              /\ \A f \in local'[v.dir] : f = new \/ (f \in here /\ f.key # new.key)
              /\ \A f \in here : f.key # new.key => f \in local'[v.dir]
<1> DEFINE v == writer[r]
           new == Mine(r, v.n, ext)
           here == local[v.dir]
           W == Written(here, new.key, r)
<1>1. v \in Writers /\ v.dir \in Dirs /\ v.kind \in Kinds /\ v.n \in Stems
  BY DEF Undisturbed, StoreTypes, Writers
<1>2. here \subseteq ReportFiles /\ OneEach(here) /\ local \in [Dirs -> SUBSET ReportFiles]
  BY <1>1 DEF Undisturbed, StoreTypes
<1>3. new = [key |-> new.key, of |-> r] /\ new.key = Key(v.kind, v.n, ext)
  BY DEF Mine
<1>4. new \in ReportFiles
  BY <1>1 DEF Mine, ReportFiles, Keys, Key
<1>5. local' = [local EXCEPT ![v.dir] = W]
  BY <1>3 DEF WriteLocal
<1>6. new.key.n = v.n
  BY <1>3 DEF Key
<1> HIDE DEF new, v
<1>7. \A f \in here : f = [key |-> f.key, of |-> f.of]
  BY <1>2 DEF ReportFiles
<1>8. /\ OneEach(W) /\ new \in W
      /\ Present(W) = Present(here) \cup {new.key}
      /\ \A f \in W : f = new \/ (f \in here /\ f.key # new.key)
      /\ \A f \in here : f.key # new.key => f \in W
  BY <1>2, <1>3, <1>7, WrittenIs
<1>9. W \in SUBSET ReportFiles
  BY <1>2, <1>4, <1>8
<1> HIDE DEF W
<1>10. /\ local' \in [Dirs -> SUBSET ReportFiles] /\ local'[v.dir] = W
       /\ \A e \in Dirs : e # v.dir => local'[e] = local[e]
  BY <1>1, <1>2, <1>5, <1>9
<1>11. ASSUME NEW e \in Dirs
       PROVE  /\ OneEach(local'[e]) /\ Present(local[e]) \subseteq Present(local'[e])
              /\ \A f \in local'[e] : f \in local[e] \/ f.key.n = v.n
  <2>1. CASE e = v.dir
    BY <1>6, <1>8, <1>10, <2>1
  <2>2. CASE e # v.dir
    BY <1>10, <2>2 DEF Undisturbed, StoreTypes
  <2>3. QED
    BY <2>1, <2>2
<1>12. QED
  BY <1>3, <1>8, <1>10, <1>11 DEF new, v

(* The two files of a report are under two keys.                           *)
LEMMA TwoFiles ==
    ASSUME NEW kind, NEW n
    PROVE  /\ Key(kind, n, "md") # Key(kind, n, "json")
           /\ Mate(Key(kind, n, "md")) = Key(kind, n, "json")
           /\ Mate(Key(kind, n, "json")) = Key(kind, n, "md")
           /\ \A ext : Key(kind, n, ext).kind = kind /\ Key(kind, n, ext).n = n
  BY DEF Key, Mate

(* When a report is named or listed, what is stored is in whole pairs.     *)
LEMMA WholeBut ==
    ASSUME Undisturbed, NEW r \in Reports, writer[r].pc \notin {"json", "put_json"}, faults = 0,
           \A q \in Reports \ {r} : writer[q].pc \in Idle,
           \A d \in Dirs : publisher[d].pc = "off"
    PROVE  WholePairs
<1>1. \A q \in Reports : writer[q].pc \notin {"json", "put_json"}
  BY DEF Idle
<1>2. \A d \in Dirs : publisher[d].pc # "items"
  OBVIOUS
<1>3. QED
  BY <1>1, <1>2, Whole DEF Undisturbed

LEMMA WriteMdSound ==
    ASSUME Undisturbed, NEW r \in Reports, WriteMd(r)
    PROVE  Undisturbed'
<1> DEFINE v == writer[r]
           w == [v EXCEPT !.pc = "json"]
           here == local[v.dir]
           new == Mine(r, v.n, "md")
<1>1. /\ v.pc = "md" /\ v.pc \notin Idle /\ Step(r, w) /\ WriteLocal(r, "md")
      /\ bucket' = bucket /\ publisher' = publisher /\ faults' = faults
  BY DEF WriteMd, Idle
<1>2. /\ AloneInv' /\ v \in Writers /\ writer'[r] = w /\ v.dir \in Dirs
      /\ v.kind \in Kinds /\ v.n \in Stems
      /\ \A q \in Reports \ {r} : writer[q].pc \in Idle
      /\ \A d \in Dirs : publisher[d].pc = "off"
  BY <1>1, AtWork
<1>3. /\ local' \in [Dirs -> SUBSET ReportFiles]
      /\ \A e \in Dirs : /\ OneEach(local'[e]) /\ Present(local[e]) \subseteq Present(local'[e])
                         /\ \A f \in local'[e] : f \in local[e] \/ f.key.n = v.n
                         /\ e # v.dir => local'[e] = local[e]
      /\ new \in local'[v.dir] /\ new.key = Key(v.kind, v.n, "md")
      /\ Present(local'[v.dir]) = Present(here) \cup {new.key}
      /\ \A f \in local'[v.dir] : f = new \/ (f \in here /\ f.key # new.key)
      /\ \A f \in here : f.key # new.key => f \in local'[v.dir]
  BY <1>1, LocalWrite DEF Exts
<1>4. w \in Writers /\ w.dir = v.dir /\ w.kind = v.kind /\ w.n = v.n /\ w.pc = "json"
  BY <1>2 DEF Writers
<1>5. new = [key |-> Key(v.kind, v.n, "md"), of |-> r]
  BY DEF Mine
<1>6. /\ v.kind = "bench" => v.n = 1
      /\ v.kind = "soak" => \A ext \in Exts : Key(v.kind, v.n, ext) \notin Present(here)
  BY <1>1 DEF Undisturbed, WriterInv
<1> HIDE DEF w, new, v
<1>7. WriterInv(r)'
  <2>1. w.kind = "bench" => w.n = 1
    BY <1>4, <1>6
  <2>2. [key |-> Key(w.kind, w.n, "md"), of |-> r] \in local'[w.dir]
    BY <1>3, <1>4, <1>5
  <2>3. w.kind = "soak" => Key(w.kind, w.n, "json") \notin Present(local'[w.dir])
    BY <1>3, <1>4, <1>6, TwoFiles DEF Exts
  <2>4. QED
    BY <1>2, <1>4, <2>1, <2>2, <2>3 DEF WriterInv, Mine
<1>8. ASSUME NEW d \in Dirs, NEW f \in local[d], f.key.kind = "soak" PROVE f \in local'[d]
  <2>1. CASE d # v.dir
    BY <1>3, <2>1
  <2>2. CASE d = v.dir
    <3>1. f.key = new.key => v.kind = "soak"
      BY <1>3, <1>8, TwoFiles
    <3>2. f.key \in Present(here)
      BY <2>2 DEF Present
    <3>3. f.key # new.key
      BY <1>3, <1>6, <3>1, <3>2 DEF Exts
    <3>4. QED
      BY <1>3, <2>2, <3>3
  <2>3. QED
    BY <2>1, <2>2
<1>9. faults' = 0 => PairInv'
  <2> SUFFICES ASSUME faults = 0 PROVE PairInv'
    BY <1>1
  <2>1. WholePairs
    <3>1. writer[r].pc \notin {"json", "put_json"}
      BY <1>1 DEF v
    <3>2. QED
      BY <1>2, <3>1, WholeBut
  <2>2. ASSUME NEW d \in Dirs, NEW f \in local'[d]
        PROVE  \/ Paired(f, local'[d])
               \/ d = v.dir /\ f.key.kind = v.kind /\ f.key.n = v.n
    <3>1. CASE d # v.dir
      BY <1>3, <2>1, <3>1 DEF WholePairs
    <3>2. CASE d = v.dir /\ f = new
      BY <1>3, <3>2, TwoFiles
    <3>3. CASE d = v.dir /\ f \in here /\ f.key # new.key
      <4> DEFINE g == [key |-> Mate(f.key), of |-> f.of]
      <4>1. g \in here
        BY <2>1, <3>3 DEF WholePairs, Paired
      <4>2. CASE g.key = new.key
        <5>1. f.key \in Keys /\ Mate(f.key) = new.key
          BY <3>3, <4>2 DEF Undisturbed, StoreTypes, ReportFiles
        <5>2. f.key.kind = new.key.kind /\ f.key.n = new.key.n
          BY <5>1, Mates
        <5>3. QED
          BY <1>3, <3>3, <5>2, TwoFiles
      <4>3. CASE g.key # new.key
        BY <1>3, <3>3, <4>1, <4>3 DEF Paired
      <4>4. QED
        BY <4>2, <4>3
    <3>4. QED
      BY <1>3, <3>1, <3>2, <3>3
  <2>3. writer'[r].pc = "json" /\ writer'[r].dir = v.dir /\ writer'[r].kind = v.kind
        /\ writer'[r].n = v.n
    BY <1>2, <1>4
  <2>4. \A f \in bucket' : Paired(f, bucket')
    BY <1>1, <2>1 DEF WholePairs
  <2>5. QED
    BY <2>2, <2>3, <2>4 DEF PairInv, Paired
<1>10. QED
  <2>1. w.n = writer[r].n /\ w.dir = writer[r].dir /\ w.kind = writer[r].kind
    BY <1>4 DEF v
  <2>2. bucket' \in SUBSET ReportFiles /\ OneEach(bucket') /\ bucket \subseteq bucket'
        /\ faults' \in Nat /\ faults <= faults'
    BY <1>1 DEF Undisturbed, StoreTypes
  <2>3. \A d \in Dirs : \A f \in bucket' \cup local'[d] : f \in bucket \cup local[d] \/ f.key.n = w.n
    BY <1>1, <1>3, <1>4
  <2>4. QED
    BY <1>1, <1>2, <1>3, <1>4, <1>7, <1>8, <1>9, <2>1, <2>2, <2>3, WriterStep

LEMMA WriteJsonSound ==
    ASSUME Undisturbed, NEW r \in Reports, WriteJson(r)
    PROVE  Undisturbed'
<1> DEFINE v == writer[r]
           after == IF v.kind = "bench" THEN "list" ELSE "done"
           w == [v EXCEPT !.pc = after]
           here == local[v.dir]
           new == Mine(r, v.n, "json")
           md == [key |-> Key(v.kind, v.n, "md"), of |-> r]
<1>1. /\ v.pc = "json" /\ v.pc \notin Idle /\ Step(r, w) /\ WriteLocal(r, "json")
      /\ bucket' = bucket /\ publisher' = publisher /\ faults' = faults
  BY DEF WriteJson, Idle
<1>2. /\ AloneInv' /\ v \in Writers /\ writer'[r] = w /\ v.dir \in Dirs
      /\ v.kind \in Kinds /\ v.n \in Stems
      /\ \A q \in Reports \ {r} : writer[q].pc \in Idle
      /\ \A d \in Dirs : publisher[d].pc = "off"
  BY <1>1, AtWork
<1>3. /\ local' \in [Dirs -> SUBSET ReportFiles]
      /\ \A e \in Dirs : /\ OneEach(local'[e]) /\ Present(local[e]) \subseteq Present(local'[e])
                         /\ \A f \in local'[e] : f \in local[e] \/ f.key.n = v.n
                         /\ e # v.dir => local'[e] = local[e]
      /\ new \in local'[v.dir] /\ new.key = Key(v.kind, v.n, "json")
      /\ Present(local'[v.dir]) = Present(here) \cup {new.key}
      /\ \A f \in local'[v.dir] : f = new \/ (f \in here /\ f.key # new.key)
      /\ \A f \in here : f.key # new.key => f \in local'[v.dir]
  BY <1>1, LocalWrite DEF Exts
<1>4. w \in Writers /\ w.dir = v.dir /\ w.kind = v.kind /\ w.n = v.n /\ w.pc = after
  <2>1. after = "list" \/ after = "done"
    OBVIOUS
  <2> HIDE DEF after
  <2>2. QED
    BY <1>2, <2>1 DEF Writers
<1>5. new = [key |-> Key(v.kind, v.n, "json"), of |-> r]
  BY DEF Mine
<1>6. /\ v.kind = "bench" => v.n = 1
      /\ v.kind = "soak" => Key(v.kind, v.n, "json") \notin Present(here)
      /\ md \in here
  BY <1>1 DEF Undisturbed, WriterInv, Mine
<1>7. after = IF v.kind = "bench" THEN "list" ELSE "done"
  OBVIOUS
<1>8. v.kind = "bench" \/ v.kind = "soak"
  BY <1>2 DEF Kinds
<1> HIDE DEF w, new, v, after, md
<1>9. md \in local'[v.dir] /\ md.key = Key(v.kind, v.n, "md") /\ md.of = r
  BY <1>3, <1>6, TwoFiles DEF md
<1>10. \A ext \in Exts : [key |-> Key(w.kind, w.n, ext), of |-> r] \in local'[w.dir]
  BY <1>3, <1>4, <1>5, <1>9 DEF Exts, md
<1>11. WriterInv(r)'
  <2>1. CASE v.kind = "bench"
    <3>1. w.pc = "list" /\ w.kind = "bench" /\ w.n = 1
      BY <1>4, <1>6, <1>7, <2>1
    <3>2. QED
      BY <1>2, <1>10, <3>1 DEF WriterInv, Mine
  <2>2. CASE v.kind = "soak"
    <3>1. w.pc = "done" /\ w.kind = "soak"
      BY <1>4, <1>7, <2>2
    <3>2. QED
      BY <1>2, <1>10, <3>1 DEF WriterInv, Mine
  <2>3. QED
    BY <1>8, <2>1, <2>2
<1>12. ASSUME NEW d \in Dirs, NEW f \in local[d], f.key.kind = "soak" PROVE f \in local'[d]
  <2>1. CASE d # v.dir
    BY <1>3, <2>1
  <2>2. CASE d = v.dir
    <3>1. f.key = new.key => v.kind = "soak"
      BY <1>3, <1>12, TwoFiles
    <3>2. f.key \in Present(here)
      BY <2>2 DEF Present
    <3>3. f.key # new.key
      BY <1>3, <1>6, <3>1, <3>2
    <3>4. QED
      BY <1>3, <2>2, <3>3
  <2>3. QED
    BY <2>1, <2>2
<1>13. faults' = 0 => PairInv'
  <2> SUFFICES ASSUME faults = 0 PROVE PairInv'
    BY <1>1
  <2>1. PairInv
    BY DEF Undisturbed
  <2>2. \A q \in Reports : writer[q].pc # "put_json" /\ (writer[q].pc = "json" => q = r)
    BY <1>1, <1>2 DEF Idle, v
  <2>3. \A d \in Dirs : publisher[d].pc # "items"
    BY <1>2
  <2>4. ASSUME NEW d \in Dirs, NEW f \in local[d]
        PROVE  Paired(f, local[d]) \/ (d = v.dir /\ f.key.kind = v.kind /\ f.key.n = v.n)
    BY <2>1, <2>2 DEF PairInv, v
  <2>5. ASSUME NEW d \in Dirs, NEW f \in local'[d] PROVE Paired(f, local'[d])
    <3>1. CASE d # v.dir
      BY <1>3, <2>4, <3>1
    <3>2. CASE d = v.dir /\ f.key.kind = v.kind /\ f.key.n = v.n
      <4>1. new.key \in Keys /\ f.key \in Keys
        <5>1. new \in ReportFiles /\ f \in ReportFiles
          BY <1>2, <1>3
        <5>2. QED
          BY <5>1 DEF ReportFiles
      <4>2. f.key = new.key \/ f.key = md.key
        <5>1. new.key.kind = v.kind /\ new.key.n = v.n
          BY <1>3, TwoFiles
        <5>2. f.key = new.key \/ f.key = Mate(new.key)
          BY <3>2, <4>1, <5>1, Mates
        <5>3. QED
          BY <1>3, <1>9, <5>2, TwoFiles
      <4>3. f = new \/ f = md
        BY <1>3, <1>9, <3>2, <4>2 DEF OneEach
      <4>4. Mate(new.key) = md.key /\ Mate(md.key) = new.key /\ new.of = r /\ md.of = r
        BY <1>3, <1>5, <1>9, TwoFiles
      <4>5. new = [key |-> new.key, of |-> r] /\ md = [key |-> md.key, of |-> r]
        BY <1>5 DEF md
      <4>6. QED
        BY <1>3, <1>9, <3>2, <4>3, <4>4, <4>5 DEF Paired
    <3>3. CASE d = v.dir /\ ~(f.key.kind = v.kind /\ f.key.n = v.n)
      <4> DEFINE g == [key |-> Mate(f.key), of |-> f.of]
      <4>1. f \in here /\ f.key # new.key
        BY <1>3, <3>3, TwoFiles
      <4>2. g \in here
        BY <2>4, <3>3, <4>1 DEF Paired
      <4>3. f.key \in Keys
        BY <3>3, <4>1 DEF Undisturbed, StoreTypes, ReportFiles
      <4>4. g.key.kind = f.key.kind /\ g.key.n = f.key.n
        BY <4>3, Mates
      <4>5. g.key # new.key
        BY <1>3, <3>3, <4>4, TwoFiles
      <4>6. QED
        BY <1>3, <3>3, <4>2, <4>5 DEF Paired
    <3>4. QED
      BY <3>1, <3>2, <3>3
  <2>6. \A f \in bucket : Paired(f, bucket)
    BY <2>1, <2>2, <2>3 DEF PairInv
  <2>7. QED
    BY <1>1, <2>5, <2>6 DEF PairInv, Paired
<1>14. QED
  <2>1. w.n = writer[r].n /\ w.dir = writer[r].dir /\ w.kind = writer[r].kind
    BY <1>4 DEF v
  <2>2. bucket' \in SUBSET ReportFiles /\ OneEach(bucket') /\ bucket \subseteq bucket'
        /\ faults' \in Nat /\ faults <= faults'
    BY <1>1 DEF Undisturbed, StoreTypes
  <2>3. \A d \in Dirs : \A f \in bucket' \cup local'[d] : f \in bucket \cup local[d] \/ f.key.n = w.n
    BY <1>1, <1>3, <1>4
  <2>4. QED
    BY <1>1, <1>2, <1>3, <1>4, <1>11, <1>12, <1>13, <2>1, <2>2, <2>3, WriterStep

(* The step that puts a file of a bench report in the bucket.              *)
LEMMA BucketPut ==
    ASSUME Undisturbed, NEW r \in Reports, NEW ext \in Exts, NEW next, Put(r, ext, next),
           writer[r].pc \in {"put_md", "put_json"}
    PROVE  LET new == Mine(r, writer[r].n, ext) IN
           /\ bucket' \in SUBSET ReportFiles /\ OneEach(bucket') /\ new \in bucket'
           /\ new.key = Key("bench", writer[r].n, ext) /\ new = [key |-> new.key, of |-> r]
           /\ Present(bucket') = Present(bucket) \cup {new.key}
           /\ \A f \in bucket' : f \in bucket \/ f = new
           /\ new.key \notin Present(bucket) => bucket \subseteq bucket'
<1> DEFINE v == writer[r]
           new == Mine(r, v.n, ext)
           mine == [key |-> Key("bench", 1, ext), of |-> r]
           here == local[v.dir]
<1>1. v \in Writers /\ v.dir \in Dirs /\ v.kind \in Kinds /\ v.n \in Stems
  BY DEF Undisturbed, StoreTypes, Writers
<1>2. v.kind = "bench" /\ mine \in here
  BY DEF Undisturbed, WriterInv, Mine
<1>3. OneEach(here) /\ mine.key = Key("bench", 1, ext) /\ mine.of = r
  BY <1>1 DEF Undisturbed, StoreTypes
<1>4. Of(here, Key("bench", 1, ext)) = r
  BY <1>2, <1>3, OfIs
<1>5. new.key = Key("bench", v.n, ext) /\ new = [key |-> new.key, of |-> r]
  BY <1>2 DEF Mine
<1>6. bucket' = Written(bucket, new.key, r)
  BY <1>4, <1>5 DEF Put
<1>7. bucket \in SUBSET ReportFiles /\ OneEach(bucket)
  BY DEF Undisturbed, StoreTypes
<1>8. new \in ReportFiles
  BY <1>1 DEF Mine, ReportFiles, Keys, Key
<1> HIDE DEF new
<1>9. \A f \in bucket : f = [key |-> f.key, of |-> f.of]
  BY <1>7 DEF ReportFiles
<1>10. /\ OneEach(bucket') /\ new \in bucket'
       /\ Present(bucket') = Present(bucket) \cup {new.key}
       /\ \A f \in bucket' : f = new \/ (f \in bucket /\ f.key # new.key)
       /\ new.key \notin Present(bucket) => bucket \subseteq bucket'
  BY <1>5, <1>6, <1>7, <1>9, WrittenIs
<1>11. bucket' \in SUBSET ReportFiles
  BY <1>7, <1>8, <1>10
<1>12. QED
  BY <1>5, <1>10, <1>11 DEF new

LEMMA PutMdSound ==
    ASSUME Undisturbed, NEW r \in Reports, PutMd(r)
    PROVE  Undisturbed'
<1> DEFINE v == writer[r]
           w == [v EXCEPT !.pc = "put_json"]
           new == Mine(r, v.n, "md")
<1>1. /\ v.pc = "put_md" /\ v.pc \notin Idle /\ Step(r, w) /\ Put(r, "md", "put_json")
      /\ local' = local /\ publisher' = publisher /\ faults' = faults
  BY DEF PutMd, Put, Idle
<1>2. /\ AloneInv' /\ v \in Writers /\ writer'[r] = w /\ v.dir \in Dirs
      /\ v.kind \in Kinds /\ v.n \in Stems
      /\ \A q \in Reports \ {r} : writer[q].pc \in Idle
      /\ \A d \in Dirs : publisher[d].pc = "off"
  BY <1>1, AtWork
<1>3. /\ bucket' \in SUBSET ReportFiles /\ OneEach(bucket') /\ new \in bucket'
      /\ new.key = Key("bench", v.n, "md") /\ new = [key |-> new.key, of |-> r]
      /\ Present(bucket') = Present(bucket) \cup {new.key}
      /\ \A f \in bucket' : f \in bucket \/ f = new
      /\ new.key \notin Present(bucket) => bucket \subseteq bucket'
  BY <1>1, BucketPut DEF Exts
<1>4. w \in Writers /\ w.dir = v.dir /\ w.kind = v.kind /\ w.n = v.n /\ w.pc = "put_json"
  BY <1>2 DEF Writers
<1>5. /\ v.kind = "bench"
      /\ \A ext \in Exts : [key |-> Key(v.kind, 1, ext), of |-> r] \in local[v.dir]
      /\ \A ext \in Exts : Key(v.kind, v.n, ext) \notin Present(bucket)
  BY <1>1 DEF Undisturbed, WriterInv, Mine
<1> HIDE DEF w, new, v
<1>6. bucket \subseteq bucket' /\ Key(v.kind, v.n, "json") \notin Present(bucket')
  BY <1>3, <1>5, TwoFiles DEF Exts
<1>7. WriterInv(r)'
  <2>1. [key |-> Key(w.kind, w.n, "md"), of |-> r] \in bucket'
    BY <1>3, <1>4, <1>5
  <2>2. QED
    BY <1>1, <1>2, <1>4, <1>5, <1>6, <2>1 DEF WriterInv, Mine
<1>8. faults' = 0 => PairInv'
  <2> SUFFICES ASSUME faults = 0 PROVE PairInv'
    BY <1>1
  <2>1. WholePairs
    <3>1. writer[r].pc \notin {"json", "put_json"}
      BY <1>1 DEF v
    <3>2. QED
      BY <1>2, <3>1, WholeBut
  <2>2. ASSUME NEW f \in bucket'
        PROVE  \/ Paired(f, bucket')
               \/ f = new
    BY <1>3, <1>6, <2>1 DEF WholePairs, Paired
  <2>3. writer'[r].pc = "put_json" /\ new = Mine(r, writer[r].n, "md")'
    BY <1>2, <1>3, <1>4, <1>5 DEF Mine
  <2>4. ASSUME NEW d \in Dirs, NEW f \in local'[d] PROVE Paired(f, local'[d])
    BY <1>1, <2>1 DEF WholePairs
  <2>5. \A f \in bucket' : Paired(f, bucket') \/
            \E q \in Reports : writer'[q].pc = "put_json" /\ f = Mine(q, writer[q].n, "md")'
    BY <2>2, <2>3
  <2>6. QED
    BY <2>4, <2>5 DEF PairInv, Paired
<1>9. QED
  <2>1. w.n = writer[r].n /\ w.dir = writer[r].dir /\ w.kind = writer[r].kind
    BY <1>4 DEF v
  <2>2. /\ local' \in [Dirs -> SUBSET ReportFiles] /\ \A d \in Dirs : OneEach(local'[d])
        /\ faults' \in Nat /\ faults <= faults'
    BY <1>1 DEF Undisturbed, StoreTypes
  <2>3. \A d \in Dirs : \A f \in bucket' \cup local'[d] : f \in bucket \cup local[d] \/ f.key.n = w.n
    BY <1>1, <1>3, <1>4, TwoFiles
  <2>4. QED
    BY <1>1, <1>2, <1>3, <1>4, <1>6, <1>7, <1>8, <2>1, <2>2, <2>3, WriterStep

LEMMA PutJsonSound ==
    ASSUME Undisturbed, NEW r \in Reports, PutJson(r)
    PROVE  Undisturbed'
<1> DEFINE v == writer[r]
           w == [v EXCEPT !.pc = "done"]
           new == Mine(r, v.n, "json")
           md == [key |-> Key(v.kind, v.n, "md"), of |-> r]
<1>1. /\ v.pc = "put_json" /\ v.pc \notin Idle /\ Step(r, w) /\ Put(r, "json", "done")
      /\ local' = local /\ publisher' = publisher /\ faults' = faults
  BY DEF PutJson, Put, Idle
<1>2. /\ AloneInv' /\ v \in Writers /\ writer'[r] = w /\ v.dir \in Dirs
      /\ v.kind \in Kinds /\ v.n \in Stems
      /\ \A q \in Reports \ {r} : writer[q].pc \in Idle
      /\ \A d \in Dirs : publisher[d].pc = "off"
  BY <1>1, AtWork
<1>3. /\ bucket' \in SUBSET ReportFiles /\ OneEach(bucket') /\ new \in bucket'
      /\ new.key = Key("bench", v.n, "json") /\ new = [key |-> new.key, of |-> r]
      /\ Present(bucket') = Present(bucket) \cup {new.key}
      /\ \A f \in bucket' : f \in bucket \/ f = new
      /\ new.key \notin Present(bucket) => bucket \subseteq bucket'
  BY <1>1, BucketPut DEF Exts
<1>4. w \in Writers /\ w.dir = v.dir /\ w.kind = v.kind /\ w.n = v.n /\ w.pc = "done"
  BY <1>2 DEF Writers
<1>5. /\ v.kind = "bench" /\ md \in bucket
      /\ Key(v.kind, v.n, "json") \notin Present(bucket)
  BY <1>1 DEF Undisturbed, WriterInv, Mine
<1>6. md.key = Key(v.kind, v.n, "md") /\ md.of = r /\ md = [key |-> md.key, of |-> r]
  OBVIOUS
<1>7. Paired(md, bucket') /\ Paired(new, bucket')
  <2>1. bucket \subseteq bucket'
    BY <1>3, <1>5
  <2>2. Mate(md.key) = new.key /\ Mate(new.key) = md.key
    BY <1>3, <1>5, <1>6, TwoFiles
  <2> HIDE DEF md, new
  <2>3. QED
    BY <1>3, <1>5, <1>6, <2>1, <2>2 DEF Paired
<1>8. Mine(r, v.n, "md") = md
  BY DEF Mine
<1> HIDE DEF w, new, v, md
<1>9. bucket \subseteq bucket'
  BY <1>3, <1>5
<1>10. WriterInv(r)'
  <2>1. \A ext \in Exts : [key |-> Key(w.kind, w.n, ext), of |-> r] \in bucket'
    BY <1>3, <1>4, <1>5, <1>6, <1>9 DEF Exts
  <2>2. QED
    BY <1>2, <1>4, <1>5, <2>1 DEF WriterInv, Mine
<1>11. faults' = 0 => PairInv'
  <2> SUFFICES ASSUME faults = 0 PROVE PairInv'
    BY <1>1
  <2>1. PairInv
    BY DEF Undisturbed
  <2>2. \A q \in Reports : writer[q].pc # "json" /\ (writer[q].pc = "put_json" => q = r)
    BY <1>1, <1>2 DEF Idle, v
  <2>3. \A d \in Dirs : publisher[d].pc # "items"
    BY <1>2
  <2>4. \A d \in Dirs : \A f \in local[d] : Paired(f, local[d])
    BY <2>1, <2>2 DEF PairInv
  <2>5. \A f \in bucket : Paired(f, bucket) \/ f = md
    BY <1>8, <2>1, <2>2, <2>3 DEF PairInv, v
  <2>6. \A f \in bucket' : Paired(f, bucket')
    BY <1>3, <1>7, <1>9, <2>5 DEF Paired
  <2>7. QED
    BY <1>1, <2>4, <2>6 DEF PairInv, Paired
<1>12. QED
  <2>1. w.n = writer[r].n /\ w.dir = writer[r].dir /\ w.kind = writer[r].kind
    BY <1>4 DEF v
  <2>2. /\ local' \in [Dirs -> SUBSET ReportFiles] /\ \A d \in Dirs : OneEach(local'[d])
        /\ faults' \in Nat /\ faults <= faults'
    BY <1>1 DEF Undisturbed, StoreTypes
  <2>3. \A d \in Dirs : \A f \in bucket' \cup local'[d] : f \in bucket \cup local[d] \/ f.key.n = w.n
    BY <1>1, <1>3, <1>4, TwoFiles
  <2>4. QED
    BY <1>1, <1>2, <1>3, <1>4, <1>9, <1>10, <1>11, <2>1, <2>2, <2>3, WriterStep

-----------------------------------------------------------------------------
(* The steps of a publish                                                  *)

(* The keys of files, and the file that is at a key.                       *)
LEMMA KeysOf ==
    ASSUME NEW files \in SUBSET ReportFiles
    PROVE  /\ Present(files) \in SUBSET Keys
           /\ \A f \in files : f.key \in Present(files) /\ f.key \in Keys /\ f.key.kind \in Kinds
           /\ \A k \in Present(files) : \E f \in files : f.key = k
<1>1. \A f \in files : f.key \in Keys
  BY DEF ReportFiles
<1>2. \A k \in Keys : k.kind \in Kinds
  BY DEF Keys
<1>3. QED
  BY <1>1, <1>2 DEF Present

(* What holds at a step of a publish that is under way.                    *)
LEMMA AtPublish ==
    ASSUME Undisturbed, NEW d \in Dirs, NEW p, Publish(d, p), publisher[d].pc # "off",
           writer' = writer
    PROVE  /\ AloneInv' /\ publisher[d] \in Publishers /\ publisher'[d] = p
           /\ \A q \in Reports : writer[q].pc \in Idle
           /\ \A e \in Dirs \ {d} : publisher[e].pc = "off"
           /\ local[d] \in SUBSET ReportFiles /\ bucket \in SUBSET ReportFiles
           /\ faults \in Nat
<1>1. writer \in [Reports -> Writers] /\ publisher \in [Dirs -> Publishers] /\ AloneInv
  BY DEF Undisturbed, StoreTypes
<1>2. AloneInv'
  BY <1>1, StillAlone
<1>3. publisher[d] \in Publishers /\ publisher'[d] = p
  BY <1>1 DEF Publish
<1>4. /\ \A q \in Reports : writer[q].pc \in Idle
      /\ \A e \in Dirs \ {d} : publisher[e].pc = "off"
  BY <1>1, AlonePublisher DEF AloneInv
<1>5. QED
  BY <1>2, <1>3, <1>4 DEF Undisturbed, StoreTypes

(* Between its batches a publish leaves whole pairs.                       *)
LEMMA WholeBetween ==
    ASSUME Undisturbed, NEW d \in Dirs, faults = 0,
           publisher[d].pc # "items" \/ Remaining(d) = {},
           \A q \in Reports : writer[q].pc \in Idle,
           \A e \in Dirs \ {d} : publisher[e].pc = "off"
    PROVE  WholePairs
<1>1. \A q \in Reports : writer[q].pc \notin {"json", "put_json"}
  BY DEF Idle
<1>2. \A e \in Dirs : publisher[e].pc # "items" \/ Remaining(e) = {}
  OBVIOUS
<1>3. QED
  BY <1>1, <1>2, Whole DEF Undisturbed

LEMMA CollectItemsSound ==
    ASSUME Undisturbed, NEW d \in Dirs, CollectItems(d), ~beside'
    PROVE  Undisturbed'
<1> DEFINE p == [NoPublisher EXCEPT !.pc = "list", !.items = Present(local[d])]
<1>1. /\ Publish(d, p) /\ publisher[d].pc = "off"
      /\ local' = local /\ bucket' = bucket /\ writer' = writer /\ faults' = faults
  BY DEF CollectItems
<1>2. AloneInv'
  BY DEF CollectItems, Noted, AloneInv
<1>3. /\ Present(local[d]) \in SUBSET Keys
      /\ \A f \in local[d] : f.key \in Present(local[d])
  BY KeysOf DEF Undisturbed, StoreTypes
<1>4. NoPublisher \in Publishers /\ NoPublisher.kind = "bench" /\ NoPublisher.failed = FALSE
  BY DEF NoPublisher, Publishers, Kinds
<1>5. p \in Publishers /\ p.pc = "list" /\ p.kind = "bench" /\ p.items = Present(local[d])
  BY <1>3, <1>4 DEF Publishers
<1>6. ~p.failed
  BY <1>4 DEF Publishers
<1> HIDE DEF p
<1>7. publisher'[d] = p /\ \A e \in Dirs \ {d} : publisher'[e] = publisher[e]
  BY <1>1 DEF Publish, Undisturbed, StoreTypes
<1>8. /\ \A q \in Reports : writer[q].pc \in Idle
      /\ \A e \in Dirs \ {d} : publisher[e].pc = "off"
  <2>1. publisher'[d].pc # "off"
    BY <1>5, <1>7
  <2>2. /\ \A q \in Reports : writer'[q].pc \in Idle
        /\ \A e \in Dirs \ {d} : publisher'[e].pc = "off"
    BY <1>2, <2>1, AlonePublisher DEF AloneInv
  <2>3. QED
    BY <1>1, <1>7, <2>2
<1>9. PublisherInv(d)'
  BY <1>1, <1>3, <1>5, <1>6, <1>7 DEF PublisherInv
<1>10. faults' = 0 => PairInv'
  BY <1>1, <1>8, WholeBetween, WholeStays
<1>11. QED
  BY <1>1, <1>2, <1>5, <1>8, <1>9, <1>10, PublisherStep DEF Undisturbed, StoreTypes

LEMMA ListKindSound ==
    ASSUME Undisturbed, NEW d \in Dirs, ListKind(d)
    PROVE  Undisturbed'
<1> DEFINE v == publisher[d]
           p == [v EXCEPT !.pc = "items", !.existing = Present(bucket)]
<1>1. /\ Publish(d, p) /\ v.pc = "list"
      /\ local' = local /\ bucket' = bucket /\ writer' = writer /\ faults' = faults
  BY DEF ListKind
<1>2. /\ AloneInv' /\ v \in Publishers /\ publisher'[d] = p
      /\ \A q \in Reports : writer[q].pc \in Idle
      /\ \A e \in Dirs \ {d} : publisher[e].pc = "off"
      /\ local[d] \in SUBSET ReportFiles /\ bucket \in SUBSET ReportFiles
      /\ faults \in Nat
  BY <1>1, AtPublish
<1>3. /\ Present(bucket) \in SUBSET Keys
      /\ \A f \in bucket : f.key \in Present(bucket) /\ f.key \in Keys
      /\ \A k \in Present(bucket) : \E f \in bucket : f.key = k
  BY <1>2, KeysOf
<1>4. /\ p \in Publishers /\ p.pc = "items" /\ p.existing = Present(bucket)
      /\ p.kind = v.kind /\ p.items = v.items
  BY <1>2, <1>3 DEF Publishers
<1>5. p.failed = v.failed
  BY <1>2 DEF Publishers
<1>6. faults = 0 => WholePairs
  BY <1>1, <1>2, WholeBetween
<1>7. PublisherInv(d)
  BY DEF Undisturbed
<1>8. /\ v.failed => faults > 0
      /\ v.items \subseteq Present(local[d])
      /\ \A f \in local[d] :
            /\ f.key.kind = v.kind => f.key \in v.items
            /\ v.kind = "bench" /\ f.key.kind = "soak" => f.key \in v.items
            /\ ~v.failed /\ v.kind = "soak" /\ f.key.kind = "bench" => f.key \in Present(bucket)
  BY <1>1, <1>7 DEF PublisherInv
<1> HIDE DEF p, v
<1>9. ASSUME faults = 0, NEW k \in Present(bucket) PROVE Mate(k) \in Present(bucket)
  <2>1. PICK f \in bucket : f.key = k
    BY <1>3
  <2>2. [key |-> Mate(k), of |-> f.of] \in bucket
    BY <1>6, <1>9, <2>1 DEF WholePairs, Paired
  <2>3. QED
    BY <1>3, <2>2
<1>10. Remaining(d)' \cap Present(bucket) = {}
  BY <1>2, <1>4 DEF Remaining
<1>11. PublisherInv(d)'
  BY <1>1, <1>2, <1>4, <1>5, <1>8, <1>9, <1>10 DEF PublisherInv
<1>12. faults' = 0 => PairInv'
  BY <1>1, <1>6, WholeStays
<1>13. QED
  BY <1>1, <1>2, <1>4, <1>11, <1>12, PublisherStep DEF Undisturbed, StoreTypes

(* A kind that is through: what may still be missing is of the next kind.  *)
LEMMA AfterKindSound ==
    ASSUME Undisturbed, NEW d \in Dirs, NEW u \in Publishers, Publish(d, AfterKind(u)),
           publisher[d].pc \in {"list", "items"},
           u.kind = publisher[d].kind, u.items = publisher[d].items,
           local' = local, bucket' = bucket, writer' = writer, faults' \in Nat, faults <= faults',
           u.failed => faults' > 0, publisher[d].failed => u.failed,
           ~u.failed => \A f \in local[d] : f.key.kind = u.kind => f.key \in Present(bucket),
           faults' = 0 => publisher[d].pc # "items" \/ Remaining(d) = {}
    PROVE  Undisturbed'
<1> DEFINE v == publisher[d]
           p == AfterKind(u)
<1>1. v.pc \in {"list", "items"} /\ v.pc # "off"
  OBVIOUS
<1>2. /\ AloneInv' /\ v \in Publishers /\ publisher'[d] = p
      /\ \A q \in Reports : writer[q].pc \in Idle
      /\ \A e \in Dirs \ {d} : publisher[e].pc = "off"
      /\ local[d] \in SUBSET ReportFiles /\ bucket \in SUBSET ReportFiles
      /\ faults \in Nat
  BY <1>1, AtPublish
<1>3. u.kind = "bench" \/ u.kind = "soak"
  BY DEF Publishers, Kinds
<1>4. \A f \in local[d] :
          /\ v.kind = "bench" /\ f.key.kind = "soak" => f.key \in v.items
          /\ ~v.failed /\ v.kind = "soak" /\ f.key.kind = "bench" => f.key \in Present(bucket)
  BY <1>1 DEF Undisturbed, PublisherInv
<1>5. v.items \subseteq Present(local[d])
  BY DEF Undisturbed, PublisherInv
<1>6. \A f \in local[d] : f.key.kind = "bench" \/ f.key.kind = "soak"
  BY <1>2, KeysOf DEF Kinds
<1>7. /\ p \in Publishers
      /\ p.items = v.items
  BY <1>3 DEF AfterKind, Publishers, Kinds
<1>8. p.failed = u.failed
  BY <1>3 DEF AfterKind, Publishers
<1>9. IF u.kind = "bench" THEN p.pc = "list" /\ p.kind = "soak" ELSE p.pc = "contract"
  BY <1>3 DEF AfterKind, Publishers
<1>10. faults' = 0 => PairInv'
  <2>1. faults' = 0 => faults = 0
    BY <1>2
  <2>2. QED
    BY <1>2, <2>1, WholeBetween, WholeStays
<1> HIDE DEF p, v
<1>11. PublisherInv(d)'
  <2>1. CASE u.kind = "bench"
    <3>1. p.pc = "list" /\ p.kind = "soak" /\ v.kind = "bench"
      BY <1>9, <2>1 DEF v
    <3>2. \A f \in local[d] : f.key.kind = "soak" => f.key \in p.items
      BY <1>4, <1>7, <3>1
    <3>3. \A f \in local[d] : ~p.failed /\ f.key.kind = "bench" => f.key \in Present(bucket)
      BY <1>8, <2>1
    <3>4. QED
      BY <1>2, <1>5, <1>7, <1>8, <3>1, <3>2, <3>3 DEF PublisherInv
  <2>2. CASE u.kind = "soak"
    <3>1. p.pc = "contract" /\ v.kind = "soak"
      BY <1>9, <2>2 DEF v
    <3>2. ~p.failed => \A f \in local[d] : f.key \in Present(bucket)
      BY <1>4, <1>6, <1>8, <2>2, <3>1 DEF v
    <3>3. ~p.failed => Present(local[d]) \subseteq Present(bucket)
      BY <1>2, <3>2, KeysOf
    <3>4. QED
      BY <1>2, <1>5, <1>7, <1>8, <3>1, <3>3 DEF PublisherInv
  <2>3. QED
    BY <1>3, <2>1, <2>2
<1>12. Publish(d, p)
  BY DEF p
<1>13. OneEach(bucket)
  BY DEF Undisturbed, StoreTypes
<1>14. QED
  BY <1>2, <1>7, <1>10, <1>11, <1>12, <1>13, PublisherStep

LEMMA ListKindFailsSound ==
    ASSUME Undisturbed, NEW d \in Dirs, ListKindFails(d)
    PROVE  Undisturbed'
<1> DEFINE v == publisher[d]
           failed == v.failed \/ Items(d) # {}
           u == [v EXCEPT !.failed = failed]
<1>1. /\ Publish(d, AfterKind(u)) /\ v.pc = "list" /\ v \in Publishers
      /\ local' = local /\ bucket' = bucket /\ writer' = writer /\ faults' = faults + 1
      /\ faults \in Nat
  BY DEF ListKindFails, Undisturbed, StoreTypes
<1>2. failed \in BOOLEAN
  OBVIOUS
<1> HIDE DEF failed
<1>3. u \in Publishers /\ u.kind = v.kind /\ u.items = v.items
  BY <1>1, <1>2 DEF Publishers
<1>4. u.failed = failed
  BY <1>1 DEF Publishers
<1>5. v.failed => u.failed
  BY <1>4 DEF failed
<1>6. ~u.failed => \A f \in local[d] : f.key.kind # u.kind
  <2>1. \A f \in local[d] : f.key.kind = v.kind => f.key \in v.items
    BY <1>1 DEF Undisturbed, PublisherInv
  <2>2. Items(d) = {} => \A f \in local[d] : f.key.kind # v.kind
    BY <2>1 DEF Items
  <2>3. QED
    BY <1>3, <1>4, <2>2 DEF failed
<1> HIDE DEF u
<1>7. publisher[d].pc \in {"list", "items"} /\ publisher[d].pc # "items" /\ faults' > 0
      /\ faults' \in Nat /\ faults <= faults'
  BY <1>1
<1>8. u.kind = publisher[d].kind /\ u.items = publisher[d].items
  BY <1>3
<1>9. QED
  BY <1>1, <1>3, <1>5, <1>6, <1>7, <1>8, AfterKindSound

LEMMA KindDoneSound ==
    ASSUME Undisturbed, NEW d \in Dirs, KindDone(d)
    PROVE  Undisturbed'
<1> DEFINE v == publisher[d]
<1>1. /\ Publish(d, AfterKind(v)) /\ v.pc = "items" /\ v \in Publishers /\ Remaining(d) = {}
      /\ local' = local /\ bucket' = bucket /\ writer' = writer /\ faults' = faults
      /\ faults \in Nat
  BY DEF KindDone, Undisturbed, StoreTypes
<1>2. /\ v.failed => faults > 0
      /\ v.existing \subseteq Present(bucket)
      /\ ~v.failed => \A f \in local[d] :
            f.key.kind = v.kind => f.key \in v.items \cup v.existing \/ f \in bucket
  BY <1>1 DEF Undisturbed, PublisherInv
<1>3. ASSUME ~v.failed, NEW f \in local[d], f.key.kind = v.kind PROVE f.key \in Present(bucket)
  <2>1. f.key \in v.items => f.key \in v.existing
    BY <1>1, <1>3 DEF Remaining, Items
  <2>2. f \in bucket => f.key \in Present(bucket)
    BY DEF Present
  <2>3. QED
    BY <1>2, <1>3, <2>1, <2>2
<1>4. v.pc \in {"list", "items"} /\ faults <= faults' /\ faults' \in Nat
  BY <1>1
<1>5. QED
  BY <1>1, <1>2, <1>3, <1>4, AfterKindSound

LEMMA UploadItemFailsSound ==
    ASSUME Undisturbed, NEW d \in Dirs, UploadItemFails(d)
    PROVE  Undisturbed'
<1> DEFINE v == publisher[d]
<1>1. /\ v.pc = "items" /\ v.pc # "off"
      /\ local' = local /\ bucket' = bucket /\ writer' = writer /\ faults' = faults + 1
  BY DEF UploadItemFails
<1>2. PICK k \in Remaining(d) : Publish(d, [Without(d, k) EXCEPT !.failed = TRUE])
  BY DEF UploadItemFails
<1> DEFINE p == [Without(d, k) EXCEPT !.failed = TRUE]
<1>3. /\ AloneInv' /\ v \in Publishers /\ publisher'[d] = p
      /\ \A q \in Reports : writer[q].pc \in Idle
      /\ \A e \in Dirs \ {d} : publisher[e].pc = "off"
      /\ local[d] \in SUBSET ReportFiles /\ bucket \in SUBSET ReportFiles
      /\ faults \in Nat
  BY <1>1, <1>2, AtPublish
<1>4. /\ p \in Publishers /\ p.pc = "items" /\ p.existing = v.existing
      /\ p.kind = v.kind /\ p.items = v.items \ {k}
  BY <1>1, <1>3 DEF Publishers, Without
<1>5. p.failed
  BY <1>3 DEF Publishers, Without
<1>6. k.kind = v.kind
  BY DEF Remaining, Items
<1>7. /\ v.items \subseteq Present(local[d]) /\ v.existing \subseteq Present(bucket)
      /\ Remaining(d) \cap Present(bucket) = {}
      /\ \A f \in local[d] : v.kind = "bench" /\ f.key.kind = "soak" => f.key \in v.items
  BY <1>1 DEF Undisturbed, PublisherInv
<1> HIDE DEF p
<1>8. Remaining(d)' \subseteq Remaining(d)
  BY <1>3, <1>4 DEF Remaining, Items
<1>9. \A f \in local[d] : v.kind = "bench" /\ f.key.kind = "soak" => f.key \in p.items
  BY <1>4, <1>6, <1>7
<1> HIDE DEF v
<1>10. faults' > 0 /\ faults' # 0 /\ faults' \in Nat /\ faults <= faults'
  BY <1>1, <1>3
<1>11. PublisherInv(d)'
  BY <1>1, <1>3, <1>4, <1>5, <1>7, <1>8, <1>9, <1>10 DEF PublisherInv
<1>12. Publish(d, p) /\ OneEach(bucket)
  BY <1>2 DEF p, Undisturbed, StoreTypes
<1>13. QED
  BY <1>1, <1>3, <1>4, <1>10, <1>11, <1>12, PublisherStep

(* The contract is put and publish returns.                                *)
LEMMA ReturnSound ==
    ASSUME Undisturbed, NEW d \in Dirs, Exit(d) \/ Return(d)
    PROVE  Undisturbed'
<1> DEFINE v == publisher[d]
<1>1. NoPublisher \in Publishers /\ NoPublisher.pc = "off" /\ NoPublisher.items = {}
      /\ NoPublisher.failed = FALSE
  BY DEF NoPublisher, Publishers, Kinds
<1>2. /\ v.pc \notin {"off", "items"}
      /\ local' = local /\ bucket' = bucket /\ writer' = writer /\ faults' = faults
  BY DEF Exit, Return
<1>3. PICK p \in Publishers :
          /\ Publish(d, p) /\ p.items = {} /\ ~p.failed /\ p.pc \in {"off", "published"}
          /\ p.pc = "published" => v.pc = "contract" /\ ~v.failed
  <2> DEFINE p == [NoPublisher EXCEPT !.pc = "published"]
  <2>1. p \in Publishers /\ p.items = {} /\ p.pc = "published"
    BY <1>1 DEF Publishers
  <2>2. ~p.failed
    BY <1>1 DEF Publishers
  <2>3. Publish(d, NoPublisher) \/ (Publish(d, p) /\ v.pc = "contract" /\ ~v.failed)
    BY DEF Exit, Return
  <2> HIDE DEF p
  <2>4. CASE Publish(d, NoPublisher)
    BY <1>1, <2>4
  <2>5. CASE Publish(d, p) /\ v.pc = "contract" /\ ~v.failed
    BY <2>1, <2>2, <2>5
  <2>6. QED
    BY <2>3, <2>4, <2>5
<1>4. /\ AloneInv' /\ v \in Publishers /\ publisher'[d] = p
      /\ \A q \in Reports : writer[q].pc \in Idle
      /\ \A e \in Dirs \ {d} : publisher[e].pc = "off"
      /\ bucket \in SUBSET ReportFiles /\ faults \in Nat
  BY <1>2, <1>3, AtPublish
<1>5. v.pc = "contract" /\ ~v.failed => Present(local[d]) \subseteq Present(bucket)
  BY DEF Undisturbed, PublisherInv
<1>6. PublisherInv(d)'
  BY <1>2, <1>3, <1>4, <1>5 DEF PublisherInv
<1>7. faults' = 0 => PairInv'
  BY <1>2, <1>4, WholeBetween, WholeStays
<1>8. OneEach(bucket) /\ faults <= faults'
  BY <1>2, <1>4 DEF Undisturbed, StoreTypes
<1>9. QED
  BY <1>2, <1>3, <1>4, <1>6, <1>7, <1>8, PublisherStep

LEMMA UploadSound ==
    ASSUME Undisturbed, NEW d \in Dirs, Upload(d)
    PROVE  Undisturbed'
<1> DEFINE v == publisher[d]
           here == local[d]
<1>1. /\ v.pc = "items" /\ v.pc # "off"
      /\ local' = local /\ writer' = writer /\ faults' = faults
  BY DEF Upload
<1>2. PICK k \in Remaining(d) :
          bucket' = Written(bucket, k, Of(here, k)) /\ Publish(d, Without(d, k))
  BY DEF Upload
<1> DEFINE p == Without(d, k)
           new == [key |-> k, of |-> Of(here, k)]
<1>3. /\ AloneInv' /\ v \in Publishers /\ publisher'[d] = p
      /\ \A q \in Reports : writer[q].pc \in Idle
      /\ \A e \in Dirs \ {d} : publisher[e].pc = "off"
      /\ here \in SUBSET ReportFiles /\ bucket \in SUBSET ReportFiles
      /\ faults \in Nat
  BY <1>1, <1>2, AtPublish
<1>4. /\ p \in Publishers /\ p.pc = "items" /\ p.existing = v.existing
      /\ p.kind = v.kind /\ p.items = v.items \ {k}
  BY <1>1, <1>3 DEF Publishers, Without
<1>5. p.failed = v.failed
  BY <1>3 DEF Publishers, Without
<1>6. k.kind = v.kind /\ k \in v.items /\ k \notin v.existing
  BY DEF Remaining, Items
<1>7. /\ v.failed => faults > 0
      /\ v.items \subseteq Present(here) /\ v.existing \subseteq Present(bucket)
      /\ Remaining(d) \cap Present(bucket) = {}
      /\ faults = 0 => \A j \in v.existing : Mate(j) \in v.existing
      /\ \A f \in here :
            /\ v.kind = "bench" /\ f.key.kind = "soak" => f.key \in v.items
            /\ ~v.failed /\ f.key.kind = v.kind => f.key \in v.items \cup v.existing \/ f \in bucket
            /\ ~v.failed /\ v.kind = "soak" /\ f.key.kind = "bench" => f.key \in Present(bucket)
  BY <1>1 DEF Undisturbed, PublisherInv
<1>8. OneEach(here) /\ OneEach(bucket)
  BY DEF Undisturbed, StoreTypes
<1>9. new \in here
  <2>1. PICK f \in here : f.key = k
    BY <1>3, <1>6, <1>7, KeysOf
  <2>2. Of(here, k) = f.of
    BY <1>8, <2>1, OfIs
  <2>3. f = [key |-> f.key, of |-> f.of]
    BY <1>3, <2>1 DEF ReportFiles
  <2>4. QED
    BY <2>1, <2>2, <2>3
<1>10. /\ OneEach(bucket') /\ new \in bucket'
       /\ Present(bucket') = Present(bucket) \cup {k}
       /\ \A f \in bucket' : f = new \/ (f \in bucket /\ f.key # k)
       /\ bucket \subseteq bucket'
  <2>1. \A f \in bucket : f = [key |-> f.key, of |-> f.of]
    BY <1>3 DEF ReportFiles
  <2>2. k \notin Present(bucket)
    BY <1>7
  <2>3. QED
    BY <1>2, <1>8, <2>1, <2>2, WrittenIs
<1>11. new.key = k
  OBVIOUS
<1> HIDE DEF p, new
<1>12. Remaining(d)' = Remaining(d) \ {k}
  BY <1>3, <1>4 DEF Remaining, Items
<1>13. bucket' \in SUBSET ReportFiles /\ \A f \in bucket' : f \in bucket \/ f.key \in Present(here)
  BY <1>3, <1>6, <1>7, <1>9, <1>10, <1>11
<1>14. k \in Keys /\ \A f \in here : f.key \in Keys
  BY <1>3, <1>6, <1>7, KeysOf
<1>15. ASSUME ~v.failed, NEW f \in here, f.key.kind = v.kind
       PROVE  f.key \in p.items \cup p.existing \/ f \in bucket'
  <2>1. CASE f.key = k
    BY <1>8, <1>9, <1>10, <1>11, <2>1 DEF OneEach
  <2>2. CASE f.key # k
    BY <1>4, <1>7, <1>10, <1>15, <2>2
  <2>3. QED
    BY <2>1, <2>2
<1>16. PublisherInv(d)'
  <2>1. \A f \in here : v.kind = "bench" /\ f.key.kind = "soak" => f.key \in p.items
    BY <1>4, <1>6, <1>7
  <2>2. p.existing \subseteq Present(bucket') /\ Remaining(d)' \cap Present(bucket') = {}
    BY <1>4, <1>7, <1>10, <1>12
  <2>3. p.items \subseteq Present(here)
    BY <1>4, <1>7
  <2>4. \A f \in here : ~v.failed /\ v.kind = "soak" /\ f.key.kind = "bench" =>
            f.key \in Present(bucket')
    BY <1>7, <1>10
  <2> HIDE DEF v
  <2>5. QED
    BY <1>1, <1>3, <1>4, <1>5, <1>7, <1>15, <2>1, <2>2, <2>3, <2>4 DEF PublisherInv
<1>17. faults' = 0 => PairInv'
  <2> SUFFICES ASSUME faults = 0 PROVE PairInv'
    BY <1>1
  <2>1. PairInv /\ ~v.failed
    BY <1>7 DEF Undisturbed
  <2>2. \A q \in Reports : writer[q].pc \notin {"json", "put_json"}
    BY <1>3 DEF Idle
  <2>3. \A e \in Dirs : \A f \in local[e] : Paired(f, local[e])
    BY <2>1, <2>2 DEF PairInv
  <2>4. \A f \in bucket : Paired(f, bucket) \/ (f \in here /\ Mate(f.key) \in Remaining(d))
    <3>1. \A e \in Dirs : publisher[e].pc = "items" => e = d
      BY <1>3
    <3>2. QED
      BY <2>1, <2>2, <3>1 DEF PairInv
  <2>5. ASSUME NEW f \in here, f \in bucket', f.key.kind = v.kind, f.key \notin v.existing
        PROVE  Paired(f, bucket') \/ Mate(f.key) \in Remaining(d)'
    <3>1. PICK g \in here : g.key = Mate(f.key) /\ g = [key |-> Mate(f.key), of |-> f.of]
      BY <2>3 DEF Paired
    <3>2. g.key.kind = v.kind /\ Mate(g.key) = f.key
      BY <1>14, <2>5, <3>1, Mates
    <3>3. g.key \notin v.existing
      BY <1>7, <2>5, <3>2
    <3>4. g.key \in p.items \/ g \in bucket'
      BY <1>4, <1>15, <2>1, <3>2, <3>3
    <3>5. CASE g \in bucket'
      BY <3>1, <3>5 DEF Paired
    <3>6. CASE g.key \in p.items
      BY <1>3, <1>4, <3>1, <3>2, <3>3, <3>6 DEF Remaining, Items
    <3>7. QED
      BY <3>4, <3>5, <3>6
  <2>6. ASSUME NEW f \in bucket'
        PROVE  Paired(f, bucket') \/ (f \in here /\ Mate(f.key) \in Remaining(d)')
    <3>1. CASE f = new
      BY <1>6, <1>9, <1>10, <1>11, <2>5, <3>1
    <3>2. CASE f \in bucket /\ Paired(f, bucket)
      BY <1>10, <3>2 DEF Paired
    <3>3. CASE f \in bucket /\ f \in here /\ Mate(f.key) \in Remaining(d)
      <4>1. Mate(f.key).kind = v.kind /\ Mate(f.key) \notin v.existing
        BY <3>3 DEF Remaining, Items
      <4>2. f.key.kind = v.kind
        BY <1>14, <3>3, <4>1, Mates
      <4>3. f.key \notin v.existing
        BY <1>7, <4>1
      <4>4. QED
        BY <2>5, <3>3, <4>2, <4>3
    <3>4. QED
      BY <1>10, <2>4, <3>1, <3>2, <3>3
  <2>7. publisher'[d].pc = "items"
    BY <1>3, <1>4
  <2>8. \A f \in bucket' : Paired(f, bucket') \/
            \E e \in Dirs : publisher'[e].pc = "items" /\ f \in local'[e] /\ Mate(f.key) \in Remaining(e)'
    BY <1>1, <2>6, <2>7
  <2>9. \A e \in Dirs : \A f \in local'[e] : Paired(f, local'[e])
    BY <1>1, <2>3
  <2>10. QED
    BY <2>8, <2>9 DEF PairInv, Paired
<1>18. Publish(d, p) /\ faults' \in Nat /\ faults <= faults'
  BY <1>1, <1>2, <1>3 DEF p
<1>19. QED
  BY <1>1, <1>3, <1>4, <1>10, <1>13, <1>16, <1>17, <1>18, PublisherStep

-----------------------------------------------------------------------------
(* The store's promises                                                    *)

LEMMA StepStore == StoreInv /\ [StoreNext]_storeVars => StoreInv'
<1> SUFFICES ASSUME StoreInv, [StoreNext]_storeVars PROVE StoreInv'
  OBVIOUS
<1>1. CASE UNCHANGED storeVars
  <2>1. beside' = beside /\ (Undisturbed => Undisturbed')
    BY <1>1 DEF storeVars, Undisturbed, StoreTypes, StemInv, AloneInv, WriterInv, PublisherInv,
                PairInv, Remaining, Items, Mine
  <2>2. QED
    BY <2>1 DEF StoreInv
<1>2. CASE StoreNext
  <2>1. beside' \in BOOLEAN /\ (beside => beside')
    BY <1>2 DEF StoreInv, StoreNext, Noted, Name, WriteMd, WriteJson, List, PutMd, PutJson, Put,
                UploadFails, Kill, CollectItems, ListKind, ListKindFails, Upload, UploadItemFails,
                KindDone, Exit, Return
  <2> SUFFICES ASSUME ~beside' PROVE Undisturbed'
    BY <2>1 DEF StoreInv
  <2>2. Undisturbed
    BY <2>1 DEF StoreInv
  <2>3. ASSUME NEW r \in Reports,
               \/ Name(r) \/ WriteMd(r) \/ WriteJson(r) \/ List(r)
               \/ PutMd(r) \/ PutJson(r) \/ UploadFails(r) \/ Kill(r)
        PROVE  Undisturbed'
    BY <2>2, <2>3, NameSound, WriteMdSound, WriteJsonSound, ListSound, PutMdSound, PutJsonSound,
       CutOffSound
  <2>4. ASSUME NEW d \in Dirs,
               \/ CollectItems(d) \/ ListKind(d) \/ ListKindFails(d) \/ Upload(d)
               \/ UploadItemFails(d) \/ KindDone(d) \/ Exit(d) \/ Return(d)
        PROVE  Undisturbed'
    BY <2>2, <2>4, CollectItemsSound, ListKindSound, ListKindFailsSound, UploadSound,
       UploadItemFailsSound, KindDoneSound, ReturnSound
  <2>5. QED
    BY <1>2, <2>3, <2>4 DEF StoreNext
<1>3. QED
  BY <1>1, <1>2

(* Nothing is stored at first, and nobody is at work.                      *)
LEMMA InitStore == UseInit => StoreInv
<1> SUFFICES ASSUME StoreInit PROVE Undisturbed /\ beside = FALSE
  BY DEF UseInit, NoStore, StoreInv
<1>1. /\ beside = FALSE /\ faults = 0 /\ bucket = {}
      /\ local = [d \in Dirs |-> {}] /\ publisher = [d \in Dirs |-> NoPublisher]
      /\ writer \in [Reports -> [dir : Dirs, kind : Kinds, pc : {"new"}, n : {1}, lost : {FALSE}]]
  BY DEF StoreInit
<1>2. 1 \in Stems
  <2>1. Cardinality(Reports) \in Nat
    BY ReportsAssumption, FS_CardinalityType
  <2>2. QED
    BY <2>1 DEF Stems
<1>3. ASSUME NEW r \in Reports
      PROVE  writer[r] \in Writers /\ writer[r].pc = "new" /\ writer[r].n = 1
  <2>1. writer[r] \in [dir : Dirs, kind : Kinds, pc : {"new"}, n : {1}, lost : {FALSE}]
    BY <1>1
  <2>2. QED
    BY <1>2, <2>1 DEF Writers
<1>4. writer \in [Reports -> Writers]
  BY <1>1, <1>3
<1>5. NoPublisher \in Publishers /\ NoPublisher.pc = "off" /\ NoPublisher.items = {}
      /\ NoPublisher.failed = FALSE
  BY DEF NoPublisher, Publishers, Kinds
<1>6. \A d \in Dirs : publisher[d] = NoPublisher /\ local[d] = {}
  BY <1>1
<1>7. StoreTypes
  BY <1>1, <1>4, <1>5, <1>6 DEF StoreTypes, OneEach
<1>8. StemInv
  BY <1>1, <1>6 DEF StemInv
<1>9. AloneInv
  BY <1>3, <1>5, <1>6 DEF AloneInv, Working
<1>10. \A r \in Reports : WriterInv(r)
  BY <1>3 DEF WriterInv
<1>11. \A d \in Dirs : PublisherInv(d)
  BY <1>5, <1>6 DEF PublisherInv
<1>12. PairInv
  BY <1>1, <1>6 DEF PairInv
<1>13. QED
  BY <1>1, <1>7, <1>8, <1>9, <1>10, <1>11, <1>12 DEF Undisturbed

LEMMA UseStore == [UseNext]_useVars => [StoreNext]_storeVars
  BY DEF UseNext, useVars

LEMMA StoreAlways == UseSpec => []StoreInv
<1>1. StoreInv /\ [UseNext]_useVars => StoreInv'
  BY StepStore, UseStore
<1>2. QED
  BY <1>1, InitStore, PTL DEF UseSpec

(* With two files under one stem, each is the other's mate.                *)
LEMMA PairsSound ==
    ASSUME Undisturbed, faults = 0, NEW f \in bucket, NEW g \in bucket,
           f.key.kind = g.key.kind, f.key.n = g.key.n
    PROVE  f.of = g.of
<1>1. bucket \in SUBSET ReportFiles /\ OneEach(bucket) /\ PairInv
  BY DEF Undisturbed, StoreTypes
<1>2. f.key \in Keys /\ g.key \in Keys /\ g.key \in Present(bucket)
  BY <1>1, KeysOf
<1>3. CASE g.key = f.key
  BY <1>1, <1>3 DEF OneEach
<1>4. CASE g.key = Mate(f.key)
  <2>1. CASE Paired(f, bucket)
    BY <1>1, <1>4, <2>1 DEF Paired, OneEach
  <2>2. ASSUME NEW r \in Reports, writer[r].pc = "put_json", f = Mine(r, writer[r].n, "md")
        PROVE  FALSE
    <3>1. Key(writer[r].kind, writer[r].n, "json") \notin Present(bucket)
      BY <2>2 DEF Undisturbed, WriterInv
    <3>2. f.key = Key(writer[r].kind, writer[r].n, "md")
      BY <2>2 DEF Mine
    <3>3. QED
      BY <1>2, <1>4, <3>1, <3>2, TwoFiles
  <2>3. ASSUME NEW d \in Dirs, publisher[d].pc = "items", Mate(f.key) \in Remaining(d)
        PROVE  FALSE
    BY <1>2, <1>4, <2>3 DEF Undisturbed, PublisherInv
  <2>4. QED
    BY <1>1, <2>1, <2>2, <2>3 DEF PairInv
<1>5. QED
  BY <1>2, <1>3, <1>4, Mates

(* What is stored under one stem is of one report, a publish that returns 0 *)
(* left nothing of its checkout out, and no finished report is lost         *)
(* (heart/eval/storage.py, heart/eval/publish.py).                          *)
THEOREM ReportsAlwaysSound == UseSpec => []ReportsSound
<1>1. StoreInv => ReportsSound
  <2> SUFFICES ASSUME StoreInv PROVE ReportsSound
    OBVIOUS
  <2>1. CASE beside
    BY <2>1 DEF ReportsSound, PairsOfOneReport, PublishedIsThere, FinishedIsKept
  <2>2. CASE ~beside
    <3>1. Undisturbed
      BY <2>2 DEF StoreInv
    <3>2. PairsOfOneReport
      <4>1. faults \in Nat
        BY <3>1 DEF Undisturbed, StoreTypes
      <4>2. CASE faults > 0
        BY <4>2 DEF PairsOfOneReport
      <4>3. CASE faults = 0
        BY <3>1, <4>3, PairsSound DEF PairsOfOneReport
      <4>4. QED
        BY <4>1, <4>2, <4>3
    <3>3. PublishedIsThere
      BY <3>1 DEF PublishedIsThere, Undisturbed, PublisherInv
    <3>4. FinishedIsKept
      BY <3>1 DEF FinishedIsKept, Undisturbed, WriterInv, Mine, Exts
    <3>5. QED
      BY <3>2, <3>3, <3>4 DEF ReportsSound
  <2>3. QED
    BY <2>1, <2>2
<1>2. QED
  BY <1>1, StoreAlways, PTL

(* "A second run on the same day never silently overwrites the first": a   *)
(* file of the bucket is replaced only once two have been at work at once  *)
(* (_upload_report_pair, _publish_kind).                                   *)
THEOREM OverwritesOnlyByRace == UseSpec => OverwriteOnlyByRace
<1>1. StoreInv /\ [UseNext]_useVars => [bucket \subseteq bucket' \/ beside]_storeVars
  <2> SUFFICES ASSUME StoreInv, StoreNext, ~beside PROVE bucket \subseteq bucket'
    BY UseStore
  <2>1. Undisturbed /\ bucket \in SUBSET ReportFiles /\ OneEach(bucket)
    BY DEF StoreInv, Undisturbed, StoreTypes
  <2>2. ASSUME NEW r \in Reports, PutMd(r) PROVE bucket \subseteq bucket'
    <3>1. writer[r].pc = "put_md" /\ Put(r, "md", "put_json")
      BY <2>2 DEF PutMd
    <3>2. Key("bench", writer[r].n, "md") \notin Present(bucket)
      BY <2>1, <3>1 DEF Undisturbed, WriterInv, Exts
    <3>3. QED
      BY <2>1, <3>1, <3>2, BucketPut DEF Exts
  <2>3. ASSUME NEW r \in Reports, PutJson(r) PROVE bucket \subseteq bucket'
    <3>1. writer[r].pc = "put_json" /\ Put(r, "json", "done")
      BY <2>3 DEF PutJson
    <3>2. Key("bench", writer[r].n, "json") \notin Present(bucket)
      BY <2>1, <3>1 DEF Undisturbed, WriterInv
    <3>3. QED
      BY <2>1, <3>1, <3>2, BucketPut DEF Exts
  <2>4. ASSUME NEW d \in Dirs, Upload(d) PROVE bucket \subseteq bucket'
    <3>1. PICK k \in Remaining(d) : bucket' = Written(bucket, k, Of(local[d], k))
      BY <2>4 DEF Upload
    <3>2. k \notin Present(bucket)
      BY <2>1, <2>4 DEF Upload, Undisturbed, PublisherInv
    <3>3. \A f \in bucket : f = [key |-> f.key, of |-> f.of]
      BY <2>1 DEF ReportFiles
    <3>4. QED
      BY <2>1, <3>1, <3>2, <3>3, WrittenIs
  <2>5. QED
    BY <2>2, <2>3, <2>4 DEF StoreNext, Name, WriteMd, WriteJson, List, UploadFails, Kill,
       CollectItems, ListKind, ListKindFails, UploadItemFails, KindDone, Exit, Return
<1>2. QED
  BY <1>1, StoreAlways, PTL DEF UseSpec, OverwriteOnlyByRace

==============================================================================
