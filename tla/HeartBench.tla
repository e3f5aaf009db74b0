------------------------------ MODULE HeartBench ------------------------------
(***************************************************************************)
(* The bench of the Heart, `python -m ansina.heart.eval`: a labelled set   *)
(* of fixtures is loaded, each is put to the model through the code under  *)
(* test (the tick's prompt, request triage, context curation, structured   *)
(* extraction), what it answers is scored, and a gate says PASS or FAIL.   *)
(*                                                                         *)
(* The model may answer anything.  The tick suite asks through the prompt  *)
(* HeartTick models, and every suite is under its context budget.          *)
(***************************************************************************)
EXTENDS HeartTick

CONSTANTS Files,             \* fixture files: [suite, lines]
          CurationReplies,   \* the numbers a curation reply may mention, in order
          MaxLatency, Latencies

\* A file is a list of lines, a transcript numbers its events and knows their tokens.
ASSUME FilesAssumption ==
    \A f \in Files :
        /\ Len(f.lines) \in Nat /\ DOMAIN f.lines = 1 .. Len(f.lines)
        /\ f.suite = "curation" =>
              \A i \in DOMAIN f.lines : f.lines[i].events \in Seq([n : Nat, cost : Nat])

ASSUME RepliesAssumption ==
    CurationReplies \subseteq Seq(Nat) /\ Latencies \subseteq Nat /\ MaxLatency \in Nat

VARIABLES file, bpc, loaded,
          brainOpen,         \* the BrainProvider of the curation suite
          results, verdict

benchVars == <<file, bpc, loaded, brainOpen, results, verdict>>

Null == "null"

-----------------------------------------------------------------------------
(* Fixtures                                                                *)

Decisions == {"idle", "act", "escalate"}

Classes == {"trivial", "tool-only", "complex"}

\* _ACTION_RANK, from no intervention to the Brain.
Rank == <<"none", "retry", "nudge", "compact", "pause_intake", "escalate_to_brain">>

Actions == {Rank[i] : i \in DOMAIN Rank}

Causes == {"shell_denied", "permission_denied", "timeout", "error", "other"}

Numbers(events) == {events[i].n : i \in DOMAIN events}

\* _parse_events(): some, and no two with one number.
EventsOk(events) ==
    events # <<>> /\ Cardinality(Numbers(events)) = Len(events)

TickLineOk(line) == line.expect \in Decisions /\ line.items # <<>>

TriageLineOk(line) == line.expect \in Classes /\ line.request # ""

CurationLineOk(line) ==
    /\ EventsOk(line.events)
    /\ line.must_keep # {} /\ line.must_keep \subseteq Numbers(line.events)
    /\ line.failure_cause # ""

InterventionLineOk(line) ==
    /\ line.candidates # {}
    /\ line.action \in Actions /\ line.run_id \in line.candidates \cup {Null}

TitleLineOk(line) == EventsOk(line.events) /\ line.prompt # "" /\ line.title # ""

FailureLineOk(line) ==
    /\ EventsOk(line.events)
    /\ line.cause \in Causes /\ line.evidence \in Numbers(line.events)

ExtractionLineOk(line) ==
    \/ line.job = "intervention" /\ InterventionLineOk(line)
    \/ line.job = "title" /\ TitleLineOk(line)
    \/ line.job = "failure_cause" /\ FailureLineOk(line)

LineOk(suite, line) ==
    \/ suite = "tick" /\ TickLineOk(line)
    \/ suite = "triage" /\ TriageLineOk(line)
    \/ suite = "curation" /\ CurationLineOk(line)
    \/ suite = "extraction" /\ ExtractionLineOk(line)

\* The classes of a suite that is scored by class; each must have a fixture.
Labels(suite) ==
    IF suite = "tick" THEN Decisions ELSE IF suite = "triage" THEN Classes ELSE {}

Expected(lines) == {lines[i].expect : i \in DOMAIN lines}

\* load_fixtures(), load_triage_fixtures() and the other two.
FixturesOk(f) ==
    /\ f.lines # <<>>
    /\ \A i \in DOMAIN f.lines : LineOk(f.suite, f.lines[i])
    /\ \A i, j \in DOMAIN f.lines : f.lines[i].id = f.lines[j].id => i = j
    /\ Labels(f.suite) # {} => Labels(f.suite) \subseteq Expected(f.lines)

-----------------------------------------------------------------------------
(* Context curation                                                        *)

\* The tokens of the events of those numbers, one by one.
Cost(events, selected) ==
    Cardinality(UNION {{i} \X (1 .. events[i].cost) :
                           i \in {j \in DOMAIN events : events[j].n \in selected}})

Full(events) == Cost(events, Numbers(events))

\* DEFAULT_BUDGET_FRACTION of the whole transcript, rounded down, but one token.
CurationBudget(events) ==
    LET budget == (9 * Full(events)) \div 10 IN IF budget < 1 THEN 1 ELSE budget

\* Mutant: an event that does not fit is passed over, and counted all the same.
TakenMutant(events, ordered, budget) == Len(ordered)

\* How many of the numbers, in their order, fit the budget before the first that does not.
Taken(events, ordered, budget) ==
    LET Spent(k) == Cost(events, {ordered[i] : i \in 1 .. k})
    IN CHOOSE k \in 0 .. Len(ordered) :
           Spent(k) <= budget /\ (k < Len(ordered) => Spent(k + 1) > budget)

\* recency_window_selection(): the newest that fit.
RecencyWindow(events, budget) ==
    LET newest == Sorted(Numbers(events), [n \in Numbers(events) |-> -n])
    IN {newest[i] : i \in 1 .. Taken(events, newest, budget)}

\* try_parse_curation(): the numbers of the transcript, each where it is first mentioned.
ParsedCuration(reply, events) ==
    LET first == {i \in DOMAIN reply : /\ reply[i] \in Numbers(events)
                                       /\ \A j \in 1 .. i - 1 : reply[j] # reply[i]}
        places == Sorted(first, [i \in first |-> i])
    IN [p \in DOMAIN places |-> reply[places[p]]]

\* HeartContextCurator.curate() and _enforce_budget().
Curate(events, reply, budget) ==
    LET ordered == ParsedCuration(reply, events)
        taken == Taken(events, ordered, budget)
    IN IF ordered = <<>>
       THEN [selected |-> RecencyWindow(events, budget), fallback |-> TRUE, exceeded |-> FALSE]
       ELSE [selected |-> {ordered[i] : i \in 1 .. taken}, fallback |-> FALSE,
             exceeded |-> taken < Len(ordered)]

-----------------------------------------------------------------------------
(* Structured extraction                                                   *)

\* _parse_json_object(): the reply itself, or the first balanced braces in it.
HasObject(reply) == reply.shape \in {"object", "object in prose"}

\* try_parse_intervention()
InterventionOk(reply, candidates) ==
    /\ HasObject(reply)
    /\ reply.action \in Actions
    /\ reply.run_id \in candidates \cup {Null}

\* try_parse_failure()
FailureOk(reply, numbers) ==
    HasObject(reply) /\ reply.cause \in Causes /\ reply.evidence \in numbers

RankOf(action) == CHOOSE i \in DOMAIN Rank : Rank[i] = action

\* _direction(), and none for a reply that was not parsed.
Direction(r) ==
    IF ~r.valid THEN "unparsed"
    ELSE IF r.action = r.expected
         THEN IF r.run_id = r.expected_run THEN "agree" ELSE "wrong_run"
         ELSE IF RankOf(r.action) > RankOf(r.expected) THEN "more_conservative"
              ELSE "less_conservative"

-----------------------------------------------------------------------------
(* What each fixture leads to, and the tokens of its prompt                *)

PromptTokens(suite, line) ==
    CASE suite = "tick" -> TextTokens(line.items, Fitting(line.items))
      [] suite = "triage" -> Template + line.cost
      [] suite = "curation" -> Template + Full(line.events)
      [] OTHER -> IF line.job = "intervention" THEN Template + Cardinality(line.candidates)
                  ELSE Template + Full(line.events)

\* try_parse_triage() and try_parse_decision(): the word of a class, or nothing.
Parsed(reply) == IF reply \in Labels(file.suite) THEN reply ELSE Null

Labelled(line, reply, t) ==
    [suite |-> file.suite, expected |-> line.expect, idle |-> line.idle,
     actual |-> Parsed(reply), latency |-> t]

Curated(line, reply, named, t) ==
    LET budget == CurationBudget(line.events)
        outcome == Curate(line.events, reply, budget)
    IN [suite |-> "curation", events |-> line.events, must_keep |-> line.must_keep,
        budget |-> budget, curated |-> outcome.selected, fallback |-> outcome.fallback,
        exceeded |-> outcome.exceeded, truncated |-> RecencyWindow(line.events, budget),
        named |-> named, latency |-> t]

Intervened(line, reply, t) ==
    LET valid == InterventionOk(reply, line.candidates) IN
    [suite |-> "intervention", expected |-> line.action, expected_run |-> line.run_id,
     candidates |-> line.candidates, valid |-> valid,
     action |-> IF valid THEN reply.action ELSE Null,
     run_id |-> IF valid THEN reply.run_id ELSE Null, latency |-> t]

Explained(line, reply, t) ==
    LET valid == FailureOk(reply, Numbers(line.events)) IN
    [suite |-> "failure_cause", numbers |-> Numbers(line.events), valid |-> valid,
     evidence |-> IF valid THEN reply.evidence ELSE 0, latency |-> t]

\* try_parse_title(): one line that is not too long.
Titled(line, reply, t) ==
    [suite |-> "title", valid |-> reply = "one short line", latency |-> t]

-----------------------------------------------------------------------------
(* Metrics and gates                                                       *)

Such(P(_)) == Cardinality({i \in DOMAIN results : P(results[i])})

RoutedToBrain(r) == r.actual # "trivial"

NeedsBrain(r) == r.expected # "trivial"

\* label_metrics() and _build_confusion(): each expected class against what was answered.
Confusion(expected, actual) ==
    Such(LAMBDA r : r.expected = expected /\ r.actual = actual)

Misrouted(class) == Confusion(class, "trivial")

\* round() of a rank, to the even of two that are as near.
RoundedRank(percent, n) ==
    LET scaled == percent * (n - 1)
        low == scaled \div 100
        rest == scaled % 100
    IN IF rest > 50 \/ (rest = 50 /\ low % 2 = 1) THEN low + 1 ELSE low

\* percentile(): nearest rank.
Percentile(percent) ==
    LET order == Sorted(DOMAIN results, [i \in DOMAIN results |-> results[i].latency])
    IN results[order[1 + RoundedRank(percent, Len(results))]].latency

InTime == Percentile(95) <= MaxLatency

\* label_metrics()
Correct == Such(LAMBDA r : r.actual = r.expected)

ParseFallbacks == Such(LAMBDA r : r.actual = Null)

\* Acts and escalations on fixtures tagged obviously_idle.
FalseAlarms == Such(LAMBDA r : r.idle /\ r.actual \in {"act", "escalate"})

\* gate_result()
TickGate ==
    10 * Correct >= 9 * Len(results) /\ FalseAlarms = 0 /\ ParseFallbacks = 0 /\ InTime

\* Mutant: only complex requests count as misrouted.
TriageGateMutant ==
    /\ Misrouted("complex") = 0
    /\ 4 * Confusion("trivial", "trivial") >= 3 * Such(LAMBDA r : r.expected = "trivial")
    /\ ParseFallbacks = 0
    /\ InTime

\* triage_gate_result()
TriageGate ==
    /\ Misrouted("complex") = 0
    /\ Misrouted("tool-only") = 0
    /\ 4 * Confusion("trivial", "trivial") >= 3 * Such(LAMBDA r : r.expected = "trivial")
    /\ ParseFallbacks = 0
    /\ InTime

\* How often all that must be kept was.
Recalled == Such(LAMBDA r : r.must_keep \subseteq r.curated)

\* curation_gate_result()
CurationGate ==
    /\ Such(LAMBDA r : "curated" \in r.named) > Such(LAMBDA r : "truncated" \in r.named)
    /\ Recalled = Len(results)
    /\ Such(LAMBDA r : r.fallback) = 0
    /\ InTime

Interventions == Such(LAMBDA r : r.suite = "intervention")

Directed(direction) ==
    Such(LAMBDA r : r.suite = "intervention" /\ Direction(r) = direction)

\* intervention_gate_result(), which alone is the verdict of the suite.
InterventionGate ==
    /\ Directed("unparsed") = 0
    /\ Directed("less_conservative") = 0
    /\ Directed("wrong_run") = 0
    /\ 5 * Directed("more_conservative") <= Interventions
    /\ InTime

-----------------------------------------------------------------------------
(* The command                                                             *)

BenchInit ==
    /\ file \in Files
    /\ bpc = "start" /\ loaded = FALSE /\ brainOpen = FALSE
    /\ results = <<>> /\ verdict = "none"

\* Settings, the prompt variant, the fixtures and, for the curation suite, that the Brain
\* is enabled and can be built.
Startable(configured) == configured /\ FixturesOk(file)

Refuse(configured) ==
    /\ bpc = "start" /\ ~Startable(configured)
    /\ bpc' = "exit" /\ verdict' = "refused"
    /\ UNCHANGED <<file, loaded, brainOpen, results>>

Prepare(configured) ==
    /\ bpc = "start" /\ Startable(configured)
    /\ bpc' = "load" /\ brainOpen' = (file.suite = "curation")
    /\ UNCHANGED <<file, loaded, results, verdict>>

\* build_heart_runtime() raises: the command returns, and what Prepare built stays open.
NoRuntime ==
    /\ bpc = "load" /\ bpc' = "exit" /\ verdict' = "refused"
    /\ UNCHANGED <<file, loaded, brainOpen, results>>

\* build_heart_runtime() and BaseHeartRuntime.load()
Load ==
    /\ bpc = "load" /\ loaded' = TRUE
    /\ bpc' = "suite"
    /\ UNCHANGED <<file, brainOpen, results, verdict>>

\* Outside the try: nothing is loaded, and the Brain is left as it is.
LoadFails ==
    /\ bpc = "load" /\ bpc' = "exit" /\ verdict' = "crashed"
    /\ UNCHANGED <<file, loaded, brainOpen, results>>

NextLine == file.lines[Len(results) + 1]

TooLong == PromptTokens(file.suite, NextLine) + MaxOutput > Context

\* One fixture of a suite, whatever the model and the Brain answer.
Evaluating(suite) ==
    /\ bpc = "suite" /\ file.suite = suite
    /\ Len(results) < Len(file.lines) /\ ~TooLong
    /\ UNCHANGED <<file, bpc, loaded, brainOpen, verdict>>

Record(r) == results' = Append(results, r)

\* run_bench()
EvaluateTick ==
    /\ Evaluating("tick")
    /\ \E reply \in Decisions \cup {"mumble"}, t \in Latencies :
          Record(Labelled(NextLine, reply, t))

\* run_triage_bench()
EvaluateTriage ==
    /\ Evaluating("triage")
    /\ \E reply \in Classes \cup {"mumble"}, t \in Latencies :
          Record(Labelled(NextLine, reply, t))

\* run_curation_bench(): the Brain is asked on the curated and on the truncated
\* transcript, and may name the cause from either; an error of its is an answer too.
EvaluateCuration ==
    /\ Evaluating("curation")
    /\ \E reply \in CurationReplies, named \in SUBSET {"curated", "truncated"}, t \in Latencies :
          Record(Curated(NextLine, reply, named, t))

\* run_extraction_bench()
EvaluateExtraction ==
    /\ Evaluating("extraction")
    /\ \E t \in Latencies :
        \/ /\ NextLine.job = "intervention"
           /\ \E s \in {"object", "object in prose", "prose"},
                 a \in {"none", "retry", "nudge", "escalate_to_brain", "reboot"},
                 r \in NextLine.candidates \cup {Null, "made up"} :
                 Record(Intervened(NextLine, [shape |-> s, action |-> a, run_id |-> r], t))
        \/ /\ NextLine.job = "failure_cause"
           /\ \E s \in {"object", "prose"}, c \in {"timeout", "weather"}, n \in 0 .. 3 :
                 Record(Explained(NextLine, [shape |-> s, cause |-> c, evidence |-> n], t))
        \/ /\ NextLine.job = "title"
           /\ \E reply \in {"one short line", "two lines", "too long", ""} :
                 Record(Titled(NextLine, reply, t))

\* The two finally clauses, and what main() returns.
Leave(outcome) ==
    /\ loaded' = FALSE /\ brainOpen' = FALSE
    /\ bpc' = "exit" /\ verdict' = outcome
    /\ UNCHANGED <<file, results>>

\* A prompt over the context, or a model that fails: generate() raises.
EvaluateFails ==
    bpc = "suite" /\ Len(results) < Len(file.lines) /\ Leave("crashed")

Report(suite, passed) ==
    /\ bpc = "suite" /\ file.suite = suite /\ Len(results) = Len(file.lines)
    /\ Leave(IF passed THEN "passed" ELSE "failed")

ReportTick == Report("tick", TickGate)

ReportTriage == Report("triage", TriageGate)

ReportCuration == Report("curation", CurationGate)

\* The gates of titles and failure causes are in the report, not in the verdict.
ReportExtraction == Report("extraction", InterventionGate)

BenchNext ==
    \/ \E configured \in BOOLEAN : Refuse(configured) \/ Prepare(configured)
    \/ NoRuntime \/ Load \/ LoadFails \/ EvaluateFails
    \/ EvaluateTick \/ EvaluateTriage \/ EvaluateCuration \/ EvaluateExtraction
    \/ ReportTick \/ ReportTriage \/ ReportCuration \/ ReportExtraction

-----------------------------------------------------------------------------
(* Properties                                                              *)

\* What goes to the Brain is part of the transcript and within the budget, whatever the
\* model asked for, and a reply that names nothing leads to the baseline; "exceeded" says
\* just that something it named was left out (_enforce_budget, curate).
SelectedFits ==
    \A i \in DOMAIN results : results[i].suite = "curation" =>
        LET r == results[i] IN
        /\ \A selected \in {r.curated, r.truncated} :
              selected \subseteq Numbers(r.events) /\ Cost(r.events, selected) <= r.budget
        /\ r.fallback => r.curated = r.truncated /\ ~r.exceeded
        /\ r.curated = {} => r.exceeded \/ r.fallback

\* No run id, action or event number the model made up gets past the parser
\* (try_parse_intervention, try_parse_failure).
NothingMadeUp ==
    \A i \in DOMAIN results : LET r == results[i] IN
        /\ r.suite = "intervention" /\ r.valid =>
               r.action \in Actions /\ r.run_id \in r.candidates \cup {Null}
        /\ r.suite = "failure_cause" /\ r.valid => r.evidence \in r.numbers

\* Of what a model answers, only what its prompt offered is acted on.
RepliesTamed == SelectedFits /\ NothingMadeUp

\* What PASS promises of each fixture, though the gates only see counts and rates: all
\* replies were parsed and in time, no request that needs the Brain was kept from it, an
\* idle state was left alone, what must be kept was kept, and an intervention that differs
\* is a more conservative one.
PassMeansSafe ==
    verdict = "passed" => \A i \in DOMAIN results : LET r == results[i] IN
        /\ r.suite \in {"tick", "triage"} => r.actual # Null
        /\ r.suite = "triage" /\ NeedsBrain(r) => RoutedToBrain(r)
        /\ r.suite = "tick" /\ r.idle => r.actual = "idle"
        /\ r.suite = "curation" => r.must_keep \subseteq r.curated
        /\ r.suite = "intervention" =>
               /\ r.valid
               /\ \/ r.action = r.expected /\ r.run_id = r.expected_run
                  \/ RankOf(r.action) > RankOf(r.expected)

\* And no more than one reply in twenty, rounded, is late: none of ten.
PassMeansInTime ==
    verdict = "passed" =>
        20 * Cardinality({i \in DOMAIN results : results[i].latency > MaxLatency})
            <= Len(results) + 9

\* However the command ends, the model is unloaded; and the Brain is closed once the suite
\* has begun, so that the only way to leave one open is a model that cannot be built or
\* loaded for a curation suite, nothing evaluated (main, _run_curation_suite).
NothingLeftLoaded ==
    bpc = "exit" =>
        /\ ~loaded
        /\ brainOpen => /\ file.suite = "curation" /\ results = <<>>
                        /\ verdict \in {"refused", "crashed"}

\* What the command's exit code is trusted for, and what it leaves behind.
BenchSound == PassMeansSafe /\ PassMeansInTime /\ NothingLeftLoaded

=============================================================================
