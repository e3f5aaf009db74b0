------------------------------ MODULE HeartTick ------------------------------
(***************************************************************************)
(* One tick of the Heart, from the snapshot to the journal: sources are    *)
(* read, what they report is trimmed to a prompt, the model is asked, its  *)
(* decision is journaled and an escalation is streamed to the Brain.       *)
(*                                                                         *)
(* TickLoop models when ticks happen and what a failed one does to the     *)
(* loop; Interventions what the handler between the Brain's and the fault  *)
(* injector's does.  Here ticks follow one another, each await is a step,  *)
(* the daemon may die at any of them, and the wall clock may step back.    *)
(***************************************************************************)
EXTENDS Integers, Sequences, FiniteSets

CONSTANTS Context, MaxOutput,      \* tokens: [heart] context_tokens, max_output_tokens
          Template, Placeholder,   \* tokens of the template, "(no pending state)" in it included
          ItemCost, JoinCost,      \* tokens of each item, and of the line break between two
          MaxEntries, Retention,   \* [heart.journal] max_entries, retention_days
          BrainEnabled, MaxRetries, BackoffInitial, BackoffMax,  \* [brain]
          Schedules,               \* fault schedules a file may hold
          MaxTime, MaxTicks, MaxRows, MaxChunks, MaxDowns, MaxStepsBack   \* bounds

\* What the sources report, and how urgent it may be.
ItemNames == {"uptime", "readiness", "database", "activity", "faults", "journal",
              "runs", "stalled", "outcomes"}

Priorities == {100, 50, 10, 5, 0, -10}

ItemKinds == [name : ItemNames, priority : Priorities]

ASSUME BudgetAssumption ==
    /\ {Context, MaxOutput, Template} \subseteq Nat \ {0}
    /\ ItemCost \in [ItemKinds -> Nat \ {0}]
    /\ {Placeholder, JoinCost} \subseteq Nat
    /\ MaxOutput < Context /\ Placeholder <= Template

ASSUME JournalAssumption == {MaxEntries, Retention} \subseteq Nat \ {0}

ASSUME BrainAssumption ==
    /\ BrainEnabled \in BOOLEAN /\ MaxRetries \in Nat
    /\ {BackoffInitial, BackoffMax} \subseteq Nat

ASSUME TickBounds ==
    /\ {MaxTime, MaxRows} \subseteq Nat \ {0}
    /\ {MaxTicks, MaxChunks, MaxDowns, MaxStepsBack} \subseteq Nat

VARIABLES now, up,
          schedule,   \* the windows of the fault injector; none when it is disabled
          pc,         \* where the tick stands; "idle" between two
          tick,       \* what the tick has gathered
          stream,     \* the Brain's stream
          ticksRun, failing, slow,   \* ticks_run, and whether its gauges of failures and overruns are up
          rows,       \* table heart_journal
          \* history and bounds
          log,        \* every row ever written, in order
          steppedBack, downs

vars == <<now, up, schedule, pc, tick, stream, ticksRun, failing, slow, rows,
          log, steppedBack, downs>>

NoTick == [items |-> <<>>, included |-> 0, tokens |-> 0, decision |-> "none"]

NoStream == [attempt |-> 0, text |-> <<>>, delay |-> 0, status |-> "called"]

-----------------------------------------------------------------------------
(* Fault schedules                                                         *)

End(w) == w.at + w.ticks - 1

Covers(w, n) == w.at <= n /\ n <= End(w)

\* load_fault_schedule(): windows are numbered from tick 1, and each kind's, ordered by
\* where they start, end before the next one starts.  Only an overrun sleeps.
Accepted(windows) ==
    /\ \A i \in DOMAIN windows :
          /\ windows[i].at >= 1 /\ windows[i].ticks >= 1
          /\ (windows[i].sleep > 0) <=> (windows[i].fault = "tick_overrun")
    /\ \A i, j \in DOMAIN windows :
          i # j /\ windows[i].fault = windows[j].fault =>
              End(windows[i]) < windows[j].at \/ End(windows[j]) < windows[i].at

Active(fault, n) ==
    \E i \in DOMAIN schedule : schedule[i].fault = fault /\ Covers(schedule[i], n)

-----------------------------------------------------------------------------
(* Sources and the prompt                                                  *)

Item(name, priority) == [name |-> name, priority |-> priority]

\* What the probes of the two sources may find wrong.
Troubles == {"readiness", "database", "stalled", "outcomes"}

\* collect() of DaemonStateSource, five items: a fault outranks all else it has to say.
DaemonItems(trouble) ==
    LET Level(fault) == IF fault THEN 100 ELSE 10 IN
    <<Item("uptime", 0),
      Item("readiness", Level("readiness" \in trouble)),
      Item("database", Level("database" \in trouble)),
      Item("activity", 0),
      Item("faults", Level(failing \/ slow))>>

\* collect() of RecentJournalSource: nothing before the first row.
JournalItems == IF rows = {} THEN <<>> ELSE <<Item("journal", -10)>>

\* collect() of OpencodeStateSource, three items.
OpencodeItems(trouble) ==
    LET Level(fault) == IF fault THEN 50 ELSE 5 IN
    <<Item("runs", 5),
      Item("stalled", Level("stalled" \in trouble)),
      Item("outcomes", Level("outcomes" \in trouble))>>

\* A set of numbers as a list, by a key and then by themselves.
Sorted(S, key) ==
    [p \in 1 .. Cardinality(S) |->
        CHOOSE i \in S :
            Cardinality({j \in S : key[j] < key[i] \/ (key[j] = key[i] /\ j < i)}) = p - 1]

\* collect_items(): highest first, and in the order of the sources within a priority.
ByPriority(items) ==
    LET order == Sorted(DOMAIN items, [i \in DOMAIN items |-> -items[i].priority])
    IN [p \in DOMAIN items |-> items[order[p]]]

Budget == Context - MaxOutput

Available == IF Budget > Template THEN Budget - Template ELSE 0

\* The tokens of the first n items, one by one.
Used(items, n) ==
    Cardinality(UNION {{i} \X (1 .. ItemCost[items[i]]) : i \in 1 .. n})

\* Mutant: the item that reaches past the budget is still taken.
FittingMutant(items) ==
    CHOOSE n \in 0 .. Len(items) :
        /\ n > 0 => Used(items, n - 1) <= Available
        /\ n < Len(items) => Used(items, n) > Available

\* build_prompt() takes items until one does not fit; what comes after is dropped too.
Fitting(items) ==
    CHOOSE n \in 0 .. Len(items) :
        /\ Used(items, n) <= Available
        /\ n < Len(items) => Used(items, n + 1) > Available

\* Tokens of the text of n items; the line breaks are not part of the budgeting.
TextTokens(items, n) ==
    IF n = 0 THEN Template
    ELSE Template - Placeholder + Used(items, n) + (n - 1) * JoinCost

\* _build_note(): the items that share the highest priority in the prompt.
Note(items) == {i \in DOMAIN items : items[i].priority = items[1].priority}

-----------------------------------------------------------------------------
(* The tick                                                                *)

Init ==
    /\ now = 1 /\ up = TRUE
    /\ schedule \in {s \in Schedules : Accepted(s)}
    /\ pc = "idle" /\ tick = NoTick /\ stream = NoStream
    /\ ticksRun = 0 /\ failing = FALSE /\ slow = FALSE
    /\ rows = {}
    /\ log = <<>> /\ steppedBack = FALSE /\ downs = 0

historyVars == <<log, steppedBack, downs>>

\* collect_items() and build_prompt(): a source that raises is left out, the readiness
\* check of the injector reads the number the tick is going to have.
Collect(trouble, broken) ==
    /\ up /\ pc = "idle" /\ ticksRun < MaxTicks /\ Len(log) < MaxRows
    /\ LET injected == IF Active("readiness_check", ticksRun + 1) THEN {"readiness"} ELSE {}
           daemon == IF "daemon_state" \in broken THEN <<>>
                     ELSE DaemonItems(trouble \cup injected)
           opencode == IF "opencode_state" \in broken THEN <<>> ELSE OpencodeItems(trouble)
           items == ByPriority(daemon \o JournalItems \o opencode)
           n == Fitting(items)
       IN tick' = [items |-> items, included |-> n, tokens |-> TextTokens(items, n),
                   decision |-> "none"]
    /\ pc' = "generate"
    /\ UNCHANGED <<now, up, schedule, stream, ticksRun, failing, slow, rows, historyVars>>

\* An exception leaves the tick; run() counts it and carries on.
Raise ==
    /\ pc' = "idle" /\ tick' = NoTick /\ stream' = NoStream
    /\ failing' = TRUE
    /\ UNCHANGED <<now, up, schedule, ticksRun, slow, rows, historyVars>>

Overflows == tick.tokens + MaxOutput > Context

\* The runtime refuses the prompt, or the model fails.
GenerateFails == pc = "generate" /\ Raise

\* Mutant: the journal is not one of the handlers.
FirstHandlerMutant == "brain"

\* build_tick_loop() puts the journal before every other handler.
FirstHandler == "journal"

\* parse_decision(): a reply that is no decision is idle.  Failures are over, and an
\* overrun is measured, before the handlers run.
Generate(reply, long) ==
    /\ pc = "generate" /\ ~Overflows
    /\ tick' = [NoTick EXCEPT !.decision =
                  IF reply \in {"idle", "act", "escalate"} THEN reply ELSE "idle"]
    /\ ticksRun' = ticksRun + 1
    /\ failing' = FALSE
    /\ slow' = (long \/ Active("tick_overrun", ticksRun + 1))
    /\ pc' = FirstHandler
    /\ UNCHANGED <<now, up, schedule, stream, rows, historyVars>>

-----------------------------------------------------------------------------
(* The handlers, in the order CompositeDecisionHandler has them            *)

Row(kind, status) ==
    [n |-> Len(log) + 1, at |-> now', tick |-> ticksRun, kind |-> kind,
     decision |-> tick.decision, status |-> status]

\* The wall clock moves on by itself between two readings, or is set back, once.
ReadClock ==
    \/ now' \in now .. MaxTime /\ UNCHANGED steppedBack
    \/ MaxStepsBack > 0 /\ ~steppedBack /\ now' \in 1 .. now - 1 /\ steppedBack' = TRUE

\* append(), first transaction.
Insert(row, next) ==
    /\ rows' = rows \cup {row}
    /\ log' = Append(log, row)
    /\ pc' = next

\* Mutant: the oldest rows are the ones that stay.
KeptOldestMutant(kept, at) ==
    LET recent == {r \in rows : r.at >= at - Retention} IN
    /\ kept \subseteq recent
    /\ Cardinality(kept) = IF Cardinality(recent) < MaxEntries
                           THEN Cardinality(recent) ELSE MaxEntries
    /\ \A r \in kept, s \in recent \ kept : r.at <= s.at

\* Rows that neither bound removes; ids decide between rows of one instant.
Kept(kept, at) ==
    LET recent == {r \in rows : r.at >= at - Retention} IN
    /\ kept \subseteq recent
    /\ Cardinality(kept) = IF Cardinality(recent) < MaxEntries
                           THEN Cardinality(recent) ELSE MaxEntries
    /\ \A r \in kept, s \in recent \ kept : r.at >= s.at

\* append(), second transaction: swept by the time the row was given.
Sweep(next) ==
    /\ \E kept \in SUBSET rows : Kept(kept, log[Len(log)].at) /\ rows' = kept
    /\ pc' = next

JournalTick ==
    /\ pc = "journal"
    /\ ReadClock
    /\ Insert(Row("tick", "none"), "sweep")
    /\ UNCHANGED <<up, schedule, tick, stream, ticksRun, failing, slow, downs>>

SweepTick ==
    /\ pc = "sweep"
    /\ Sweep("brain")
    /\ UNCHANGED <<now, up, schedule, tick, stream, ticksRun, failing, slow, historyVars>>

Escalates == tick.decision = "escalate"

SkipBrain ==
    /\ pc = "brain" /\ ~Escalates
    /\ pc' = "inject"
    /\ UNCHANGED <<now, up, schedule, tick, stream, ticksRun, failing, slow, rows, historyVars>>

Decline ==
    /\ pc = "brain" /\ Escalates /\ ~BrainEnabled
    /\ ReadClock
    /\ Insert(Row("brain", "declined"), "sweep_brain")
    /\ UNCHANGED <<up, schedule, tick, stream, ticksRun, failing, slow, downs>>

OpenStream ==
    /\ pc = "brain" /\ Escalates /\ BrainEnabled
    /\ stream' = [NoStream EXCEPT !.attempt = 1]
    /\ pc' = "stream"
    /\ UNCHANGED <<now, up, schedule, tick, ticksRun, failing, slow, rows, historyVars>>

\* A chunk with text is passed on at once; one without is not seen.
TextDelta ==
    /\ pc = "stream" /\ Len(stream.text) < MaxChunks
    /\ stream' = [stream EXCEPT !.text = Append(@, stream.attempt)]
    /\ UNCHANGED <<now, up, schedule, pc, tick, ticksRun, failing, slow, rows, historyVars>>

\* A chunk with the usage, or the end without one.
Done ==
    /\ pc = "stream"
    /\ pc' = "brain_row"
    /\ UNCHANGED <<now, up, schedule, tick, stream, ticksRun, failing, slow, rows, historyVars>>

\* backoff_seconds() before retry number attempt.
Backoff(attempt) ==
    LET delay == BackoffInitial * 2 ^ (attempt - 1) IN
    IF delay < BackoffMax THEN delay ELSE BackoffMax

Retryable == {"timeout", "rate_limit", "transport", "provider_server"}

ErrorClasses == Retryable \cup {"provider_client", "internal"}

\* Mutant: text that was delivered does not matter.
RetriesMutant(class) == class \in Retryable /\ stream.attempt <= MaxRetries

\* Only before the caller has any text, and within the budget of retries.
Retries(class) ==
    class \in Retryable /\ stream.text = <<>> /\ stream.attempt <= MaxRetries

Retry(class) ==
    /\ pc = "stream" /\ Retries(class)
    /\ stream' = [stream EXCEPT !.delay = Backoff(stream.attempt)]
    /\ pc' = "backoff"
    /\ UNCHANGED <<now, up, schedule, tick, ticksRun, failing, slow, rows, historyVars>>

\* Mutant: the attempt is not counted.
WakeMutant ==
    /\ pc = "backoff"
    /\ stream' = [stream EXCEPT !.delay = 0]
    /\ pc' = "stream"
    /\ UNCHANGED <<now, up, schedule, tick, ticksRun, failing, slow, rows, historyVars>>

Wake ==
    /\ pc = "backoff"
    /\ stream' = [stream EXCEPT !.attempt = @ + 1]
    /\ pc' = "stream"
    /\ UNCHANGED <<now, up, schedule, tick, ticksRun, failing, slow, rows, historyVars>>

\* The terminal error event: the handler records it and does not raise.
StreamFails(class) ==
    /\ pc = "stream" /\ ~Retries(class)
    /\ stream' = [stream EXCEPT !.status = "error"]
    /\ pc' = "brain_row"
    /\ UNCHANGED <<now, up, schedule, tick, ticksRun, failing, slow, rows, historyVars>>

JournalBrain ==
    /\ pc = "brain_row"
    /\ ReadClock
    /\ Insert(Row("brain", stream.status), "sweep_brain")
    /\ UNCHANGED <<up, schedule, tick, stream, ticksRun, failing, slow, downs>>

SweepBrain ==
    /\ pc = "sweep_brain"
    /\ Sweep("inject")
    /\ UNCHANGED <<now, up, schedule, tick, stream, ticksRun, failing, slow, historyVars>>

\* The fault injector is the last of the handlers.
Inject == pc = "inject" /\ Active("tick_failure", ticksRun) /\ Raise

Finish ==
    /\ pc = "inject" /\ ~Active("tick_failure", ticksRun)
    /\ pc' = "idle" /\ tick' = NoTick /\ stream' = NoStream
    /\ UNCHANGED <<now, up, schedule, ticksRun, failing, slow, rows, historyVars>>

-----------------------------------------------------------------------------

\* A write of the journal fails: append() raises from whichever half it is in.
WriteFails == pc \in {"journal", "sweep", "brain_row", "sweep_brain"} /\ Raise

\* What is in memory is gone, the table is not; the count of ticks starts over.
Die ==
    /\ up /\ downs < MaxDowns
    /\ up' = FALSE /\ downs' = downs + 1
    /\ pc' = "idle" /\ tick' = NoTick /\ stream' = NoStream
    /\ ticksRun' = 0 /\ failing' = FALSE /\ slow' = FALSE
    /\ UNCHANGED <<now, schedule, rows, log, steppedBack>>

Boot ==
    /\ ~up /\ up' = TRUE
    /\ UNCHANGED <<now, schedule, pc, tick, stream, ticksRun, failing, slow, rows, historyVars>>

TickStep ==
    \/ GenerateFails \/ \E reply \in {"idle", "act", "escalate", "other"}, long \in BOOLEAN :
                            Generate(reply, long)
    \/ JournalTick \/ SweepTick \/ SkipBrain \/ Decline \/ OpenStream
    \/ TextDelta \/ Done \/ \E class \in ErrorClasses : Retry(class) \/ StreamFails(class)
    \/ Wake \/ JournalBrain \/ SweepBrain \/ Inject \/ Finish \/ WriteFails

Next ==
    \/ \E trouble \in SUBSET Troubles, broken \in {{}, {"daemon_state"}, {"opencode_state"}} :
          Collect(trouble, broken)
    \/ TickStep
    \/ Die \/ Boot

Spec == Init /\ [][Next]_vars

\* The model and the database answer, and a request to the Brain times out.
FairSpec == Spec /\ WF_vars(TickStep)

-----------------------------------------------------------------------------
(* Properties                                                              *)

Rows == [n : 1 .. MaxRows + 1, at : 1 .. MaxTime, tick : Nat, kind : {"tick", "brain"},
         decision : {"idle", "act", "escalate"},
         status : {"none", "called", "declined", "error"}]

TypeOK ==
    /\ now \in 1 .. MaxTime
    /\ {up, failing, slow, steppedBack} \subseteq BOOLEAN
    /\ pc \in {"idle", "generate", "journal", "sweep", "brain", "stream", "backoff",
               "brain_row", "sweep_brain", "inject"}
    /\ rows \subseteq Rows /\ rows \subseteq {log[i] : i \in DOMAIN log}
    /\ (tick.decision = "none") <=> (pc \in {"idle", "generate"})

\* Every prompt fits the context with the room for the reply: none is built that the
\* runtime refuses (the module comment of snapshot.py, build_prompt).
PromptFits == pc = "generate" => ~Overflows

\* When the runtime does refuse a prompt, a trimmed one is over by no more than its line
\* breaks take beyond the placeholder, so that few items always fit, and one without any
\* item is the template of a context too small for it.  And nothing is left out while
\* the next item had room (build_prompt, BaseHeartRuntime.generate).
TrimmedToBudget ==
    pc = "generate" =>
        /\ Overflows =>
              \/ tick.included = 0 /\ Template > Budget
              \/ /\ tick.included > 0
                 /\ tick.tokens - Budget <= (tick.included - 1) * JoinCost - Placeholder
        /\ tick.included < Len(tick.items) =>
              Template + Used(tick.items, tick.included + 1) > Budget

\* Nothing that is left out of a prompt outranks what is in it, and after a tick that
\* failed the daemon's own report of it comes first (collect_items, _faults_item).
UrgentFirst ==
    pc = "generate" =>
        /\ \A i \in 1 .. tick.included, j \in tick.included + 1 .. Len(tick.items) :
              tick.items[i].priority >= tick.items[j].priority
        /\ (failing \/ slow) =>
              \A i \in DOMAIN tick.items :
                  tick.items[i].name = "faults" =>
                      \A k \in Note(tick.items) : tick.items[k].priority = 100

\* What the model is asked about: the most urgent items, as many as fit and no more, up to
\* the line breaks.
PromptSound == TrimmedToBudget /\ UrgentFirst

\* The row of a Brain call follows the row of the tick that escalated, with its number,
\* and says "error" just when the stream's terminal event did (BrainEscalationHandler).
BrainRowFollowsTick ==
    \A i \in DOMAIN log : log[i].kind = "brain" =>
        /\ i > 1 /\ log[i - 1].kind = "tick"
        /\ log[i].tick = log[i - 1].tick /\ log[i - 1].decision = "escalate"

\* While the clock runs forward the journal is what the two bounds leave of all that was
\* written: what was swept is older than every row left, and was too old or one too many
\* by the last write (HeartJournalRepository.sweep).
JournalIsNewest ==
    LET gone == {log[i] : i \in DOMAIN log} \ rows
        last == log[Len(log)].at
    IN gone # {} /\ ~steppedBack =>
           /\ \A r \in rows, g \in gone : g.at <= r.at
           /\ \/ Cardinality(rows) >= MaxEntries
              \/ \A g \in gone : g.at < last - Retention

\* A handler that got past its write leaves the table within its limit, whatever earlier
\* writes were cut off between the row and the sweep (HeartJournalRepository.append).
JournalBounded ==
    pc \in {"brain", "stream", "brain_row", "inject"} => Cardinality(rows) <= MaxEntries

\* The journal an operator reads after any interruption, sweep and step of the clock.
JournalSound == TypeOK /\ BrainRowFollowsTick /\ JournalIsNewest /\ JournalBounded

\* No text of the Brain reaches the caller twice: all of it is of one attempt, the last,
\* and there are no more retries, nor longer sleeps, than configured (_run).
NoTextTwice ==
    /\ \A i \in DOMAIN stream.text : stream.text[i] = stream.attempt
    /\ stream.attempt <= MaxRetries + 1 /\ stream.delay <= BackoffMax

\* A tick that decided and then leaves the handlers, be it by the injected failure, has
\* its row in the journal's history ("the tick's own journal row is always written first").
DecidedIsJournaled ==
    [][(Inject \/ Finish) =>
          \E i \in DOMAIN log : log[i].kind = "tick" /\ log[i].tick = ticksRun
                                /\ log[i].decision = tick.decision]_vars

\* Every tick ends, whatever the model, the Brain and the database answer.
TickEnds == pc # "idle" ~> pc = "idle"

=============================================================================
