---------------------------- MODULE MCHeart ----------------------------
EXTENDS HeartUse

W(f, a, n) == [fault |-> f, at |-> a, ticks |-> n, sleep |-> IF f = "tick_overrun" THEN 1 ELSE 0]

MCSchedules ==
    {<<>>,
     <<W("tick_failure", 2, 1), W("tick_failure", 1, 1), W("readiness_check", 1, 2),
       W("tick_overrun", 1, 1)>>,
     <<W("tick_failure", 1, 2), W("tick_failure", 2, 1)>>,
     <<W("tick_overrun", 0, 1)>>}

\* Reports of trouble are longer, the longest names the runs that are stalled.
MCItemCost ==
    [item \in ItemKinds |-> IF item.priority = 100 \/ item.name = "journal" THEN 2
                           ELSE IF item.priority = 50 THEN 3 ELSE 1]

State(id, expect, items) ==
    [id |-> id, expect |-> expect, items |-> items, idle |-> expect = "idle"]

Quiet == <<Item("uptime", 0)>>

Tick == <<State(1, "idle", Quiet), State(2, "act", Quiet),
          State(3, "escalate", <<Item("faults", 100), Item("uptime", 0)>>)>>

Request(id, expect) == [id |-> id, expect |-> expect, request |-> "text", cost |-> 2, idle |-> FALSE]

Triage == <<Request(1, "trivial"), Request(2, "tool-only"), Request(3, "complex")>>

E(n, cost) == [n |-> n, cost |-> cost]

Run(id, events, keep, cause) ==
    [id |-> id, events |-> events, must_keep |-> keep, failure_cause |-> cause]

Curation == <<Run(1, <<E(1, 1), E(2, 2), E(3, 1)>>, {2}, "timeout"),
              Run(2, <<E(2, 1), E(1, 3)>>, {1}, "denied")>>

Ask(id, runs, action, run) ==
    [id |-> id, job |-> "intervention", candidates |-> runs, action |-> action, run_id |-> run]

Why(id, events, cause, evidence) ==
    [id |-> id, job |-> "failure_cause", events |-> events, cause |-> cause,
     evidence |-> evidence]

Entitle(id, prompt, title) ==
    [id |-> id, job |-> "title", events |-> <<E(1, 1)>>, prompt |-> prompt, title |-> title]

Extraction == <<Ask(1, {"r1", "r2"}, "retry", "r1"), Entitle(2, "text", "text"),
                Why(3, <<E(1, 1), E(2, 1)>>, "timeout", 2)>>

Replace(lines, line) == <<line>> \o Tail(lines)

F(suite, lines) == [suite |-> suite, lines |-> lines]

\* The four suites, and files that break one rule each; the last fits no prompt.
MCFiles ==
    {F("tick", Tick), F("triage", Triage), F("curation", Curation),
     F("extraction", Extraction), F("extraction", <<Ask(1, {"r1"}, "none", Null)>>),
     F("tick", Replace(Tick, State(1, "idle", <<>>))),
     F("tick", <<>>), F("tick", Tail(Tick)),
     F("triage", Replace(Triage, Request(1, "odd"))),
     F("triage", Replace(Triage, Request(2, "trivial"))),
     F("curation", <<Run(1, <<E(1, 1), E(1, 1)>>, {1}, "timeout")>>),
     F("curation", <<Run(1, <<E(1, 1)>>, {2}, "timeout")>>),
     F("curation", <<Run(1, <<E(1, 1)>>, {1}, "")>>),
     F("extraction", <<Ask(1, {"r1"}, "retry", "r2")>>),
     F("extraction", <<Ask(1, {}, "none", Null)>>),
     F("extraction", <<Entitle(1, "", "text")>>),
     F("extraction", <<Why(1, <<E(1, 1)>>, "timeout", 2)>>),
     F("curation", <<Run(1, <<E(1, 5)>>, {1}, "timeout")>>)}

MCCurationReplies ==
    {<<>>, <<9>>, <<1>>, <<2>>, <<3, 1>>, <<1, 1, 2>>, <<9, 2, 9, 3>>, <<3, 2, 1>>}
=============================================================================
