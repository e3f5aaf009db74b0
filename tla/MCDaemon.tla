------------------------------ MODULE MCDaemon ------------------------------
EXTENDS Daemon, TLC

CONSTANTS p1, p2

(* p1 is the newer build, p2 the older.                                    *)
MCBundled == (p1 :> 1..2) @@ (p2 :> 1..1)

From(flag, env, toml) == [flag |-> flag, env |-> env, toml |-> toml]
Only(source) == (p1 :> source) @@ (p2 :> NoLaunch)
Plan(source, boots, failures, stops, observed, time) ==
  [source |-> source, launches |-> boots, faults |-> failures,
   signals |-> stops, observed |-> observed, time |-> time]

Full ==
  From(TRUE,
       [s3Given |-> {"access_key_id", "secret_access_key"}, key |-> "k1"],
       [heart |-> TRUE, brain |-> TRUE, telemetry |-> TRUE, s3 |-> TRUE,
        s3Given |-> {"bucket"}, opencode |-> TRUE])

Spools ==
  [telemetry |-> TRUE, max_file_bytes |-> 2, max_spool_bytes |-> 4, retention |-> 2]
Traces == [opencode |-> TRUE] @@ Spools

Bare  == From(FALSE, <<>>, <<>>)
Keyed == From(FALSE, [key |-> "k1"], <<>>)
Rekeyed == From(FALSE, [key |-> "k2"], <<>>)
Refused == {[key |-> "k1"], [opencode |-> TRUE],
            [telemetry |-> TRUE, max_file_bytes |-> 9, max_spool_bytes |-> 3]}

(* The whole daemon; its telemetry; bare ones of two builds, one after or  *)
(* beside the other, without a key, with one, and with another; settings   *)
(* that do not load.                                                       *)
MCPlans ==
  {Plan(Only(Full), 2, 1, 2, FALSE, 0),
   Plan(Only(From(FALSE, <<>>, Spools)), 2, 0, 1, TRUE, 3),
   Plan(Only(From(FALSE, <<>>, Traces)), 1, 0, 0, TRUE, 0)}
    \cup {Plan(source, 3, 1, 1, FALSE, 0) :
            source \in [{p1, p2} -> {Bare, Keyed}] \cup {(p1 :> Keyed) @@ (p2 :> Rekeyed)}}
    \cup {Plan(Only(From(FALSE, <<>>, toml)), 1, 0, 0, TRUE, 0) : toml \in Refused}

MCResolutions ==
  {[found |-> FALSE, effective |-> <<>>],
   [found |-> TRUE, effective |-> <<>>],
   [found |-> TRUE, effective |-> [read |-> "allow", edit |-> "allow"]],
   [found |-> TRUE, effective |-> [read |-> "allow", webfetch |-> "allow"]],
   [found |-> TRUE, effective |-> [read |-> "allow", bash |-> "globs_with_ask"]]}
=============================================================================
