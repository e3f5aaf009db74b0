------------------------------- MODULE HeartUse -------------------------------
(***************************************************************************)
(* The processes that use the Heart: the daemon, one tick after another;   *)
(* the bench command on a fixture file; and, once there are reports, the   *)
(* runs, renderers and publishers that store them.  No two of these share  *)
(* a variable: a behaviour is of one of them.                              *)
(***************************************************************************)
EXTENDS HeartBench, ReportStore

VARIABLE process

useVars == <<vars, benchVars, storeVars, process>>

NoBench ==
    /\ file = [suite |-> "none", lines |-> <<>>] /\ bpc = "none"
    /\ loaded = FALSE /\ brainOpen = FALSE /\ results = <<>> /\ verdict = "none"

NoDaemon == Init /\ schedule = <<>>

NoStore == StoreInit /\ writer = [r \in Reports |->
              [dir |-> CHOOSE d \in Dirs : TRUE, kind |-> "bench", pc |-> "new", n |-> 1,
               lost |-> FALSE]]

UseInit ==
    \/ process = "daemon" /\ Init /\ NoBench /\ NoStore
    \/ process = "bench" /\ NoDaemon /\ BenchInit /\ NoStore
    \/ process = "reports" /\ NoDaemon /\ NoBench /\ StoreInit

UseNext ==
    /\ UNCHANGED process
    /\ \/ process = "daemon" /\ Next /\ UNCHANGED <<benchVars, storeVars>>
       \/ process = "bench" /\ BenchNext /\ UNCHANGED <<vars, storeVars>>
       \/ process = "reports" /\ StoreNext /\ UNCHANGED <<vars, benchVars>>

\* As FairSpec: what a tick waits for comes.  No fairness for the commands.
UseSpec == UseInit /\ [][UseNext]_useVars /\ WF_vars(TickStep)

=============================================================================
