------------------------------ MODULE Telemetry ------------------------------
(***************************************************************************)
(* What a serving daemon leaves on disk: the spool of telemetry/rotation.py *)
(* with one family of files per writer, the interval sampler that fills one *)
(* family, and the trace of the OpenCode runs that fills another.          *)
(***************************************************************************)
EXTENDS Settings, SequencesExt

CONSTANTS
  Runs,        \* OpenCode runs of one daemon
  LineBytes,   \* the sizes a line can have
  MaxLines,    \* lines written, over all families
  MaxWriteErrors

(* A line is a JSON object and its newline.                                *)
ASSUME LineAssumption == LineBytes \subseteq Nat \ {0}

Samples  == "samples"
Opencode == "opencode"
Families == {Samples, Opencode}

VARIABLES
  spool,       \* family -> the files of its name in the spool directory
  clock,       \* the wall clock
  status,      \* run -> where the service is with it
  counters,    \* OpencodeTelemetryWriter._seq_by_run
  trace,       \* lines numbered so far, those a failed write lost included
  written,     \* number of lines written (bound)
  errors       \* number of failed writes (bound)

spoolVars == <<spool, clock, written, errors>>
traceVars == <<status, counters, trace>>
telemetryVars == <<spoolVars, traceVars>>

TelemetryInit ==
  /\ spool = [f \in Families |-> {}]
  /\ clock = 0
  /\ status = [r \in Runs |-> "none"]
  /\ counters = <<>>
  /\ trace = {}
  /\ written = 0
  /\ errors = 0

-----------------------------------------------------------------------------
(* The spool.  A file is known by its name: the active one, or the time and *)
(* counter its rotation put in its name.                                   *)
ActiveName == <<>>
IsActive(file) == file.name = ActiveName
Rotated(files) == {f \in files : ~IsActive(f)}

(* The sum of the sizes: as many as there are bytes of files.              *)
Bytes(files) == Cardinality(UNION {{f} \X (1..f.size) : f \in files})

ActiveSize(files) == Bytes({f \in files : IsActive(f)})

FreeCounter(files) ==
  CHOOSE k \in 0..Cardinality(files) :
    /\ \A f \in files : f.name # <<clock, k>>
    /\ \A j \in 0..(k - 1) : \E f \in files : f.name = <<clock, j>>

RotateIfFull(c, files) ==
  IF ActiveSize(files) < c.max_file_bytes THEN files
  ELSE {IF IsActive(f) THEN [f EXCEPT !.name = <<clock, FreeCounter(files)>>]
        ELSE f : f \in files}

Appended(files, size) ==
  Rotated(files)
    \cup {[name |-> ActiveName, size |-> ActiveSize(files) + size, mtime |-> clock]}

Unexpired(c, files) ==
  {f \in files : IsActive(f) \/ f.mtime >= clock - c.retention}

(* What the pass over the survivors has left when it comes to the i-th, if *)
(* it has deleted every rotated file before.                               *)
LeftAt(order, i) ==
  {order[j] : j \in {j \in DOMAIN order : j >= i \/ IsActive(order[j])}}

(* The pass deletes a rotated file when what is left is over the budget,   *)
(* and ends at the first that finds it within.                             *)
WithinBudget(c, order) ==
  {order[i] : i \in {i \in DOMAIN order :
                       \/ IsActive(order[i])
                       \/ Bytes(LeftAt(order, i)) <= c.max_spool_bytes}}

(* Mutant: the newest come first.                                          *)
ByAgeMutant(files) ==
  {order \in SetToSeqs(files) :
     \A i, j \in DOMAIN order : i < j => order[i].mtime >= order[j].mtime}

(* The survivors in the order of their mtime, ties in any order.           *)
ByAge(files) ==
  {order \in SetToSeqs(files) :
     \A i, j \in DOMAIN order : i < j => order[i].mtime <= order[j].mtime}

(* A line: the active file is rotated when it is full, the line appended,  *)
(* and the family swept, first by age and then to its budget.              *)
Swept(c, files) ==
  {WithinBudget(c, order) : order \in ByAge(Unexpired(c, files))}

WriteLine(c, family, size) ==
  /\ written < MaxLines
  /\ written' = written + 1
  /\ \E left \in Swept(c, Appended(RotateIfFull(c, spool[family]), size)) :
       spool' = [spool EXCEPT ![family] = left]
  /\ UNCHANGED <<clock, errors>>

(* A sweep that stops short has deleted some of the expired files, or them *)
(* and those the budget deletes before the i-th.                           *)
StoppedAt(c, order, i) ==
  {order[j] : j \in {j \in DOMAIN order :
                       j >= i \/ order[j] \in WithinBudget(c, order)}}

HalfSwept(c, files) ==
  {files \ gone : gone \in SUBSET (files \ Unexpired(c, files))}
    \cup UNION {{StoppedAt(c, order, i) : i \in DOMAIN order}
                 : order \in ByAge(Unexpired(c, files))}

(* What a write that does not come to its end leaves: nothing done, the    *)
(* file rotated, a new one opened, part of the line written, or the whole  *)
(* of it and a sweep that stopped short.  It raises (a full disk, a        *)
(* permission, a file that another cleanup took) and every caller swallows *)
(* that; a process killed in one leaves the same.                          *)
CutShort(c, files, size) ==
  LET ready == RotateIfFull(c, files)
  IN  {files, ready}
        \cup {Appended(ready, part) :
                part \in {n \in 0..(size - 1) : n = 0 => Rotated(ready) = ready}}
        \cup HalfSwept(c, Appended(ready, size))

WriteFails(c, family, size) ==
  /\ errors < MaxWriteErrors
  /\ errors' = errors + 1
  /\ \E left \in CutShort(c, spool[family], size) :
       spool' = [spool EXCEPT ![family] = left]
  /\ UNCHANGED <<clock, written>>

Write(c, family) ==
  \E size \in LineBytes : WriteLine(c, family, size) \/ WriteFails(c, family, size)

(* The sampler's task takes its sample at each interval, whatever the last *)
(* one ended with.                                                         *)
Sample(c) == Write(c, Samples) /\ UNCHANGED traceVars

Later(limit) ==
  /\ clock < limit
  /\ clock' = clock + 1
  /\ UNCHANGED <<spool, written, errors, traceVars>>

-----------------------------------------------------------------------------
(* The trace of a run: every line takes the run's next number before it is *)
(* written, and a terminal line forgets the counter.                       *)
NextSeq(r) == IF r \in DOMAIN counters THEN counters[r] ELSE 0

(* Mutant: an intervention takes no number of its own.                     *)
CountedSideMutant(r, event) ==
  IF event = "terminal"
  THEN [x \in DOMAIN counters \ {r} |-> counters[x]]
  ELSE IF event = "intervention" THEN counters
  ELSE Over([x \in {r} |-> NextSeq(r) + 1], counters)

Counted(r, event) ==
  IF event = "terminal"
  THEN [x \in DOMAIN counters \ {r} |-> counters[x]]
  ELSE Over([x \in {r} |-> NextSeq(r) + 1], counters)

Line(r, event) ==
  [run |-> r, seq |-> NextSeq(r), event |-> event, late |-> status[r] = "ended"]

Record(c, r, event) ==
  /\ Write(c, Opencode)
  /\ trace' = trace \cup {Line(r, event)}
  /\ counters' = Counted(r, event)

Submit(c, r) ==
  /\ status[r] = "none"
  /\ Record(c, r, "submitted")
  /\ status' = [status EXCEPT ![r] = "queued"]

Start(c, r) ==
  /\ status[r] = "queued"
  /\ Record(c, r, "started")
  /\ status' = [status EXCEPT ![r] = "running"]

RunEvent(c, r) ==
  /\ status[r] = "running"
  /\ Record(c, r, "run_event")
  /\ UNCHANGED status

(* The outcome of the runner, or the cancellation of a task that had begun. *)
Outcome(c, r) ==
  /\ status[r] \in {"queued", "running"}
  /\ Record(c, r, "terminal")
  /\ status' = [status EXCEPT ![r] = "ended"]

(* A task cancelled before its first step, or one whose database update    *)
(* raised, leaves no terminal line.                                        *)
Abandoned(r) ==
  /\ status[r] \in {"queued", "running"}
  /\ status' = [status EXCEPT ![r] = "ended"]
  /\ UNCHANGED <<spoolVars, counters, trace>>

(* An intervention is recorded against the run it was about: a nudge or a  *)
(* compact of a running one, a retry of one that has failed.               *)
Intervene(c, r) ==
  /\ status[r] \in {"running", "ended"}
  /\ Record(c, r, "intervention")
  /\ UNCHANGED status

(* The daemon's memory goes with its process; the spool stays.             *)
Forget ==
  /\ status' = [r \in Runs |-> IF status[r] = "none" THEN "none" ELSE "ended"]
  /\ counters' = <<>>
  /\ UNCHANGED <<spoolVars, trace>>

Traced(c) ==
  \E r \in Runs :
    \/ Submit(c, r)
    \/ Start(c, r)
    \/ RunEvent(c, r)
    \/ Outcome(c, r)
    \/ Abandoned(r)
    \/ Intervene(c, r)

-----------------------------------------------------------------------------
(* After the write of a line its family is over the budget by less than    *)
(* that line, whatever the writes before it left behind: the active file   *)
(* is never deleted, and the settings refuse a file size over the budget.  *)
(* A write that is cut short adds no more than its line (rotation.py:66,   *)
(* settings.py:799).                                                       *)
Bounded(c) ==
  \A f \in Families :
    spool'[f] # spool[f] =>
      \E size \in LineBytes :
        IF errors' = errors
        THEN Bytes(spool'[f]) < c.max_spool_bytes + size
        ELSE Bytes(spool'[f]) <= Bytes(spool[f]) + size

(* What the budget deletes is older than every rotated file it keeps, and  *)
(* no more is deleted than the budget asks for, wherever the sweep stops   *)
(* (rotation.py:129).                                                      *)
OldestGo(c) ==
  \A fam \in Families :
    LET gone == {f \in Rotated(RotateIfFull(c, spool[fam])) :
                   /\ f \notin spool'[fam]
                   /\ f.mtime >= clock - c.retention}
    IN  spool'[fam] # spool[fam] /\ gone # {} =>
          /\ \A d \in gone, k \in Rotated(spool'[fam]) : d.mtime <= k.mtime
          /\ \E d \in gone : Bytes(spool'[fam]) + d.size > c.max_spool_bytes

(* The lines of a run are numbered 0, 1, 2... up to its last, so that a    *)
(* line whose write failed is a gap a reader can see (opencode/telemetry.py *)
(* :294).  Interventions on a run that has ended are apart: they find no   *)
(* counter and number from 0 again.                                        *)
GapsAreLosses ==
  \A r \in Runs :
    LET lines == {l \in trace : l.run = r /\ ~l.late}
    IN  {l.seq : l \in lines} = 0..(Cardinality(lines) - 1)

(* The counter of a run is dropped with its terminal line and comes back   *)
(* only for an intervention after it (opencode/telemetry.py:298).          *)
EndedAreForgotten ==
  \A r \in DOMAIN counters :
    \/ \A l \in trace : l.run = r => l.event # "terminal"
    \/ \E l \in trace : l.run = r /\ l.late /\ l.event = "intervention"

(* What a reader of the trace can conclude from the numbers of a run.      *)
TraceSound == GapsAreLosses /\ EndedAreForgotten
=============================================================================
