------------------------------ MODULE ReportStore ------------------------------
(***************************************************************************)
(* Where the reports of the Heart go.  A bench run writes its pair, .md    *)
(* and .json, over the pair of an earlier run of that day, model and       *)
(* variant, and uploads it beside the earlier ones; a soak report is given *)
(* a stem of its own when it is rendered; and publish uploads every local  *)
(* file whose key the bucket does not have.                                *)
(*                                                                         *)
(* All reports here are of one day, model and variant: their stems differ  *)
(* by the numeric suffix only, which is 1 for none.  A listing and an      *)
(* upload are a step each, and runs, renderers and publishers interleave.  *)
(***************************************************************************)
EXTENDS Integers, FiniteSets

CONSTANTS Dirs,        \* checkouts, each with its own docs/heart
          Reports,     \* report numbers, positive
          MaxFaults, MaxPublishes   \* bounds

ASSUME ReportsAssumption == Reports \subseteq Nat \ {0} /\ IsFiniteSet(Reports)

VARIABLES local,       \* the files of each checkout: a key, and the report it is of
          bucket,
          writer,      \* the run or the renderer of each report
          publisher,   \* publish in each checkout
          \* history and bounds
          beside,      \* two of them have been at work at once
          faults, publishes

storeVars == <<local, bucket, writer, publisher, beside, faults, publishes>>

Kinds == {"bench", "soak"}

Stems == 1 .. Cardinality(Reports) + 1

\* bench_key() and soak_key(), the latter of a top-level file.
Key(kind, n, ext) == [kind |-> kind, n |-> n, ext |-> ext]

NoPublisher == [pc |-> "off", kind |-> "bench", items |-> {}, existing |-> {}, failed |-> FALSE]

StoreInit ==
    /\ local = [d \in Dirs |-> {}]
    /\ bucket = {}
    /\ writer \in [Reports -> [dir : Dirs, kind : Kinds, pc : {"new"}, n : {1}, lost : {FALSE}]]
    /\ publisher = [d \in Dirs |-> NoPublisher]
    /\ beside = FALSE /\ faults = 0 /\ publishes = 0

Present(files) == {f.key : f \in files}

Written(files, key, report) ==
    {f \in files : f.key # key} \cup {[key |-> key, of |-> report]}

\* The report a present file is of.
Of(files, key) == (CHOOSE f \in files : f.key = key).of

\* Mutant: one of the two files is looked for.
FreeMutant(kind, taken) ==
    CHOOSE n \in Stems :
        /\ Key(kind, n, "json") \notin taken
        /\ \A m \in 1 .. n - 1 : Key(kind, m, "json") \in taken

\* next_available_stem(): the first with neither file taken.
Free(kind, taken) ==
    CHOOSE n \in Stems :
        /\ \A ext \in {"md", "json"} : Key(kind, n, ext) \notin taken
        /\ \A m \in 1 .. n - 1 : \E ext \in {"md", "json"} : Key(kind, m, ext) \in taken

Working(w, p) ==
    ({"writer"} \X {r \in Reports : w[r].pc \notin {"new", "done", "dead"}}) \cup
    ({"publisher"} \X {d \in Dirs : p[d].pc # "off"})

Noted == beside' = (beside \/ \E a, b \in Working(writer', publisher') : a # b)

-----------------------------------------------------------------------------
(* A bench run once its report is made, or a soak report being rendered    *)

Step(r, w) == writer' = [writer EXCEPT ![r] = w]

\* The stem of a bench report is never suffixed locally; a soak report takes a free one.
Name(r) ==
    /\ writer[r].pc = "new"
    /\ Step(r, [writer[r] EXCEPT !.pc = "md",
                   !.n = IF @ = 1 /\ writer[r].kind = "soak"
                         THEN Free("soak", Present(local[writer[r].dir])) ELSE 1])
    /\ UNCHANGED <<local, bucket, publisher, faults, publishes>>
    /\ Noted

WriteLocal(r, ext) ==
    LET w == writer[r] IN local' = [local EXCEPT ![w.dir] = Written(@, Key(w.kind, w.n, ext), r)]

WriteMd(r) ==
    /\ writer[r].pc = "md"
    /\ WriteLocal(r, "md")
    /\ Step(r, [writer[r] EXCEPT !.pc = "json"])
    /\ UNCHANGED <<bucket, publisher, beside, faults, publishes>>

\* Only a bench run goes on to upload what it wrote.
WriteJson(r) ==
    /\ writer[r].pc = "json"
    /\ WriteLocal(r, "json")
    /\ Step(r, [writer[r] EXCEPT !.pc = IF writer[r].kind = "bench" THEN "list" ELSE "done"])
    /\ UNCHANGED <<bucket, publisher, beside, faults, publishes>>

\* Mutant: the upload keeps the name of the local files.
ListMutant(r) ==
    /\ writer[r].pc = "list"
    /\ Step(r, [writer[r] EXCEPT !.pc = "put_md"])
    /\ UNCHANGED <<local, bucket, publisher, beside, faults, publishes>>

\* existing_keys() and next_available_stem(); the local files keep their name.
List(r) ==
    /\ writer[r].pc = "list"
    /\ Step(r, [writer[r] EXCEPT !.pc = "put_md", !.n = Free("bench", Present(bucket))])
    /\ UNCHANGED <<local, bucket, publisher, beside, faults, publishes>>

\* upload() reads the local file when it is called.
Put(r, ext, next) ==
    /\ bucket' = Written(bucket, Key("bench", writer[r].n, ext),
                         Of(local[writer[r].dir], Key("bench", 1, ext)))
    /\ Step(r, [writer[r] EXCEPT !.pc = next])
    /\ UNCHANGED <<local, publisher, beside, faults, publishes>>

PutMd(r) == writer[r].pc = "put_md" /\ Put(r, "md", "put_json")

PutJson(r) == writer[r].pc = "put_json" /\ Put(r, "json", "done")

\* No [telemetry.s3], no bucket, or an upload that fails: a warning, and the run is over.
UploadFails(r) ==
    /\ writer[r].pc \in {"list", "put_md", "put_json"} /\ faults < MaxFaults
    /\ Step(r, [writer[r] EXCEPT !.pc = "done", !.lost = TRUE])
    /\ faults' = faults + 1
    /\ UNCHANGED <<local, bucket, publisher, beside, publishes>>

\* The process is killed between two writes.
Kill(r) ==
    /\ writer[r].pc \in {"md", "json", "list", "put_md", "put_json"} /\ faults < MaxFaults
    /\ Step(r, [writer[r] EXCEPT !.pc = "dead"])
    /\ faults' = faults + 1
    /\ UNCHANGED <<local, bucket, publisher, beside, publishes>>

-----------------------------------------------------------------------------
(* publish                                                                 *)

Publish(d, p) == publisher' = [publisher EXCEPT ![d] = p]

\* _collect_bench_items() and _collect_soak_items()
CollectItems(d) ==
    /\ publisher[d].pc = "off" /\ publishes < MaxPublishes
    /\ Publish(d, [NoPublisher EXCEPT !.pc = "list", !.items = Present(local[d])])
    /\ publishes' = publishes + 1
    /\ UNCHANGED <<local, bucket, writer, faults>>
    /\ Noted

Items(d) == {k \in publisher[d].items : k.kind = publisher[d].kind}

\* _publish_kind(): one listing, and what it has is not uploaded again.
ListKind(d) ==
    /\ publisher[d].pc = "list"
    /\ Publish(d, [publisher[d] EXCEPT !.pc = "items", !.existing = Present(bucket)])
    /\ UNCHANGED <<local, bucket, writer, beside, faults, publishes>>

Remaining(d) == Items(d) \ publisher[d].existing

Without(d, k) == [publisher[d] EXCEPT !.items = @ \ {k}]

Upload(d) ==
    /\ publisher[d].pc = "items"
    /\ \E k \in Remaining(d) :
          /\ bucket' = Written(bucket, k, Of(local[d], k))
          /\ Publish(d, Without(d, k))
    /\ UNCHANGED <<local, writer, beside, faults, publishes>>

\* One that fails is counted, and the next is tried.
UploadItemFails(d) ==
    /\ publisher[d].pc = "items" /\ faults < MaxFaults
    /\ \E k \in Remaining(d) : Publish(d, [Without(d, k) EXCEPT !.failed = TRUE])
    /\ faults' = faults + 1
    /\ UNCHANGED <<local, bucket, writer, beside, publishes>>

\* Bench reports are published first, then those of the soaks.
AfterKind(p) ==
    IF p.kind = "bench" THEN [p EXCEPT !.pc = "list", !.kind = "soak", !.existing = {}]
    ELSE [p EXCEPT !.pc = "contract", !.existing = {}]

\* A listing that fails fails every file of the kind.
ListKindFails(d) ==
    /\ publisher[d].pc = "list" /\ faults < MaxFaults
    /\ Publish(d, AfterKind([publisher[d] EXCEPT !.failed = @ \/ Items(d) # {}]))
    /\ faults' = faults + 1
    /\ UNCHANGED <<local, bucket, writer, beside, publishes>>

KindDone(d) ==
    /\ publisher[d].pc = "items" /\ Remaining(d) = {}
    /\ Publish(d, AfterKind(publisher[d]))
    /\ UNCHANGED <<local, bucket, writer, beside, faults, publishes>>

\* _publish_contract(), the schema under its own key, and the exit code.
Exit(d) ==
    /\ publisher[d].pc = "contract"
    /\ \E contractFails \in BOOLEAN :
          Publish(d, IF publisher[d].failed \/ contractFails THEN NoPublisher
                     ELSE [NoPublisher EXCEPT !.pc = "published"])
    /\ UNCHANGED <<local, bucket, writer, beside, faults, publishes>>

Return(d) ==
    /\ publisher[d].pc = "published"
    /\ Publish(d, NoPublisher)
    /\ UNCHANGED <<local, bucket, writer, beside, faults, publishes>>

StoreNext ==
    \/ \E r \in Reports : \/ Name(r) \/ WriteMd(r) \/ WriteJson(r) \/ List(r)
                          \/ PutMd(r) \/ PutJson(r) \/ UploadFails(r) \/ Kill(r)
    \/ \E d \in Dirs : \/ CollectItems(d) \/ ListKind(d) \/ ListKindFails(d) \/ Upload(d)
                       \/ UploadItemFails(d) \/ KindDone(d) \/ Exit(d) \/ Return(d)

-----------------------------------------------------------------------------
(* Properties                                                              *)

\* "A second run on the same day never silently overwrites the first": what is in the
\* bucket is replaced only by one that listed it while another was at work
\* (_upload_report_pair, _publish_kind).
OverwriteOnlyByRace == [][bucket \subseteq bucket' \/ beside]_storeVars

\* The two files under one stem are of one report, unless something was cut off or two
\* were at work at once.
PairsOfOneReport ==
    \A f, g \in bucket :
        f.key.kind = g.key.kind /\ f.key.n = g.key.n => f.of = g.of \/ beside \/ faults > 0

\* A publish that returns 0 leaves a key in the bucket for every file of the checkout.
PublishedIsThere ==
    \A d \in Dirs : publisher[d].pc = "published" =>
        beside \/ Present(local[d]) \subseteq Present(bucket)

\* No finished report is lost: a bench report is in the bucket whole unless its upload
\* failed, a soak report is in its checkout, whatever is written there later.
FinishedIsKept ==
    \A r \in Reports : writer[r].pc = "done" /\ ~writer[r].lost /\ ~beside =>
        LET files == IF writer[r].kind = "bench" THEN bucket ELSE local[writer[r].dir] IN
        \A ext \in {"md", "json"} :
            [key |-> Key(writer[r].kind, writer[r].n, ext), of |-> r] \in files

\* What a reader of the bucket counts on after any run, rendering and publish.
ReportsSound == PairsOfOneReport /\ PublishedIsThere /\ FinishedIsKept

=============================================================================
