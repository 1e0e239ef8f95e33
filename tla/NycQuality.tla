----------------------------- MODULE NycQuality -----------------------------
(***************************************************************************)
(* The NYC taxi quality job (spark-apps/nyc-taxi-data-quality).  One run   *)
(* captures the Bronze main snapshot, counts it, splits it into the Silver *)
(* clean and quarantine tables, captures the snapshot again and MERGEs     *)
(* eight facts under the run ID of (logical date, snapshot) into Gold.     *)
(* None of this is atomic: the ETL may replace Bronze at any point and any *)
(* store call may fail.                                                    *)
(*                                                                         *)
(* Airflow retries the task and an operator may run the logical date       *)
(* again.  The drivers run in cluster mode, so one that Airflow gave up on *)
(* goes on beside the next: all attempts' drivers interleave, and nothing  *)
(* but the tables tells them of each other.                                *)
(*                                                                         *)
(* A Bronze read runs on the table version loaded with the DataFrame or,   *)
(* when Spark refreshed the table, on the current one.  A Silver DataFrame *)
(* stays on the version it was loaded with: the session commits nothing to *)
(* that table afterwards that would refresh it.                            *)
(***************************************************************************)
EXTENDS Pipelines

CONSTANTS Grade,        \* publication -> how its rows measure up
          Attempts      \* drivers submitted for the logical date: tries, retries, reruns

ASSUME QualityAssumption ==
    Grade \in [1 .. MaxPublications -> {"empty", "pass", "warn", "fail"}]

VARIABLES quality,    \* driver -> its program counter and what it has read
          silver,     \* Silver table -> rows, run properties, the driver that committed last
          facts       \* Gold: run ID (its snapshot) -> rule -> fact

qualityVars == <<quality, silver, facts>>

BronzeRules == {"source_available", "schema", "snapshot_freshness", "invalid_ratio"}
SilverRules == {"partition_conservation", "clean_nonempty", "quarantine_ratio", "output_readback"}
Rules == BronzeRules \cup SilverRules

SilverTables == {"clean", "quarantine"}
Missing == 0     \* the run ID of a run that found no snapshot
Bronze == tables["nyc_taxi_trips"]

\* The run ID binds the logical date and the captured snapshot; one logical date.
QualityRunId(snapshot) == snapshot

QualityInit ==
    /\ quality = [k \in Attempts |->
                    [pc |-> "waiting", snapshot |-> Missing, loaded |-> NoVersion,
                     source |-> NoVersion, invalid |-> NoVersion, ratio |-> "none",
                     frame |-> [t \in SilverTables |-> NoVersion]]]
    /\ silver = [t \in SilverTables |-> [rows |-> NoVersion, run |-> Missing, writer |-> {}]]
    /\ facts = <<>>

QualityPc ==
    {"waiting", "captured", "loaded", "counted", "graded", "clean", "label_clean", "read_clean",
     "quarantine", "label_quarantine", "read_quarantine", "readback", "recheck", "merge", "merged",
     "done", "failed"}

QualityTypeOK ==
    /\ quality \in [Attempts -> [pc : QualityPc, snapshot : Nat, loaded : Version, source : Version,
                                 invalid : Version, ratio : {"none", "pass", "warn"},
                                 frame : [SilverTables -> Version]]]
    /\ silver \in [SilverTables -> [rows : Version, run : Nat, writer : SUBSET Attempts]]
    /\ \A r \in DOMAIN facts : DOMAIN facts[r] \subseteq Rules

-----------------------------------------------------------------------------
(* The store. *)

\* MERGE on (quality_run_id, rule_id): matched rows are updated, others inserted.
Merged(run, new) ==
    [r \in DOMAIN facts \cup {run} |->
        IF r # run THEN facts[r]
        ELSE LET old == IF run \in DOMAIN facts THEN facts[run] ELSE <<>>
             IN  [rule \in DOMAIN old \cup DOMAIN new |->
                    IF rule \in DOMAIN new THEN new[rule] ELSE old[rule]]]

\* A fact: its status and the version its metric was measured on.
Fact(status, version) == [status |-> status, version |-> version]
OneFact(rule, status, version) == [r \in {rule} |-> Fact(status, version)]

\* persistDiagnostic swallows a failing MERGE, so the facts may or may not land.
PersistDiagnostic(k, new) ==
    facts' \in {facts, Merged(QualityRunId(quality[k].snapshot), new)}

\* The driver moves on, or ends in QualityFailure.
Goto(k, pc) == quality' = [quality EXCEPT ![k].pc = pc]
FailWith(k, new) == PersistDiagnostic(k, new) /\ Goto(k, "failed")

\* The versions a Bronze action may run on.
BronzeReads(k) == {quality[k].loaded, Bronze}

-----------------------------------------------------------------------------
(* QualityPipeline.run, in driver k. *)

\* The sensor saw the ETL of the logical date succeed.
Submitted(k) ==
    /\ quality[k].pc = "waiting"
    /\ \E d \in Drivers : drivers[d].reported = "success"

\* The facts table is there and Bronze's snapshot is captured.
CaptureSource(k) ==
    /\ Submitted(k)
    /\ quality' = [quality EXCEPT ![k].pc = "captured", ![k].snapshot = Bronze.snapshot]
    /\ UNCHANGED <<silver, facts>>

\* No facts table and so no facts; or metadata unreadable, no snapshot or another
\* schema, which leaves facts of the run without a snapshot.
CaptureFails(k) ==
    /\ Submitted(k)
    /\ \/ Goto(k, "failed") /\ UNCHANGED facts
       \/ FailWith(k, OneFact("source_available", "missing", NoVersion))
       \/ FailWith(k, OneFact("source_available", "fail", NoVersion))
       \/ FailWith(k, OneFact("schema", "fail", NoVersion))
    /\ UNCHANGED silver

\* The snapshot is older than six hours at the end of the data interval.
SourceStale(k) ==
    /\ quality[k].pc = "captured"
    /\ FailWith(k, OneFact("snapshot_freshness", "stale", NoVersion))
    /\ UNCHANGED silver

\* readBronze loads the table: its version may be newer than the snapshot captured.
ReadBronze(k) ==
    /\ quality[k].pc = "captured"
    /\ quality' = [quality EXCEPT ![k].pc = "loaded", ![k].loaded = Bronze]
    /\ UNCHANGED <<silver, facts>>

\* bronze.count()
CountSource(k) ==
    /\ quality[k].pc = "loaded"
    /\ \E v \in BronzeReads(k) :
         IF Grade[v.content] = "empty"
           THEN FailWith(k, OneFact("source_available", "fail", v))
           ELSE /\ quality' = [quality EXCEPT ![k].pc = "counted", ![k].source = v]
                /\ UNCHANGED facts
    /\ UNCHANGED silver

BronzeFacts(k, invalid, status) ==
    [r \in BronzeRules |->
        CASE r = "source_available" -> Fact("pass", quality[k].source)
          [] r = "invalid_ratio"    -> Fact(status, invalid)
          [] OTHER                  -> Fact("pass", NoVersion)]

\* ratioStatus.  The counts of two different contents make an arbitrary ratio.
RatioStatuses(numerator, denominator) ==
    IF numerator.content = denominator.content THEN {Grade[numerator.content]}
                                               ELSE {"pass", "warn", "fail"}

\* invalidCount; past the fail threshold the run stops with the Bronze facts
\* as its diagnostics.
CountInvalid(k) ==
    /\ quality[k].pc = "counted"
    /\ \E v \in BronzeReads(k) : \E status \in RatioStatuses(v, quality[k].source) :
         IF status = "fail"
           THEN FailWith(k, BronzeFacts(k, v, "fail"))
           ELSE /\ quality' = [quality EXCEPT ![k].pc = "graded", ![k].invalid = v,
                                              ![k].ratio = status]
                /\ UNCHANGED facts
    /\ UNCHANGED silver

\* split and assertPartition: an independent read of Bronze on each side.
CheckPartition(k) ==
    /\ quality[k].pc = "graded"
    /\ \E v, w \in BronzeReads(k) :
         IF v.content = w.content
           THEN Goto(k, "clean") /\ UNCHANGED facts
           ELSE FailWith(k, OneFact("partition_conservation", "fail", NoVersion))
    /\ UNCHANGED silver

\* replaceSilver, first commit: the rows, with the properties of the old table.
ReplaceSilver(k, t) ==
    /\ quality[k].pc = t
    /\ \E v \in BronzeReads(k) : silver' = [silver EXCEPT ![t].rows = v, ![t].writer = {k}]
    /\ Goto(k, IF t = "clean" THEN "label_clean" ELSE "label_quarantine")
    /\ UNCHANGED facts

\* Mutant: the properties always go to the clean table.
LabelCleanOnly(k, t) ==
    /\ quality[k].pc = (IF t = "clean" THEN "label_clean" ELSE "label_quarantine")
    /\ silver' = [silver EXCEPT !["clean"].run = QualityRunId(quality[k].snapshot),
                                !["clean"].writer = {k}]
    /\ quality' = [quality EXCEPT ![k].pc = IF t = "clean" THEN "read_clean" ELSE "read_quarantine",
                                  ![k].frame[t] = silver[t].rows]
    /\ UNCHANGED facts

\* replaceSilver, second commit: the properties of this run, whoever wrote the
\* rows.  The driver's session knows the table as of this commit.
LabelSilver(k, t) ==
    /\ quality[k].pc = (IF t = "clean" THEN "label_clean" ELSE "label_quarantine")
    /\ silver' = [silver EXCEPT ![t].run = QualityRunId(quality[k].snapshot), ![t].writer = {k}]
    /\ quality' = [quality EXCEPT ![k].pc = IF t = "clean" THEN "read_clean" ELSE "read_quarantine",
                                  ![k].frame[t] = silver[t].rows]
    /\ UNCHANGED facts

\* readProperties compares the run properties, readSilver loads the table; each
\* sees the table as this driver left it or as it is now.
ReadSilver(k, t) ==
    /\ quality[k].pc = (IF t = "clean" THEN "read_clean" ELSE "read_quarantine")
    /\ \E seen \in {QualityRunId(quality[k].snapshot), silver[t].run} :
         IF seen = QualityRunId(quality[k].snapshot)
           THEN /\ \E v \in {quality[k].frame[t], silver[t].rows} :
                     quality' = [quality EXCEPT ![k].frame[t] = v,
                                     ![k].pc = IF t = "clean" THEN "quarantine" ELSE "readback"]
                /\ UNCHANGED facts
           ELSE FailWith(k, OneFact("output_readback", "fail", NoVersion))
    /\ UNCHANGED silver

\* assertPartition on the Silver tables as read back.
CheckSilver(k) ==
    /\ quality[k].pc = "readback"
    /\ \E v \in BronzeReads(k) :
         IF \A t \in SilverTables : quality[k].frame[t].content = v.content
           THEN Goto(k, "recheck") /\ UNCHANGED facts
           ELSE FailWith(k, OneFact("output_readback", "fail", NoVersion))
    /\ UNCHANGED silver

\* Mutant: Bronze only has to be there.
RecheckPresence(k) ==
    /\ quality[k].pc = "recheck"
    /\ Goto(k, "merge")
    /\ UNCHANGED <<silver, facts>>

\* captureSource again: the run stands only if Bronze is still at its snapshot.
RecheckSource(k) ==
    /\ quality[k].pc = "recheck"
    /\ IF Bronze.snapshot = quality[k].snapshot
         THEN Goto(k, "merge") /\ UNCHANGED facts
         ELSE FailWith(k, OneFact("output_readback", "fail", NoVersion))
    /\ UNCHANGED silver

SilverFacts(k, clean, ratio) ==
    [r \in SilverRules |->
        CASE r = "quarantine_ratio" -> Fact(ratio, quality[k].frame["quarantine"])
          [] r = "clean_nonempty"   -> Fact(clean, quality[k].frame["clean"])
          [] OTHER                  -> Fact("pass", NoVersion)]

AllFacts(k, clean, ratio) ==
    [r \in Rules |-> IF r \in BronzeRules THEN BronzeFacts(k, quality[k].invalid, quality[k].ratio)[r]
                                          ELSE SilverFacts(k, clean, ratio)[r]]

\* Without a clean row every row is quarantined, and that ratio fails too.
CleanStatuses(ratio) == IF ratio = "fail" THEN {"pass", "fail"} ELSE {"pass"}

\* All eight facts.  A failing overallStatus makes them diagnostics of a failed
\* run; otherwise they are MERGEd and then read back.
MergeFacts(k) ==
    /\ quality[k].pc = "merge"
    /\ \E ratio \in RatioStatuses(quality[k].frame["quarantine"], quality[k].source) :
         \E clean \in CleanStatuses(ratio) :
           IF ratio = "fail"
             THEN FailWith(k, AllFacts(k, clean, ratio))
             ELSE /\ facts' = Merged(QualityRunId(quality[k].snapshot), AllFacts(k, clean, ratio))
                  /\ Goto(k, "merged")
    /\ UNCHANGED silver

\* requireFactsReadback: exactly the intended rows under the run ID.
ReadFacts(k) ==
    /\ quality[k].pc = "merged"
    /\ LET stored == facts[QualityRunId(quality[k].snapshot)]
       IN  Goto(k, IF stored = AllFacts(k, "pass", stored["quarantine_ratio"].status)
                     THEN "done" ELSE "failed")
    /\ UNCHANGED <<silver, facts>>

\* The diagnostics of a call that throws, by the step that made it; the split,
\* the MERGE and the facts readback leave none.
StoreDiagnostics(k) ==
    CASE quality[k].pc = "captured" -> {OneFact("source_available", "fail", NoVersion)}
      [] quality[k].pc = "loaded"   -> {OneFact("schema", "fail", NoVersion),
                                        OneFact("source_available", "fail", NoVersion)}
      [] quality[k].pc = "counted"  -> {OneFact("invalid_ratio", "fail", NoVersion)}
      [] quality[k].pc = "graded"   -> {<<>>, OneFact("partition_conservation", "fail", NoVersion)}
      [] quality[k].pc \in {"merge", "merged"} -> {<<>>}
      [] OTHER                      -> {OneFact("output_readback", "fail", NoVersion)}

Running(k) == quality[k].pc \notin {"waiting", "done", "failed"}

StoreFails(k) ==
    /\ Running(k)
    /\ \E new \in StoreDiagnostics(k) :
         IF new = <<>> THEN Goto(k, "failed") /\ UNCHANGED facts ELSE FailWith(k, new)
    /\ UNCHANGED silver

\* The driver is killed: nothing more is written.
QualityKilled(k) ==
    /\ Running(k)
    /\ Goto(k, "failed")
    /\ UNCHANGED <<silver, facts>>

QualityStepOf(k) ==
    \/ CaptureSource(k) \/ CaptureFails(k) \/ SourceStale(k) \/ ReadBronze(k) \/ CountSource(k)
    \/ CountInvalid(k) \/ CheckPartition(k)
    \/ \E t \in SilverTables : ReplaceSilver(k, t) \/ LabelSilver(k, t) \/ ReadSilver(k, t)
    \/ CheckSilver(k) \/ RecheckSource(k) \/ MergeFacts(k) \/ ReadFacts(k)
    \/ StoreFails(k) \/ QualityKilled(k)

QualityNext == \E k \in Attempts : QualityStepOf(k)
=============================================================================
