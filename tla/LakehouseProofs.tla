--------------------------- MODULE LakehouseProofs ---------------------------
(***************************************************************************)
(* The safety of the lakehouse readers for every number of drivers,        *)
(* publications, pages, attempts and runs: an artifact and an accepted set *)
(* of facts describe the snapshot they name, a reported success leaves the *)
(* Silver tables of its run, and no query is left behind in Trino.         *)
(*                                                                         *)
(* All of it rests on snapshot numbers that only grow: a reader that finds *)
(* a table at one snapshot before and after its work has worked on that    *)
(* snapshot.                                                               *)
(***************************************************************************)
EXTENDS Lakehouse, TLAPS

-----------------------------------------------------------------------------
(* The inductive invariants.                                                *)

\* A driver that has resolved works on a publication; a table holds one, and
\* a star-schema table says which.
PipelinesInv ==
    /\ PipelinesTypeOK
    /\ \A k \in Drivers : drivers[k].pc \in {"resolved", "dimension", "fact"} =>
           drivers[k].res \in 1 .. MaxPublications
    /\ \A t \in AllTables : tables[t].snapshot > 0 /\ tables[t].content \in 1 .. MaxPublications
    /\ \A t \in TpchTables : tables[t].props = tables[t].content

\* What a commit of a driver does to a table.
TableMoves(t) ==
    \/ tables'[t] = tables[t]
    \/ tables'[t].snapshot > tables[t].snapshot

\* The DELETE of the query left last went where its newest answer said.
CancelInv ==
    /\ abandoned \in [running : BOOLEAN, named : Nat \cup {Refused}, deleted : Nat]
    /\ abandoned.deleted = IF abandoned.running /\ abandoned.named # Refused
                             THEN abandoned.named ELSE NoUri

\* The client's state of its query, beside Trino's.
ClientInv ==
    /\ query \in [pc : {"idle", "next", "waiting"}, uri : Nat, seen : SUBSET Nat, cancel : Nat,
                  pages : 0 .. MaxPages, rows : 0 .. RowParts]
    /\ query.seen \subseteq 0 .. query.uri
    /\ query.pc # "waiting" => query.uri \notin query.seen
    /\ query.pc = "waiting" => query.pages < MaxPages
    /\ query.cancel \in {NoUri, query.uri}
    /\ CancelInv

\* A result of the script: the versions read, unless it only read columns.
ResultType == [read : [SourceTables -> Version] \cup {<<>>}, rows : 0 .. RowParts]

\* The task's script and where it stands.
ScriptInv ==
    /\ bi \in [pc : {"ready", "query", "done", "failed"}, attempt : 1 .. MaxAttempts,
               results : Seq(ResultType)]
    /\ Len(bi.results) <= Len(Script)
    /\ bi.pc = "query" <=> query.pc # "idle"
    /\ bi.pc = "query" => Step <= Len(Script)
    /\ query.pc = "idle" => server = NoServer
    /\ server = [read |-> server.read, sent |-> query.rows, named |-> query.cancel]
    /\ server.read \in [DOMAIN server.read -> Version]
    /\ \/ server.read = <<>>
       \/ query.pc # "idle" /\ DOMAIN server.read \subseteq TablesRead /\ DOMAIN server.read # {}
    /\ \A i \in 1 .. Len(bi.results) :
           /\ bi.results[i].rows = RowParts
           /\ bi.results[i].read \in IF Script[i] = "schemas" THEN {<<>>} ELSE [SourceTables -> Version]

\* The steps of the script whose results are compared.
SnapshotStep == IF dataset = "tpch" THEN 2 ELSE 1
TotalsStep == SnapshotStep + 2
SegmentsStep == SnapshotStep + 3
PropertiesStep == 6      \* the second time, of the TPC-H script
LastStep == Len(Script)

\* What step i has read of table t, if it has.
Known(i, t) == i \in 1 .. Len(bi.results) \/ (i = Step /\ t \in DOMAIN server.read)
Seen(i, t) == IF i <= Len(bi.results) THEN bi.results[i].read[t] ELSE server.read[t]

\* The readings of a table, in the order of the script, are of ever newer
\* snapshots; and as long as the table is where the rows were read, the
\* properties read since are those of the rows.
Ordered(t) ==
    /\ Known(SnapshotStep, t) => Seen(SnapshotStep, t).snapshot <= tables[t].snapshot
    /\ Known(TotalsStep, t) =>
           /\ Seen(SnapshotStep, t).snapshot <= Seen(TotalsStep, t).snapshot
           /\ Seen(TotalsStep, t).snapshot <= tables[t].snapshot
    /\ Known(SegmentsStep, t) =>
           /\ Seen(TotalsStep, t).snapshot <= Seen(SegmentsStep, t).snapshot
           /\ Seen(SegmentsStep, t).snapshot <= tables[t].snapshot
           /\ Seen(SegmentsStep, t).snapshot = tables[t].snapshot =>
                  Seen(SegmentsStep, t) = tables[t]
           /\ dataset = "tpch" => Seen(SegmentsStep, t).content = Seen(SegmentsStep, t).props
    /\ dataset = "tpch" /\ Known(PropertiesStep, t)
           /\ Seen(SegmentsStep, t).snapshot = tables[t].snapshot =>
                  Seen(PropertiesStep, t).props = Seen(SegmentsStep, t).props
    /\ Known(LastStep, t) =>
           /\ Seen(SegmentsStep, t).snapshot <= Seen(LastStep, t).snapshot
           /\ Seen(LastStep, t).snapshot <= tables[t].snapshot
           /\ dataset = "tpch" /\ Seen(SegmentsStep, t).snapshot = Seen(LastStep, t).snapshot =>
                  Seen(PropertiesStep, t).props = Seen(SegmentsStep, t).props

\* The first properties of the script agree on the publication.
OnePublication ==
    dataset = "tpch" /\ Len(bi.results) > 0 =>
        bi.results[1].read["dim_customer"].props = bi.results[1].read["fct_orders"].props

BiInv ==
    /\ ClientInv /\ ScriptInv /\ OnePublication /\ ArtifactMatchesSource
    /\ \A t \in SourceTables : Ordered(t)

\* The program counters of a quality driver, each set with those after it.
Rechecked == {"merge", "merged", "done"}
Checked == Rechecked \cup {"recheck"}
Labelled == [t \in SilverTables |->
    IF t = "quarantine" THEN Checked \cup {"read_quarantine", "readback"}
    ELSE Checked \cup {"read_clean", "quarantine", "label_quarantine", "read_quarantine", "readback"}]
AfterGrade == Labelled["clean"] \cup {"graded", "clean", "label_clean"}
AfterCount == AfterGrade \cup {"counted"}
AfterLoad == AfterCount \cup {"loaded"}
AfterCapture == AfterLoad \cup {"captured"}

RunType == [pc : QualityPc, snapshot : Nat, loaded : Version, source : Version, invalid : Version,
            ratio : {"none", "pass", "warn"}, frame : [SilverTables -> Version]]

\* As long as Bronze is at the driver's snapshot, everything it has read is that
\* version; once this was found so after the last read, it stays on record.
SoundRun(q) ==
    /\ q \in RunType
    /\ q.pc \in AfterCapture => q.snapshot <= Bronze.snapshot
    /\ q.pc \in AfterLoad => q.loaded.content \in 1 .. MaxPublications
    /\ q.pc \in AfterCount => /\ q.source.content \in 1 .. MaxPublications
                              /\ Grade[q.source.content] # "empty"
    /\ q.snapshot = Bronze.snapshot =>
           /\ q.pc \in AfterLoad => q.loaded = Bronze
           /\ q.pc \in AfterCount => q.source = Bronze
           /\ q.pc \in AfterGrade => q.invalid = Bronze
           /\ q.pc \in Checked => \A t \in SilverTables : q.frame[t].content = Bronze.content
    /\ q.pc \in Rechecked =>
           /\ q.source.snapshot = q.snapshot /\ q.invalid.snapshot = q.snapshot
           /\ \A t \in SilverTables : q.frame[t].content = q.source.content

RunsInv ==
    /\ quality \in [Attempts -> RunType]
    /\ \A k \in Attempts : SoundRun(quality[k])

\* A table whose last commit is a driver's label is as that driver knows it.
SilverInv ==
    /\ silver \in [SilverTables -> [rows : Version, run : Nat, writer : SUBSET Attempts]]
    /\ \A k \in Attempts, t \in SilverTables :
           silver[t].writer = {k} /\ quality[k].pc \in Labelled[t] =>
               silver[t].run = quality[k].snapshot /\ silver[t].rows = quality[k].frame[t]

Accepted == {"pass", "warn"}
Measured == {"source_available", "invalid_ratio", "clean_nonempty", "quarantine_ratio"}

\* When every metric stands accepted, they are of one snapshot's content.
Described(stored, run) ==
    (Measured \subseteq DOMAIN stored /\ \A r \in Measured : stored[r].status \in Accepted) =>
        /\ stored["source_available"].version.snapshot = run
        /\ stored["invalid_ratio"].version.snapshot = run
        /\ \A r \in {"clean_nonempty", "quarantine_ratio"} :
               stored[r].version.content = stored["source_available"].version.content

FactsInv ==
    \A run \in DOMAIN facts :
        run \in Nat /\ DOMAIN facts[run] \subseteq Rules /\ Described(facts[run], run)

QualityInv == RunsInv /\ SilverInv /\ FactsInv

LakehouseInv == PipelinesInv /\ BiInv /\ QualityInv
-----------------------------------------------------------------------------
(* The pipelines.                                                           *)

\* An attempt of a driver; one that has resolved holds a publication.
SoundAttempt(d) ==
    /\ d \in [pc : {"waiting", "resolved", "dimension", "fact", "ended"},
              res : 0 .. MaxPublications, reported : {"running", "success", "failed"}]
    /\ d.pc \in {"resolved", "dimension", "fact"} => d.res \in 1 .. MaxPublications

\* The steps an attempt takes.
LEMMA AttemptSteps ==
  ASSUME NEW d, SoundAttempt(d), NEW p \in 1 .. MaxPublications,
         NEW r \in {"running", "success", "failed"}, NEW e,
         \/ e = d
         \/ e = [d EXCEPT !.reported = "failed"]
         \/ e = [d EXCEPT !.pc = "resolved", !.res = p]
         \/ e = [d EXCEPT !.pc = "ended", !.reported = r]
         \/ d.pc = "resolved" /\ e = [d EXCEPT !.pc = "dimension"]
         \/ d.pc = "dimension" /\ e = [d EXCEPT !.pc = "fact"]
  PROVE  SoundAttempt(e)
<1>1. MaxPublications \in Nat \ {0}
  BY PipelinesAssumption
<1>2. d.pc \in {"resolved", "dimension"} => d.res \in 1 .. MaxPublications
  BY DEF SoundAttempt
<1>3. \/ e = d
      \/ e = [pc |-> d.pc, res |-> d.res, reported |-> "failed"]
      \/ e = [pc |-> "resolved", res |-> p, reported |-> d.reported]
      \/ e = [pc |-> "ended", res |-> d.res, reported |-> r]
      \/ d.pc = "resolved" /\ e = [pc |-> "dimension", res |-> d.res, reported |-> d.reported]
      \/ d.pc = "dimension" /\ e = [pc |-> "fact", res |-> d.res, reported |-> d.reported]
  BY DEF SoundAttempt
<1> QED
  BY <1>1, <1>2, <1>3 DEF SoundAttempt

\* An answer of the resolver, whole or damaged, names a publication.
LEMMA AnswerPublication ==
  ASSUME NEW answer \in Answers
  PROVE  answer.publication \in 1 .. MaxPublications
<1> DEFINE exact(p, s) == [scale |-> s, publication |-> p, names |-> ExpectedNames(s),
                           smallest |-> 1, schemas |-> TRUE, generations |-> {p}]
           documents(p, s) ==
               {exact(p, s), [exact(p, s) EXCEPT !.names = @ - 1],
                [exact(p, s) EXCEPT !.generations = @ \cup {0}],
                [exact(p, s) EXCEPT !.smallest = 0], [exact(p, s) EXCEPT !.schemas = FALSE]}
<1>1. Answers = UNION {documents(p, s) : p \in 1 .. MaxPublications, s \in Scales}
  BY DEF Answers
<1>2. \A p \in 1 .. MaxPublications, s \in Scales : \A d \in documents(p, s) : d.publication = p
  OBVIOUS
<1> HIDE DEF documents
<1> QED
  BY <1>1, <1>2

\* Every step keeps what the pipelines promise, and a table only moves on.
LEMMA PipelinesKeep ==
  ASSUME PipelinesInv, PipelinesNext
  PROVE  PipelinesInv' /\ dataset' = dataset /\ \A t \in AllTables : TableMoves(t)
<1>0. /\ MaxPublications \in Nat \ {0} /\ dataset \in {"tpch", "nyc_taxi"}
      /\ DOMAIN drivers = Drivers /\ drivers = [j \in Drivers |-> drivers[j]]
      /\ tables \in [AllTables -> Version]
      /\ \A j \in Drivers : SoundAttempt(drivers[j])
  BY PipelinesAssumption DEF PipelinesInv, PipelinesTypeOK, SoundAttempt
<1>1. PICK k \in Drivers :
          \/ SubmitTpch(k) \/ SubmitNyc(k)
          \/ ReplaceDimension(k) \/ ReplaceFact(k) \/ CheckProperties(k)
          \/ WriteBronze(k) \/ DriverFails(k)
  BY DEF PipelinesNext
<1>2. dataset' = dataset
  BY <1>1 DEF SubmitTpch, SubmitNyc, ReplaceDimension, ReplaceFact, CheckProperties,
              WriteBronze, DriverFails
<1>3. 1 \in 1 .. MaxPublications
  BY <1>0
<1>4. drivers' = [j \in Drivers |-> drivers'[j]] /\ \A j \in Drivers : SoundAttempt(drivers'[j])
  <2>1. CASE SubmitTpch(k)
    <3> DEFINE next(j, answer, scale) ==
                 CASE j = k - 1 -> [drivers[j] EXCEPT !.reported = "failed"]
                   [] j = k /\ TpchAccepted(answer, scale)
                                -> [drivers[j] EXCEPT !.pc = "resolved", !.res = answer.publication]
                   [] j = k /\ ~TpchAccepted(answer, scale)
                                -> [drivers[j] EXCEPT !.pc = "ended", !.reported = "failed"]
                   [] OTHER     -> drivers[j]
    <3>1. PICK scale \in EffectiveScales, answer \in Answers :
              drivers' = [j \in Drivers |-> next(j, answer, scale)]
      BY <2>1 DEF SubmitTpch
    <3>2. answer.publication \in 1 .. MaxPublications
      BY AnswerPublication
    <3>3. ASSUME NEW j \in Drivers PROVE SoundAttempt(next(j, answer, scale))
      <4>1. \/ next(j, answer, scale) = [drivers[j] EXCEPT !.reported = "failed"]
            \/ next(j, answer, scale) =
                   [drivers[j] EXCEPT !.pc = "resolved", !.res = answer.publication]
            \/ next(j, answer, scale) = [drivers[j] EXCEPT !.pc = "ended", !.reported = "failed"]
            \/ next(j, answer, scale) = drivers[j]
        OBVIOUS
      <4> HIDE DEF next
      <4> QED
        BY <1>0, <3>2, <4>1, AttemptSteps
    <3> HIDE DEF next
    <3> QED
      BY <3>1, <3>3
  <2>2. CASE SubmitNyc(k)
    <3>1. PICK answer \in Answers :
              \/ drivers' = [drivers EXCEPT ![k] = [@ EXCEPT !.pc = "resolved", !.res = answer.publication]]
              \/ drivers' = [drivers EXCEPT ![k] = [@ EXCEPT !.pc = "ended", !.reported = "failed"]]
      BY <2>2 DEF SubmitNyc
    <3>2. ASSUME NEW j \in Drivers PROVE SoundAttempt(drivers'[j])
      <4>1. \/ drivers'[j] = [drivers[j] EXCEPT !.pc = "resolved", !.res = answer.publication]
            \/ drivers'[j] = [drivers[j] EXCEPT !.pc = "ended", !.reported = "failed"]
            \/ drivers'[j] = drivers[j]
        BY <1>0, <3>1
      <4> QED
        BY <1>0, <4>1, AnswerPublication, AttemptSteps
    <3> QED
      BY <1>0, <3>1, <3>2
  <2>3. CASE ReplaceDimension(k) \/ ReplaceFact(k)
    <3>1. ASSUME NEW j \in Drivers PROVE SoundAttempt(drivers'[j])
      <4>1. \/ drivers[j].pc = "resolved" /\ drivers'[j] = [drivers[j] EXCEPT !.pc = "dimension"]
            \/ drivers[j].pc = "dimension" /\ drivers'[j] = [drivers[j] EXCEPT !.pc = "fact"]
            \/ drivers'[j] = drivers[j]
        BY <1>0, <2>3 DEF ReplaceDimension, ReplaceFact
      <4> QED
        BY <1>0, <4>1, <1>3, AttemptSteps
    <3> QED
      BY <1>0, <2>3, <3>1 DEF ReplaceDimension, ReplaceFact
  <2>4. CASE CheckProperties(k) \/ WriteBronze(k) \/ DriverFails(k)
    <3>1. PICK ok \in BOOLEAN : drivers' = Finish(k, ok)
      BY <2>4 DEF CheckProperties, WriteBronze, DriverFails
    <3>2. ASSUME NEW j \in Drivers PROVE SoundAttempt(drivers'[j])
      <4>1. PICK r \in {"running", "success", "failed"} :
                \/ drivers'[j] = [drivers[j] EXCEPT !.pc = "ended", !.reported = r]
                \/ drivers'[j] = drivers[j]
        <5> DEFINE r == IF drivers[k].reported = "failed" THEN "failed" 
                        ELSE IF ok THEN "success" ELSE "failed"
        <5>1. drivers' = [drivers EXCEPT ![k] = [drivers[k] EXCEPT !.pc = "ended", !.reported = r]]
          BY <1>0, <3>1 DEF Finish
        <5>2. CASE j = k
          BY <1>0, <5>1, <5>2
        <5>3. CASE j # k
          BY <1>0, <5>1, <5>3
        <5> QED
          BY <5>2, <5>3
      <4> QED
        BY <1>0, <4>1, <1>3, AttemptSteps
    <3> QED
      BY <1>0, <3>1, <3>2 DEF Finish
  <2> QED
    BY <1>1, <2>1, <2>2, <2>3, <2>4
<1> DEFINE TablesSound ==
      /\ tables' \in [AllTables -> Version]
      /\ \A t \in AllTables : tables'[t].snapshot > 0 /\ tables'[t].content \in 1 .. MaxPublications
      /\ \A t \in TpchTables : tables'[t].props = tables'[t].content
      /\ \A t \in AllTables : TableMoves(t)
<1>5. TablesSound
  <2>1. CASE UNCHANGED tables
    BY <1>0, <2>1 DEF PipelinesInv, TableMoves
  <2>2. ASSUME NEW t \in AllTables, NEW p \in 1 .. MaxPublications, NEW q \in Nat,
               t \in TpchTables => p = q,
               tables' = [tables EXCEPT ![t] = [snapshot |-> @.snapshot + 1, content |-> p, props |-> q]]
        PROVE  TablesSound
    BY <1>0, <2>2 DEF PipelinesInv, TableMoves, Version
  <2>3. CASE ReplaceDimension(k) \/ ReplaceFact(k)
    <3>1. PICK t \in TpchTables, p \in 1 .. MaxPublications : tables' = Replaced(t, p)
      BY <1>0, <2>3 DEF ReplaceDimension, ReplaceFact, TpchTables, SoundAttempt
    <3>2. t \in AllTables /\ p \in Nat
      BY DEF AllTables
    <3>3. tables' = [tables EXCEPT ![t] = [snapshot |-> @.snapshot + 1, content |-> p, props |-> p]]
      BY <3>1 DEF Replaced
    <3> QED
      BY <2>2, <3>2, <3>3
  <2>4. CASE WriteBronze(k)
    <3>1. drivers[k].res \in 1 .. MaxPublications
      BY <1>0, <2>4 DEF WriteBronze, SoundAttempt
    <3> QED
      BY <2>2, <2>4, <3>1 DEF WriteBronze, AllTables, TpchTables, NycTables
  <2> QED
    BY <1>1, <2>1, <2>3, <2>4 DEF SubmitTpch, SubmitNyc, CheckProperties, DriverFails
<1>6. PipelinesTypeOK'
  BY <1>0, <1>2, <1>4, <1>5 DEF PipelinesTypeOK, SoundAttempt
<1> QED
  BY <1>2, <1>4, <1>5, <1>6 DEF PipelinesInv, SoundAttempt
-----------------------------------------------------------------------------
(* The BI task.                                                             *)

\* The scripts, step by step.
LEMMA ScriptSteps ==
  ASSUME dataset \in {"tpch", "nyc_taxi"}
  PROVE  \/ /\ dataset = "tpch" /\ Len(Script) = 7 /\ SourceTables = TpchTables
            /\ Script[1] = "properties" /\ Script[2] = "snapshots" /\ Script[3] = "schemas"
            /\ Script[4] = "totals" /\ Script[5] = "segments" /\ Script[6] = "properties"
            /\ Script[7] = "snapshots"
            /\ SnapshotStep = 2 /\ TotalsStep = 4 /\ SegmentsStep = 5 /\ LastStep = 7
         \/ /\ dataset = "nyc_taxi" /\ Len(Script) = 5 /\ SourceTables = NycTables
            /\ Script[1] = "snapshots" /\ Script[2] = "schemas" /\ Script[3] = "totals"
            /\ Script[4] = "segments" /\ Script[5] = "snapshots"
            /\ SnapshotStep = 1 /\ TotalsStep = 3 /\ SegmentsStep = 4 /\ LastStep = 5
<1>1. CASE dataset = "tpch"
  BY <1>1 DEF Script, TpchScript, SourceTables, SnapshotStep, TotalsStep, SegmentsStep, LastStep
<1>2. CASE dataset = "nyc_taxi"
  BY <1>2 DEF Script, NycScript, SourceTables, SnapshotStep, TotalsStep, SegmentsStep, LastStep
<1> QED
  BY <1>1, <1>2

\* A query that has read nothing.
LEMMA NothingRead == DOMAIN <<>> = {} /\ <<>> \in [DOMAIN <<>> -> Version]
  OBVIOUS

\* The tables of the source are tables of the lakehouse, at least one.
LEMMA SourcesKnown == SourceTables \subseteq AllTables /\ SourceTables # {}
  BY DEF SourceTables, AllTables, TpchTables, NycTables

\* A step that has been read of a table has those before it read.
LEMMA KnownDown ==
  ASSUME ScriptInv, NEW t, NEW i \in Nat, NEW j \in 1 .. i, Known(i, t)
  PROVE  Known(j, t)
<1>1. Len(bi.results) \in Nat
  BY DEF ScriptInv
<1> QED
  BY <1>1 DEF Known, Step

\* Readings stay in order while the tables move on and nothing new is read,
\* whatever happens to the query of the columns.
LEMMA OrderedSame ==
  ASSUME dataset \in {"tpch", "nyc_taxi"}, dataset' = dataset, ScriptInv,
         tables \in [AllTables -> Version], tables' \in [AllTables -> Version],
         NEW t \in SourceTables, Ordered(t), TableMoves(t),
         \A i \in 1 .. Len(Script) : i # SnapshotStep + 1 =>
             /\ Known(i, t)' => Known(i, t)
             /\ Known(i, t) => Seen(i, t)' = Seen(i, t),
         \A i \in 1 .. Len(Script) :
             i # SnapshotStep + 1 /\ Known(i, t) => Seen(i, t) \in Version
  PROVE  Ordered(t)'
<1>1. /\ SnapshotStep' = SnapshotStep /\ TotalsStep' = TotalsStep /\ SegmentsStep' = SegmentsStep
      /\ PropertiesStep' = PropertiesStep /\ LastStep' = LastStep
  BY DEF SnapshotStep, TotalsStep, SegmentsStep, PropertiesStep, LastStep, Script, TpchScript, NycScript
<1>2. /\ tables[t].snapshot \in Nat /\ tables'[t].snapshot \in Nat
      /\ \A i \in 1 .. Len(Script) :
             i # SnapshotStep + 1 /\ Known(i, t) => Seen(i, t).snapshot \in Nat
  BY SourcesKnown DEF Version
<1>3. tables'[t] = tables[t] \/ tables'[t].snapshot > tables[t].snapshot
  BY DEF TableMoves
<1>4. \A i \in 1 .. Len(Script), j \in 1 .. Len(Script) : j <= i /\ Known(i, t) => Known(j, t)
  BY KnownDown, ScriptSteps
<1>5. CASE dataset = "tpch"
  <2>0. Len(Script) = 7 /\ SnapshotStep = 2 /\ TotalsStep = 4 /\ SegmentsStep = 5 /\ LastStep = 7
    BY <1>5, ScriptSteps
  <2>1. \A i \in {2, 4, 5, 6, 7} :
            /\ Known(i, t)' => Known(i, t)
            /\ Known(i, t) => Seen(i, t)' = Seen(i, t)
    BY <2>0
  <2>2. \A i \in {2, 4, 5, 6, 7}, j \in {2, 4, 5, 6, 7} : j <= i /\ Known(i, t) => Known(j, t)
    BY <1>4, <2>0
  <2>3. \A i \in {2, 4, 5, 6, 7} : Known(i, t) => Seen(i, t).snapshot \in Nat
    BY <1>2, <2>0
  <2>4. Known(2, t)' => Seen(2, t)'.snapshot <= tables'[t].snapshot
    BY <1>2, <1>3, <2>0, <2>1, <2>3 DEF Ordered
  <2>5. Known(4, t)' => /\ Seen(2, t)'.snapshot <= Seen(4, t)'.snapshot
                        /\ Seen(4, t)'.snapshot <= tables'[t].snapshot
    BY <1>2, <1>3, <2>0, <2>1, <2>2, <2>3 DEF Ordered
  <2>6. Known(5, t)' => /\ Seen(4, t)'.snapshot <= Seen(5, t)'.snapshot
                        /\ Seen(5, t)'.snapshot <= tables'[t].snapshot
                        /\ Seen(5, t)'.snapshot = tables'[t].snapshot => Seen(5, t)' = tables'[t]
                        /\ Seen(5, t)'.content = Seen(5, t)'.props
    BY <1>2, <1>3, <1>5, <2>0, <2>1, <2>2, <2>3 DEF Ordered
  <2>7. Known(6, t)' /\ Seen(5, t)'.snapshot = tables'[t].snapshot =>
            Seen(6, t)'.props = Seen(5, t)'.props
    BY <1>2, <1>3, <1>5, <2>0, <2>1, <2>2, <2>3 DEF Ordered, PropertiesStep
  <2>8. Known(7, t)' => /\ Seen(5, t)'.snapshot <= Seen(7, t)'.snapshot
                        /\ Seen(7, t)'.snapshot <= tables'[t].snapshot
                        /\ Seen(5, t)'.snapshot = Seen(7, t)'.snapshot =>
                               Seen(6, t)'.props = Seen(5, t)'.props
    BY <1>2, <1>3, <1>5, <2>0, <2>1, <2>2, <2>3 DEF Ordered, PropertiesStep
  <2> QED
    BY <1>1, <2>0, <2>4, <2>5, <2>6, <2>7, <2>8 DEF Ordered, PropertiesStep, Known, Seen
<1>6. CASE dataset = "nyc_taxi"
  <2>0. Len(Script) = 5 /\ SnapshotStep = 1 /\ TotalsStep = 3 /\ SegmentsStep = 4 /\ LastStep = 5
    BY <1>6, ScriptSteps
  <2>1. \A i \in {1, 3, 4, 5} :
            /\ Known(i, t)' => Known(i, t)
            /\ Known(i, t) => Seen(i, t)' = Seen(i, t)
    BY <2>0
  <2>2. \A i \in {1, 3, 4, 5}, j \in {1, 3, 4, 5} : j <= i /\ Known(i, t) => Known(j, t)
    BY <1>4, <2>0
  <2>3. \A i \in {1, 3, 4, 5} : Known(i, t) => Seen(i, t).snapshot \in Nat
    BY <1>2, <2>0
  <2>4. Known(1, t)' => Seen(1, t)'.snapshot <= tables'[t].snapshot
    BY <1>2, <1>3, <2>0, <2>1, <2>3 DEF Ordered
  <2>5. Known(3, t)' => /\ Seen(1, t)'.snapshot <= Seen(3, t)'.snapshot
                        /\ Seen(3, t)'.snapshot <= tables'[t].snapshot
    BY <1>2, <1>3, <2>0, <2>1, <2>2, <2>3 DEF Ordered
  <2>6. Known(4, t)' => /\ Seen(3, t)'.snapshot <= Seen(4, t)'.snapshot
                        /\ Seen(4, t)'.snapshot <= tables'[t].snapshot
                        /\ Seen(4, t)'.snapshot = tables'[t].snapshot => Seen(4, t)' = tables'[t]
    BY <1>2, <1>3, <2>0, <2>1, <2>2, <2>3 DEF Ordered
  <2>7. Known(5, t)' => /\ Seen(4, t)'.snapshot <= Seen(5, t)'.snapshot
                        /\ Seen(5, t)'.snapshot <= tables'[t].snapshot
    BY <1>2, <1>3, <2>0, <2>1, <2>2, <2>3 DEF Ordered
  <2> QED
    BY <1>1, <1>6, <2>0, <2>4, <2>5, <2>6, <2>7 DEF Ordered, Known, Seen
<1> QED
  BY <1>5, <1>6

\* What a query reads of a table is of the table's snapshot and publication.
LEMMA SelectedVersion ==
  ASSUME NEW v \in Version
  PROVE  /\ Selected(v) \in Version
         /\ Script[Step] # "properties" => Selected(v).snapshot = v.snapshot
         /\ Script[Step] \in {"totals", "segments"} => Selected(v) = v
         /\ Script[Step] = "properties" => Selected(v).props = v.props
<1>1. CASE Script[Step] = "properties"
  BY <1>1 DEF Selected, Version, NoVersion
<1>2. CASE Script[Step] = "snapshots"
  BY <1>2 DEF Selected, Version, NoVersion
<1>3. CASE Script[Step] \notin {"properties", "snapshots"}
  BY <1>3 DEF Selected
<1> QED
  BY <1>1, <1>2, <1>3

\* A reading of a table is in order with those before it.
LEMMA OrderedReads ==
  ASSUME dataset \in {"tpch", "nyc_taxi"}, UNCHANGED <<dataset, tables>>, ScriptInv,
         tables \in [AllTables -> Version], NEW t \in SourceTables, Ordered(t),
         dataset = "tpch" => tables[t].props = tables[t].content,
         Step \in 1 .. Len(Script), ~Known(Step, t),
         \A i \in 1 .. Len(Script) :
             /\ Known(i, t)' => Known(i, t) \/ i = Step
             /\ Known(i, t) => Seen(i, t)' = Seen(i, t)
             /\ i = Step => Seen(i, t)' = Selected(tables[t]),
         \A i \in 1 .. Len(Script) :
             i # SnapshotStep + 1 /\ Known(i, t) => Seen(i, t) \in Version
  PROVE  Ordered(t)'
<1>1. /\ SnapshotStep' = SnapshotStep /\ TotalsStep' = TotalsStep /\ SegmentsStep' = SegmentsStep
      /\ PropertiesStep' = PropertiesStep /\ LastStep' = LastStep
  BY DEF SnapshotStep, TotalsStep, SegmentsStep, PropertiesStep, LastStep, Script, TpchScript, NycScript
<1>2. /\ tables[t] \in Version /\ tables[t].snapshot \in Nat
      /\ \A i \in 1 .. Len(Script) :
             i # SnapshotStep + 1 /\ Known(i, t) => Seen(i, t).snapshot \in Nat
  BY SourcesKnown DEF Version
<1>3. /\ Script[Step] # "properties" => Selected(tables[t]).snapshot = tables[t].snapshot
      /\ Script[Step] \in {"totals", "segments"} => Selected(tables[t]) = tables[t]
      /\ Script[Step] = "properties" => Selected(tables[t]).props = tables[t].props
  BY <1>2, SelectedVersion
<1>4. \A i \in 1 .. Len(Script), j \in 1 .. Len(Script) : j <= i /\ Known(i, t) => Known(j, t)
  BY KnownDown, ScriptSteps
<1>5. \A j \in 1 .. Len(Script) : j < Step => Known(j, t)
  BY DEF Known, Step, ScriptInv
<1>6. \A i \in 1 .. Len(Script), j \in 1 .. Len(Script) :
          j < i /\ (Known(i, t) \/ i = Step) => Known(j, t)
  BY <1>4, <1>5
<1>7. \A i \in 1 .. Len(Script) : Known(i, t)' =>
          \/ Known(i, t) /\ Seen(i, t)' = Seen(i, t)
          \/ i = Step /\ Seen(i, t)' = Selected(tables[t])
  OBVIOUS
<1>8. CASE dataset = "tpch"
  <2>0. /\ Len(Script) = 7 /\ SnapshotStep = 2 /\ TotalsStep = 4 /\ SegmentsStep = 5 /\ LastStep = 7
        /\ Script[2] = "snapshots" /\ Script[4] = "totals" /\ Script[5] = "segments"
        /\ Script[6] = "properties" /\ Script[7] = "snapshots"
    BY <1>8, ScriptSteps
  <2>1. \A i \in {2, 4, 5, 6, 7} :
            /\ Known(i, t)' =>
                   \/ Known(i, t) /\ Seen(i, t)' = Seen(i, t)
                   \/ i = Step /\ Seen(i, t)' = Selected(tables[t])
            /\ Known(i, t) => Seen(i, t)' = Seen(i, t) /\ Seen(i, t).snapshot \in Nat
    BY <1>2, <1>7, <2>0
  <2>2. \A i \in {2, 4, 5, 6, 7}, j \in {2, 4, 5, 6, 7} : j < i /\ Known(i, t)' => Known(j, t)
    BY <1>6, <1>7, <2>0
  <2>4. Known(2, t)' => Seen(2, t)'.snapshot <= tables[t].snapshot
    BY <1>2, <1>3, <2>0, <2>1 DEF Ordered
  <2>5. Known(4, t)' => /\ Seen(2, t)'.snapshot <= Seen(4, t)'.snapshot
                        /\ Seen(4, t)'.snapshot <= tables[t].snapshot
    BY <1>2, <1>3, <2>0, <2>1, <2>2 DEF Ordered
  <2>6. Known(5, t)' => /\ Seen(4, t)'.snapshot <= Seen(5, t)'.snapshot
                        /\ Seen(5, t)'.snapshot <= tables[t].snapshot
                        /\ Seen(5, t)'.snapshot = tables[t].snapshot => Seen(5, t)' = tables[t]
                        /\ Seen(5, t)'.content = Seen(5, t)'.props
    BY <1>2, <1>3, <1>8, <2>0, <2>1, <2>2 DEF Ordered
  <2>7. Known(6, t)' /\ Seen(5, t)'.snapshot = tables[t].snapshot =>
            Seen(6, t)'.props = Seen(5, t)'.props
    BY <1>2, <1>3, <1>8, <2>0, <2>1, <2>2 DEF Ordered, PropertiesStep
  <2>8. Known(7, t)' => /\ Seen(5, t)'.snapshot <= Seen(7, t)'.snapshot
                        /\ Seen(7, t)'.snapshot <= tables[t].snapshot
                        /\ Seen(5, t)'.snapshot = Seen(7, t)'.snapshot =>
                               Seen(6, t)'.props = Seen(5, t)'.props
    BY <1>2, <1>3, <1>8, <2>0, <2>1, <2>2 DEF Ordered, PropertiesStep
  <2> QED
    BY <1>1, <2>0, <2>4, <2>5, <2>6, <2>7, <2>8 DEF Ordered, PropertiesStep, Known, Seen
<1>9. CASE dataset = "nyc_taxi"
  <2>0. /\ Len(Script) = 5 /\ SnapshotStep = 1 /\ TotalsStep = 3 /\ SegmentsStep = 4 /\ LastStep = 5
        /\ Script[1] = "snapshots" /\ Script[3] = "totals" /\ Script[4] = "segments"
        /\ Script[5] = "snapshots"
    BY <1>9, ScriptSteps
  <2>1. \A i \in {1, 3, 4, 5} :
            /\ Known(i, t)' =>
                   \/ Known(i, t) /\ Seen(i, t)' = Seen(i, t)
                   \/ i = Step /\ Seen(i, t)' = Selected(tables[t])
            /\ Known(i, t) => Seen(i, t)' = Seen(i, t) /\ Seen(i, t).snapshot \in Nat
    BY <1>2, <1>7, <2>0
  <2>2. \A i \in {1, 3, 4, 5}, j \in {1, 3, 4, 5} : j < i /\ Known(i, t)' => Known(j, t)
    BY <1>6, <1>7, <2>0
  <2>4. Known(1, t)' => Seen(1, t)'.snapshot <= tables[t].snapshot
    BY <1>2, <1>3, <2>0, <2>1 DEF Ordered
  <2>5. Known(3, t)' => /\ Seen(1, t)'.snapshot <= Seen(3, t)'.snapshot
                        /\ Seen(3, t)'.snapshot <= tables[t].snapshot
    BY <1>2, <1>3, <2>0, <2>1, <2>2 DEF Ordered
  <2>6. Known(4, t)' => /\ Seen(3, t)'.snapshot <= Seen(4, t)'.snapshot
                        /\ Seen(4, t)'.snapshot <= tables[t].snapshot
                        /\ Seen(4, t)'.snapshot = tables[t].snapshot => Seen(4, t)' = tables[t]
    BY <1>2, <1>3, <2>0, <2>1, <2>2 DEF Ordered
  <2>7. Known(5, t)' => /\ Seen(4, t)'.snapshot <= Seen(5, t)'.snapshot
                        /\ Seen(5, t)'.snapshot <= tables[t].snapshot
    BY <1>2, <1>3, <2>0, <2>1, <2>2 DEF Ordered
  <2> QED
    BY <1>1, <1>9, <2>0, <2>4, <2>5, <2>6, <2>7 DEF Ordered, Known, Seen
<1> QED
  BY <1>8, <1>9

\* What a step has read of a table of the source is a version.
LEMMA SeenVersion ==
  ASSUME dataset \in {"tpch", "nyc_taxi"}, ScriptInv, NEW t \in SourceTables,
         NEW i \in 1 .. Len(Script), i # SnapshotStep + 1, Known(i, t)
  PROVE  Seen(i, t) \in Version
<1>1. Script[i] # "schemas"
  <2>1. CASE dataset = "tpch"
    <3>1. /\ Len(Script) = 7 /\ SnapshotStep = 2
          /\ Script[1] = "properties" /\ Script[2] = "snapshots" /\ Script[4] = "totals"
          /\ Script[5] = "segments" /\ Script[6] = "properties" /\ Script[7] = "snapshots"
      BY <2>1, ScriptSteps
    <3> QED
      BY <3>1
  <2>2. CASE dataset = "nyc_taxi"
    <3>1. /\ Len(Script) = 5 /\ SnapshotStep = 1
          /\ Script[1] = "snapshots" /\ Script[3] = "totals" /\ Script[4] = "segments"
          /\ Script[5] = "snapshots"
      BY <2>2, ScriptSteps
    <3> QED
      BY <3>1
  <2> QED
    BY <2>1, <2>2
<1>2. CASE i <= Len(bi.results)
  <2>1. i \in 1 .. Len(bi.results)
    BY <1>2 DEF ScriptInv
  <2>2. bi.results[i].read \in [SourceTables -> Version]
    BY <1>1, <2>1 DEF ScriptInv
  <2> QED
    BY <1>2, <2>2 DEF Seen
<1>3. CASE ~(i <= Len(bi.results))
  <2>1. t \in DOMAIN server.read
    BY <1>3 DEF Known
  <2> QED
    BY <1>3, <2>1 DEF Seen, ScriptInv
<1> QED
  BY <1>2, <1>3

\* While nothing is read, nothing is known and the readings are in order.
LEMMA OrderedNone ==
  ASSUME dataset \in {"tpch", "nyc_taxi"}, dataset' = dataset,
         bi'.results = <<>>, server' = NoServer, NEW t
  PROVE  Ordered(t)'
<1>1. \A i \in 1 .. 7 : ~Known(i, t)'
  BY NothingRead DEF Known, Step, NoServer
<1>2. /\ SnapshotStep' = SnapshotStep /\ TotalsStep' = TotalsStep /\ SegmentsStep' = SegmentsStep
      /\ PropertiesStep' = PropertiesStep /\ LastStep' = LastStep
  BY DEF SnapshotStep, TotalsStep, SegmentsStep, PropertiesStep, LastStep, Script, TpchScript, NycScript
<1>3. CASE dataset = "tpch"
  <2>1. SnapshotStep = 2 /\ TotalsStep = 4 /\ SegmentsStep = 5 /\ LastStep = 7
    BY <1>3, ScriptSteps
  <2>2. ~Known(2, t)' /\ ~Known(4, t)' /\ ~Known(5, t)' /\ ~Known(6, t)' /\ ~Known(7, t)'
    BY <1>1
  <2> QED
    BY <1>2, <2>1, <2>2 DEF Ordered, PropertiesStep, Known
<1>4. CASE dataset = "nyc_taxi"
  <2>1. SnapshotStep = 1 /\ TotalsStep = 3 /\ SegmentsStep = 4 /\ LastStep = 5
    BY <1>4, ScriptSteps
  <2>2. ~Known(1, t)' /\ ~Known(3, t)' /\ ~Known(4, t)' /\ ~Known(5, t)'
    BY <1>1
  <2> QED
    BY <1>2, <1>4, <2>1, <2>2 DEF Ordered, Known
<1> QED
  BY <1>3, <1>4

\* A failing attempt starts over with nothing read.
LEMMA FailAttemptKeeps ==
  ASSUME ScriptInv, FailAttempt
  PROVE  /\ bi' \in [pc : {"ready", "failed"}, attempt : 1 .. MaxAttempts, results : {<<>>}]
<1>1. /\ MaxAttempts \in Nat \ {0} /\ bi.attempt \in 1 .. MaxAttempts
      /\ bi = [pc |-> bi.pc, attempt |-> bi.attempt, results |-> bi.results]
  BY TrinoBiAssumption DEF ScriptInv
<1>2. CASE bi.attempt < MaxAttempts
  BY <1>1, <1>2 DEF FailAttempt
<1>3. CASE ~(bi.attempt < MaxAttempts)
  <2>1. bi' = [pc |-> "failed", attempt |-> bi.attempt, results |-> <<>>]
    BY <1>1, <1>3 DEF FailAttempt
  <2> QED
    BY <1>1, <2>1
<1> QED
  BY <1>2, <1>3

\* An abandoned query leaves the invariant in place when its DELETE went to the
\* URI the newest answer named.
LEMMA ResetKeeps ==
  ASSUME dataset \in {"tpch", "nyc_taxi"}, BiInv, FailAttempt, query' = NoQuery, server' = NoServer,
         CancelInv', UNCHANGED <<artifact, pipelineVars>>
  PROVE  BiInv'
<1>1. /\ MaxPages \in Nat \ {0} /\ RowParts \in Nat \ {0} /\ dataset' = dataset
      /\ bi' \in [pc : {"ready", "failed"}, attempt : 1 .. MaxAttempts, results : {<<>>}]
  BY TrinoBiAssumption, FailAttemptKeeps DEF BiInv, pipelineVars
<1>2. ClientInv'
  BY <1>1 DEF ClientInv, NoQuery, NoUri
<1>3. ScriptInv'
  <2>1. Len(bi'.results) = 0 /\ bi'.results = <<>> /\ Len(Script)' \in Nat
    <3>1. Script' = Script /\ Len(Script) \in Nat
      BY <1>1, ScriptSteps DEF Script, TpchScript, NycScript
    <3> QED
      BY <1>1, <3>1
  <2>2. bi' \in [pc : {"ready", "query", "done", "failed"}, attempt : 1 .. MaxAttempts,
                 results : Seq(ResultType')]
    <3>1. <<>> \in Seq(ResultType')
      OBVIOUS
    <3> QED
      BY <1>1, <3>1
  <2>3. server' = [read |-> server'.read, sent |-> query'.rows, named |-> query'.cancel]
    BY DEF NoServer, NoQuery
  <2>4. server'.read = <<>>
    BY DEF NoServer
  <2>5. bi'.pc # "query" /\ query'.pc = "idle"
    BY <1>1 DEF NoQuery
  <2> QED
    BY <2>1, <2>2, <2>3, <2>4, <2>5, NothingRead DEF ScriptInv
<1>4. OnePublication'
  BY <1>1 DEF OnePublication
<1>5. ArtifactMatchesSource'
  BY <1>1 DEF BiInv, ArtifactMatchesSource, SourceTables
<1>6. \A t \in SourceTables' : Ordered(t)'
  <2>1. bi'.results = <<>>
    BY <1>1
  <2> QED
    BY <1>1, <2>1, OrderedNone
<1> QED
  BY <1>2, <1>3, <1>4, <1>5, <1>6 DEF BiInv

\* The query in flight is cancelled at the URI of its newest complete answer.
LEMMA CancelOfQuery ==
  ASSUME ClientInv, ScriptInv, Abandon(TRUE, server.named, query.cancel)
  PROVE  CancelInv'
<1>1. server.named = query.cancel /\ query.cancel \in Nat
  BY DEF ClientInv, ScriptInv
<1> QED
  BY <1>1 DEF Abandon, CancelInv, Refused, NoUri

\* A complete answer is cancelled at the URI it names, if that is usable.
LEMMA CancelOfAnswer ==
  ASSUME NEW named \in Nat \cup {Refused}, AbandonAt(named)
  PROVE  CancelInv'
  BY DEF AbandonAt, Abandon, CancelUri, CancelInv, Refused, NoUri

\* The steps that neither read a table nor move the script.
LEMMA SamePlace ==
  ASSUME PipelinesInv, BiInv, UNCHANGED <<artifact, pipelineVars>>,
         bi'.results = bi.results, server'.read = server.read
  PROVE  OnePublication' /\ ArtifactMatchesSource' /\ \A t \in SourceTables' : Ordered(t)'
<1>1. dataset' = dataset /\ tables' = tables /\ SourceTables' = SourceTables
  BY DEF pipelineVars, SourceTables
<1>2. OnePublication'
  BY <1>1 DEF BiInv, OnePublication
<1>3. ArtifactMatchesSource'
  BY <1>1 DEF BiInv, ArtifactMatchesSource
<1>4. ASSUME NEW t \in SourceTables PROVE Ordered(t)'
  <2>1. \A i \in 1 .. Len(Script) :
            /\ Known(i, t)' => Known(i, t)
            /\ Known(i, t) => Seen(i, t)' = Seen(i, t)
    BY DEF Known, Seen, Step
  <2>2. /\ dataset \in {"tpch", "nyc_taxi"} /\ ScriptInv /\ Ordered(t)
        /\ tables \in [AllTables -> Version] /\ tables' \in [AllTables -> Version]
    BY <1>1 DEF PipelinesInv, PipelinesTypeOK, BiInv
  <2>3. TableMoves(t)
    BY <1>1 DEF TableMoves
  <2>4. \A i \in 1 .. Len(Script) :
            i # SnapshotStep + 1 /\ Known(i, t) => Seen(i, t) \in Version
    BY <2>2, SeenVersion
  <2> QED
    BY <1>1, <2>1, <2>2, <2>3, <2>4, OrderedSame
<1> QED
  BY <1>1, <1>2, <1>3, <1>4

\* PostStatement starts the script's next query with nothing read.
LEMMA PostStatementKeeps ==
  ASSUME PipelinesInv, BiInv, PostStatement, UNCHANGED pipelineVars
  PROVE  BiInv'
<1>1. /\ MaxPages \in Nat \ {0} /\ RowParts \in Nat \ {0} /\ dataset' = dataset
      /\ Script' = Script /\ SourceTables' = SourceTables /\ ResultType' = ResultType
  BY TrinoBiAssumption DEF pipelineVars, Script, SourceTables, ResultType
<1>2. bi.pc = "ready" /\ query.pc = "idle" /\ server = NoServer /\ Step <= Len(Script)
  BY DEF PostStatement, BiInv, ScriptInv, ClientInv
<1>3. bi' = [pc |-> "query", attempt |-> bi.attempt, results |-> bi.results]
  BY DEF PostStatement, BiInv, ScriptInv
<1>4. query' = [pc |-> "waiting", uri |-> NoUri, seen |-> {}, cancel |-> NoUri,
                pages |-> 0, rows |-> 0]
  BY DEF PostStatement, NoQuery
<1>5. ClientInv'
  <2>1. CancelInv'
    BY DEF PostStatement, NotAbandoned, CancelInv, NoUri, Refused
  <2> QED
    BY <1>1, <1>4, <2>1 DEF ClientInv, NoUri
<1>6. ScriptInv'
  <2>1. server' = NoServer /\ server'.read = <<>>
    BY DEF PostStatement, NoServer
  <2>2. server' = [read |-> server'.read, sent |-> query'.rows, named |-> query'.cancel]
    BY <1>4, <2>1 DEF NoServer
  <2>3. Step' = Step
    BY <1>3 DEF Step
  <2>4. bi' \in [pc : {"ready", "query", "done", "failed"}, attempt : 1 .. MaxAttempts,
                 results : Seq(ResultType')]
    BY <1>1, <1>3 DEF BiInv, ScriptInv
  <2> QED
    BY <1>1, <1>2, <1>3, <1>4, <2>1, <2>2, <2>3, <2>4, NothingRead DEF BiInv, ScriptInv
<1> QED
  BY <1>2, <1>3, <1>5, <1>6, SamePlace DEF BiInv, PostStatement

\* GetPage asks for the next page, or gives up at the page bound and cancels it.
LEMMA GetPageKeeps ==
  ASSUME PipelinesInv, BiInv, GetPage, UNCHANGED pipelineVars
  PROVE  BiInv'
<1>1. /\ MaxPages \in Nat \ {0} /\ dataset \in {"tpch", "nyc_taxi"} /\ dataset' = dataset
      /\ Script' = Script /\ SourceTables' = SourceTables /\ ResultType' = ResultType
  BY TrinoBiAssumption DEF PipelinesInv, PipelinesTypeOK, pipelineVars, Script, SourceTables, ResultType
<1>2. CASE query.pages >= MaxPages
  <2>1. Abandon(TRUE, server.named, query.cancel) /\ UNCHANGED artifact
    BY <1>2 DEF GetPage
  <2>2. CancelInv'
    BY <2>1, CancelOfQuery DEF BiInv
  <2> QED
    BY <1>1, <2>1, <2>2, ResetKeeps DEF Abandon
<1>3. CASE ~(query.pages >= MaxPages)
  <2>1. /\ query.pc = "next" /\ UNCHANGED <<server, bi, abandoned, artifact>>
        /\ query' = [query EXCEPT !.pc = "waiting", !.seen = @ \cup {query.uri}]
    BY <1>3 DEF GetPage
  <2>2. /\ query.uri \in Nat /\ query.seen \in SUBSET Nat /\ query.pages \in 0 .. MaxPages
        /\ query.cancel \in Nat /\ query.rows \in 0 .. RowParts /\ query.cancel \in {NoUri, query.uri}
        /\ query.seen \subseteq 0 .. query.uri /\ CancelInv
    BY DEF BiInv, ClientInv
  <2>3. query' = [pc |-> "waiting", uri |-> query.uri, seen |-> query.seen \cup {query.uri},
                  cancel |-> query.cancel, pages |-> query.pages, rows |-> query.rows]
    BY <2>1 DEF BiInv, ClientInv
  <2>4. ClientInv'
    BY <1>1, <1>3, <2>1, <2>2, <2>3 DEF ClientInv, CancelInv
  <2>5. ScriptInv'
    <3>1. Step' = Step /\ TablesRead' = TablesRead
      BY <1>1, <2>1 DEF Step, TablesRead
    <3> QED
      BY <1>1, <2>1, <2>3, <3>1 DEF BiInv, ScriptInv
  <2> QED
    BY <2>1, <2>4, <2>5, SamePlace DEF BiInv
<1> QED
  BY <1>2, <1>3

\* ReadTable adds a reading of the table as it is now.
LEMMA ReadTableKeeps ==
  ASSUME PipelinesInv, BiInv, NEW t \in SourceTables, ReadTable(t), UNCHANGED pipelineVars
  PROVE  BiInv'
<1>1. /\ dataset \in {"tpch", "nyc_taxi"} /\ dataset' = dataset /\ tables' = tables
      /\ tables \in [AllTables -> Version] /\ ScriptInv
      /\ Script' = Script /\ SourceTables' = SourceTables /\ ResultType' = ResultType
  BY DEF PipelinesInv, PipelinesTypeOK, BiInv, pipelineVars, Script, SourceTables, ResultType
<1>2. /\ query.pc # "idle" /\ t \in TablesRead /\ t \notin DOMAIN server.read
      /\ UNCHANGED <<bi, query, abandoned, artifact>>
  BY DEF ReadTable
<1>3. server = [read |-> server.read, sent |-> query.rows, named |-> query.cancel]
  BY <1>1 DEF ScriptInv
<1> DEFINE read == [u \in DOMAIN server.read \cup {t} |->
                       IF u = t THEN Selected(tables[t]) ELSE server.read[u]]
<1>4. server' = [read |-> read, sent |-> query.rows, named |-> query.cancel]
  BY <1>3 DEF ReadTable
<1>5. server'.read = read
  BY <1>4
<1>6. Step' = Step /\ TablesRead' = TablesRead /\ Step <= Len(Script) /\ bi.pc = "query"
  BY <1>1, <1>2 DEF Step, TablesRead, ScriptInv
<1>7. Len(bi.results) \in Nat /\ Step = Len(bi.results) + 1
  BY <1>1 DEF ScriptInv, Step
<1>8. ClientInv'
  BY <1>2 DEF BiInv, ClientInv, CancelInv
<1>9. ScriptInv'
  <2>1. Selected(tables[t]) \in Version
    BY <1>1, SourcesKnown, SelectedVersion
  <2>2. server.read \in [DOMAIN server.read -> Version]
    BY <1>1 DEF ScriptInv
  <2>3. read \in [DOMAIN read -> Version]
    BY <2>1, <2>2
  <2>4. DOMAIN server.read \subseteq TablesRead
    BY <1>1, NothingRead DEF ScriptInv
  <2>5. DOMAIN read \subseteq TablesRead /\ DOMAIN read # {}
    BY <1>2, <2>4
  <2> HIDE DEF read
  <2>6. server'.read \in [DOMAIN server'.read -> Version]
    BY <1>5, <2>3
  <2>7. query'.pc # "idle" /\ DOMAIN server'.read \subseteq TablesRead' /\ DOMAIN server'.read # {}
    BY <1>2, <1>5, <1>6, <2>5
  <2>8. server' = [read |-> server'.read, sent |-> query'.rows, named |-> query'.cancel]
    BY <1>2, <1>4
  <2> QED
    BY <1>1, <1>2, <1>6, <2>6, <2>7, <2>8 DEF ScriptInv
<1>10. OnePublication' /\ ArtifactMatchesSource'
  BY <1>1, <1>2 DEF BiInv, OnePublication, ArtifactMatchesSource
<1>11. ASSUME NEW u \in SourceTables PROVE Ordered(u)'
  <2>1. Ordered(u)
    BY DEF BiInv
  <2>2. \A i \in 1 .. Len(Script) :
            i # SnapshotStep + 1 /\ Known(i, u) => Seen(i, u) \in Version
    BY <1>1, SeenVersion
  <2>3. \A i \in 1 .. Len(Script) : Known(i, u) =>
            i <= Len(bi.results) \/ (u \in DOMAIN server.read /\ u # t)
    BY <1>2, <1>7 DEF Known
  <2>4. \A i \in 1 .. Len(Script) : Known(i, u) => Seen(i, u)' = Seen(i, u)
    <3>1. u \in DOMAIN server.read /\ u # t => server'.read[u] = server.read[u]
      BY <1>5
    <3> QED
      BY <1>2, <2>3, <3>1 DEF Seen
  <2>5. CASE u # t
    <3>1. u \in DOMAIN server'.read => u \in DOMAIN server.read
      BY <1>5, <2>5
    <3>2. \A i \in 1 .. Len(Script) : Known(i, u)' => Known(i, u)
      BY <1>2, <1>6, <3>1 DEF Known
    <3>3. TableMoves(u)
      BY <1>1 DEF TableMoves
    <3> QED
      BY <1>1, <2>1, <2>2, <2>4, <3>2, <3>3, OrderedSame
  <2>6. CASE u = t
    <3>1. \A i \in 1 .. Len(Script) : Known(i, u)' => Known(i, u) \/ i = Step
      BY <1>2, <1>6 DEF Known
    <3>2. ~Known(Step, u) /\ Step \in 1 .. Len(Script)
      BY <1>2, <1>6, <1>7, <2>6 DEF Known
    <3>3. \A i \in 1 .. Len(Script) : i = Step => Seen(i, u)' = Selected(tables[u])
      <4>1. server'.read[u] = Selected(tables[u])
        BY <1>5, <2>6
      <4> QED
        BY <1>2, <1>7, <4>1 DEF Seen
    <3>4. dataset = "tpch" => tables[u].props = tables[u].content
      BY DEF PipelinesInv, SourceTables
    <3> QED
      BY <1>1, <2>1, <2>2, <2>4, <3>1, <3>2, <3>3, <3>4, OrderedReads
  <2> QED
    BY <2>5, <2>6
<1> QED
  BY <1>1, <1>8, <1>9, <1>10, <1>11 DEF BiInv

\* PageArrives collects the rows of a page; with the last page the readings of
\* the query become the result of the step.
LEMMA PageArrivesKeeps ==
  ASSUME PipelinesInv, BiInv, PageArrives, UNCHANGED pipelineVars
  PROVE  BiInv'
<1>1. /\ dataset \in {"tpch", "nyc_taxi"} /\ dataset' = dataset /\ tables' = tables
      /\ tables \in [AllTables -> Version] /\ ScriptInv /\ ClientInv
      /\ Script' = Script /\ SourceTables' = SourceTables /\ ResultType' = ResultType
      /\ MaxPages \in Nat \ {0} /\ RowParts \in Nat \ {0}
  BY TrinoBiAssumption
     DEF PipelinesInv, PipelinesTypeOK, BiInv, pipelineVars, Script, SourceTables, ResultType
<1>2. query.pc = "waiting" /\ UNCHANGED <<abandoned, artifact>>
  BY DEF PageArrives
<1>3. PICK page \in Pages :
         /\ Servable(page)
         /\ IF page.next # NoUri
              THEN /\ query' = [query EXCEPT !.pc = "next", !.uri = page.next,
                                             !.cancel = CancelUri(page.next),
                                             !.pages = @ + 1, !.rows = @ + page.rows]
                   /\ server' = [server EXCEPT !.sent = @ + page.rows, !.named = page.next]
                   /\ UNCHANGED bi
              ELSE /\ query' = NoQuery /\ server' = NoServer
                   /\ \E complete \in BOOLEAN :
                        IF ResultAccepted(server.read, complete)
                          THEN bi' = [bi EXCEPT !.pc = "ready", !.results = Append(@, Result(page))]
                          ELSE FailAttempt
  BY DEF PageArrives
<1>4. /\ query.uri \in Nat /\ query.seen \in SUBSET Nat /\ query.pages \in 0 .. MaxPages
      /\ query.rows \in 0 .. RowParts /\ query.seen \subseteq 0 .. query.uri
      /\ query.pages < MaxPages /\ CancelInv
      /\ query = [pc |-> query.pc, uri |-> query.uri, seen |-> query.seen, cancel |-> query.cancel,
                  pages |-> query.pages, rows |-> query.rows]
  BY <1>1, <1>2 DEF ClientInv
<1>5. server = [read |-> server.read, sent |-> query.rows, named |-> query.cancel]
  BY <1>1 DEF ScriptInv
<1>6. page.rows \in 0 .. RowParts - query.rows /\ page.next \in {NoUri, query.uri + 1}
  BY <1>5 DEF Pages
<1>7. /\ bi.pc = "query" /\ Step <= Len(Script) /\ Len(bi.results) \in Nat
      /\ Step = Len(bi.results) + 1 /\ bi.results \in Seq(ResultType) /\ bi.attempt \in 1 .. MaxAttempts
  BY <1>1, <1>2 DEF ScriptInv, Step
<1>8. CASE page.next # NoUri
  <2>0. CancelUri(page.next) = page.next
    BY <1>4, <1>6 DEF CancelUri, Refused, NoUri
  <2>1. query' = [pc |-> "next", uri |-> page.next, seen |-> query.seen, cancel |-> page.next,
                  pages |-> query.pages + 1, rows |-> query.rows + page.rows]
    BY <1>3, <1>4, <1>8, <2>0
  <2>2. server' = [read |-> server.read, sent |-> query.rows + page.rows, named |-> page.next]
    <3>1. server' = [server EXCEPT !.sent = @ + page.rows, !.named = page.next]
      BY <1>3, <1>8
    <3>2. /\ server.sent = query.rows
          /\ server \in [read : {server.read}, sent : {query.rows}, named : {query.cancel}]
      BY <1>5
    <3> QED
      BY <3>1, <3>2
  <2>3. bi' = bi
    BY <1>3, <1>8
  <2>4. page.next = query.uri + 1
    BY <1>6, <1>8
  <2>5. ClientInv'
    BY <1>1, <1>2, <1>4, <1>6, <2>1, <2>4 DEF ClientInv, CancelInv
  <2>6. ScriptInv'
    <3>1. Step' = Step /\ TablesRead' = TablesRead
      BY <1>1, <2>3 DEF Step, TablesRead
    <3> QED
      BY <1>1, <1>2, <2>1, <2>2, <2>3, <3>1 DEF ScriptInv
  <2> QED
    BY <1>2, <2>2, <2>3, <2>5, <2>6, SamePlace DEF BiInv
<1>9. CASE page.next = NoUri
  <2>1. query' = NoQuery /\ server' = NoServer
    BY <1>3, <1>9
  <2>2. CASE FailAttempt
    BY <1>1, <1>2, <1>4, <2>1, <2>2, ResetKeeps DEF CancelInv
  <2>3. ASSUME NEW complete \in BOOLEAN, ResultAccepted(server.read, complete),
               bi' = [bi EXCEPT !.pc = "ready", !.results = Append(@, Result(page))]
        PROVE  BiInv'
    <3> DEFINE res == [read |-> server.read, rows |-> RowParts]
    <3>1. DOMAIN server.read = TablesRead /\ Result(page) = res
      BY <1>1, <1>3, <1>4, <1>5, <1>6, <1>9 DEF Servable, AllRead, Result
    <3>2. server.read \in IF Script[Step] = "schemas" THEN {<<>>} ELSE [SourceTables -> Version]
      <4>1. CASE Script[Step] = "schemas"
        <5>1. DOMAIN server.read = {}
          BY <3>1, <4>1 DEF TablesRead
        <5> QED
          BY <1>1, <4>1, <5>1 DEF ScriptInv
      <4>2. CASE Script[Step] # "schemas"
        BY <1>1, <3>1, <4>2 DEF ScriptInv, TablesRead
      <4> QED
        BY <4>1, <4>2
    <3>3. res \in ResultType
      BY <1>1, <3>2 DEF ResultType
    <3>4. bi' = [pc |-> "ready", attempt |-> bi.attempt, results |-> Append(bi.results, res)]
      BY <1>1, <2>3, <3>1 DEF ScriptInv
    <3> HIDE DEF res
    <3>5. /\ Append(bi.results, res) \in Seq(ResultType)
          /\ Len(Append(bi.results, res)) = Len(bi.results) + 1
          /\ Append(bi.results, res)[Len(bi.results) + 1] = res
          /\ \A i \in 1 .. Len(bi.results) : Append(bi.results, res)[i] = bi.results[i]
      BY <1>7, <3>3
    <3>6. /\ bi'.results \in Seq(ResultType) /\ Len(bi'.results) = Step
          /\ bi'.results[Step] = res
          /\ \A i \in 1 .. Len(bi.results) : bi'.results[i] = bi.results[i]
      BY <1>7, <3>4, <3>5
    <3>7. ClientInv'
      BY <1>1, <1>2, <1>4, <2>1 DEF ClientInv, CancelInv, NoQuery, NoUri
    <3>8. ScriptInv'
      <4>1. ASSUME NEW i \in 1 .. Len(bi'.results)
            PROVE  /\ bi'.results[i].rows = RowParts
                   /\ bi'.results[i].read \in
                          IF Script[i] = "schemas" THEN {<<>>} ELSE [SourceTables -> Version]
        <5>1. CASE i \in 1 .. Len(bi.results)
          BY <1>1, <3>6, <5>1 DEF ScriptInv
        <5>2. CASE i = Step
          BY <3>2, <3>6, <5>2 DEF res
        <5> QED
          BY <1>7, <3>6, <5>1, <5>2
      <4>2. server'.read = <<>>
        BY <2>1 DEF NoServer
      <4>3. server' = [read |-> server'.read, sent |-> query'.rows, named |-> query'.cancel]
        BY <2>1 DEF NoServer, NoQuery
      <4>4. bi' \in [pc : {"ready", "query", "done", "failed"}, attempt : 1 .. MaxAttempts,
                     results : Seq(ResultType')]
        BY <1>1, <1>7, <3>4, <3>5
      <4>5. bi'.pc = "ready" /\ query'.pc = "idle" /\ Len(bi'.results) <= Len(Script)'
        BY <1>1, <1>7, <2>1, <3>4, <3>6 DEF NoQuery
      <4> QED
        BY <1>1, <2>1, <4>1, <4>2, <4>3, <4>4, <4>5, NothingRead DEF ScriptInv
    <3>9. OnePublication'
      <4>1. CASE Len(bi.results) = 0
        <5>1. dataset = "tpch" => Script[Step] = "properties"
          BY <1>1, <1>7, <4>1, ScriptSteps
        <5>2. dataset = "tpch" => server.read["dim_customer"].props = server.read["fct_orders"].props
          BY <2>3, <5>1 DEF ResultAccepted, OneProvenance
        <5> QED
          BY <1>1, <1>7, <3>6, <4>1, <5>2 DEF OnePublication, res
      <4>2. CASE Len(bi.results) # 0
        BY <1>1, <1>7, <3>6, <4>2 DEF BiInv, OnePublication
      <4> QED
        BY <4>1, <4>2
    <3>10. ArtifactMatchesSource'
      BY <1>1, <1>2 DEF BiInv, ArtifactMatchesSource
    <3>11. ASSUME NEW t \in SourceTables PROVE Ordered(t)'
      <4>1. t \notin DOMAIN server'.read
        BY <2>1, NothingRead DEF NoServer
      <4>2. \A i \in 1 .. Len(Script) : Known(i, t)' => i \in 1 .. Step
        BY <1>7, <3>6, <4>1 DEF Known
      <4>3. Script[SnapshotStep + 1] = "schemas" /\ SnapshotStep \in Nat
        BY <1>1, ScriptSteps
      <4>4. ASSUME NEW i \in 1 .. Len(Script), i # SnapshotStep + 1, Known(i, t)'
            PROVE  Known(i, t)
        <5>1. CASE i \in 1 .. Len(bi.results)
          BY <5>1 DEF Known
        <5>2. CASE i = Step
          <6>1. Script[Step] # "schemas"
            BY <1>1, <4>4, <5>2, ScriptSteps
          <6> QED
            BY <3>1, <5>2, <6>1 DEF Known, TablesRead
        <5> QED
          BY <1>7, <4>2, <4>4, <5>1, <5>2
      <4>5. ASSUME NEW i \in 1 .. Len(Script), Known(i, t) PROVE Seen(i, t)' = Seen(i, t)
        <5>1. CASE i \in 1 .. Len(bi.results)
          BY <1>7, <3>6, <5>1 DEF Seen
        <5>2. CASE i = Step
          BY <1>7, <3>6, <5>2 DEF Seen, res
        <5> QED
          BY <4>5, <5>1, <5>2 DEF Known
      <4>6. \A i \in 1 .. Len(Script) :
                i # SnapshotStep + 1 /\ Known(i, t) => Seen(i, t) \in Version
        BY <1>1, SeenVersion
      <4>7. TableMoves(t) /\ Ordered(t)
        BY <1>1 DEF TableMoves, BiInv
      <4> QED
        BY <1>1, <4>4, <4>5, <4>6, <4>7, OrderedSame
    <3> QED
      BY <1>1, <3>7, <3>8, <3>9, <3>10, <3>11 DEF BiInv
  <2> QED
    BY <1>3, <1>9, <2>2, <2>3
<1> QED
  BY <1>8, <1>9

\* A sequence of results is looked up by the first, or the last, step of the
\* name; both are the step itself when no other step has the name.
LEMMA StepFound ==
  ASSUME NEW name, NEW i \in DOMAIN bi.results, Script[i] = name, DOMAIN bi.results \subseteq Int
  PROVE  /\ (\A j \in DOMAIN bi.results : Script[j] = name => i <= j) => FirstOf(name) = bi.results[i]
         /\ (\A j \in DOMAIN bi.results : Script[j] = name => j <= i) => LastOf(name) = bi.results[i]
<1>1. ASSUME \A j \in DOMAIN bi.results : Script[j] = name => i <= j
      PROVE  FirstOf(name) = bi.results[i]
  <2> DEFINE P(k) == Script[k] = name /\ \A j \in DOMAIN bi.results : Script[j] = name => k <= j
  <2>1. P(i)
    BY <1>1
  <2>2. \A k \in DOMAIN bi.results : P(k) => k = i
    BY <1>1
  <2> HIDE DEF P
  <2>3. (CHOOSE k \in DOMAIN bi.results : P(k)) = i
    BY <2>1, <2>2
  <2> QED
    BY <2>3 DEF FirstOf, P
<1>2. ASSUME \A j \in DOMAIN bi.results : Script[j] = name => j <= i
      PROVE  LastOf(name) = bi.results[i]
  <2> DEFINE P(k) == Script[k] = name /\ \A j \in DOMAIN bi.results : Script[j] = name => j <= k
  <2>1. P(i)
    BY <1>2
  <2>2. \A k \in DOMAIN bi.results : P(k) => k = i
    BY <1>2
  <2> HIDE DEF P
  <2>3. (CHOOSE k \in DOMAIN bi.results : P(k)) = i
    BY <2>1, <2>2
  <2> QED
    BY <2>3 DEF LastOf, P
<1> QED
  BY <1>1, <1>2

\* The results a finished script is judged by.
LEMMA ResultsFound ==
  ASSUME dataset \in {"tpch", "nyc_taxi"}, ScriptInv, Len(bi.results) = Len(Script)
  PROVE  /\ FirstOf("snapshots") = bi.results[SnapshotStep]
         /\ LastOf("snapshots") = bi.results[LastStep]
         /\ FirstOf("totals") = bi.results[TotalsStep]
         /\ FirstOf("segments") = bi.results[SegmentsStep]
         /\ dataset = "tpch" => /\ FirstOf("properties") = bi.results[1]
                                /\ LastOf("properties") = bi.results[PropertiesStep]
<1>1. DOMAIN bi.results = 1 .. Len(Script)
  BY DEF ScriptInv
<1>2. CASE dataset = "tpch"
  <2>1. /\ Len(Script) = 7
        /\ Script[1] = "properties" /\ Script[2] = "snapshots" /\ Script[3] = "schemas"
        /\ Script[4] = "totals" /\ Script[5] = "segments" /\ Script[6] = "properties"
        /\ Script[7] = "snapshots"
        /\ SnapshotStep = 2 /\ TotalsStep = 4 /\ SegmentsStep = 5 /\ LastStep = 7
    BY <1>2, ScriptSteps
  <2>2. DOMAIN bi.results = {1, 2, 3, 4, 5, 6, 7} /\ DOMAIN bi.results \subseteq Int
    BY <1>1, <2>1
  <2>3. /\ \A j \in DOMAIN bi.results : Script[j] = "properties" => 1 <= j /\ j <= 6
        /\ \A j \in DOMAIN bi.results : Script[j] = "snapshots" => 2 <= j /\ j <= 7
        /\ \A j \in DOMAIN bi.results : Script[j] = "totals" => 4 <= j
        /\ \A j \in DOMAIN bi.results : Script[j] = "segments" => 5 <= j
    BY <2>1, <2>2
  <2>4. FirstOf("properties") = bi.results[1] /\ LastOf("properties") = bi.results[6]
    BY <2>1, <2>2, <2>3, StepFound
  <2>5. FirstOf("snapshots") = bi.results[2] /\ LastOf("snapshots") = bi.results[7]
    BY <2>1, <2>2, <2>3, StepFound
  <2>6. FirstOf("totals") = bi.results[4] /\ FirstOf("segments") = bi.results[5]
    BY <2>1, <2>2, <2>3, StepFound
  <2> QED
    BY <2>1, <2>4, <2>5, <2>6 DEF PropertiesStep
<1>3. CASE dataset = "nyc_taxi"
  <2>1. /\ Len(Script) = 5
        /\ Script[1] = "snapshots" /\ Script[2] = "schemas" /\ Script[3] = "totals"
        /\ Script[4] = "segments" /\ Script[5] = "snapshots"
        /\ SnapshotStep = 1 /\ TotalsStep = 3 /\ SegmentsStep = 4 /\ LastStep = 5
    BY <1>3, ScriptSteps
  <2>2. DOMAIN bi.results = {1, 2, 3, 4, 5} /\ DOMAIN bi.results \subseteq Int
    BY <1>1, <2>1
  <2>3. /\ \A j \in DOMAIN bi.results : Script[j] = "snapshots" => 1 <= j /\ j <= 5
        /\ \A j \in DOMAIN bi.results : Script[j] = "totals" => 3 <= j
        /\ \A j \in DOMAIN bi.results : Script[j] = "segments" => 4 <= j
    BY <2>1, <2>2
  <2>4. FirstOf("snapshots") = bi.results[1] /\ LastOf("snapshots") = bi.results[5]
    BY <2>1, <2>2, <2>3, StepFound
  <2>5. FirstOf("totals") = bi.results[3] /\ FirstOf("segments") = bi.results[4]
    BY <2>1, <2>2, <2>3, StepFound
  <2> QED
    BY <1>3, <2>1, <2>4, <2>5
<1> QED
  BY <1>2, <1>3

\* BuildArtifact accepts only results of one snapshot of every table: the
\* readings between two equal snapshots are of that snapshot.
LEMMA BuildArtifactKeeps ==
  ASSUME PipelinesInv, BiInv, BuildArtifact, UNCHANGED pipelineVars
  PROVE  BiInv'
<1>1. /\ dataset \in {"tpch", "nyc_taxi"} /\ dataset' = dataset /\ ScriptInv /\ ClientInv
      /\ Script' = Script /\ SourceTables' = SourceTables /\ ResultType' = ResultType
  BY DEF PipelinesInv, PipelinesTypeOK, BiInv, pipelineVars, Script, SourceTables, ResultType
<1>2. /\ bi.pc = "ready" /\ query.pc = "idle" /\ server = NoServer
      /\ UNCHANGED <<query, server, abandoned>>
  BY <1>1 DEF BuildArtifact, ScriptInv, ClientInv
<1>3. Len(bi.results) = Len(Script) /\ Len(Script) \in Nat
  BY <1>1, ScriptSteps DEF BuildArtifact, ScriptInv, Step
<1>4. CASE FailAttempt /\ UNCHANGED artifact
  <2>1. bi' \in [pc : {"ready", "failed"}, attempt : 1 .. MaxAttempts, results : {<<>>}]
    BY <1>1, <1>4, FailAttemptKeeps
  <2>2. ScriptInv'
    <3>1. <<>> \in Seq(ResultType) /\ Len(<<>>) = 0
      OBVIOUS
    <3>2. /\ bi' \in [pc : {"ready", "query", "done", "failed"}, attempt : 1 .. MaxAttempts,
                      results : Seq(ResultType')]
          /\ Len(bi'.results) = 0 /\ bi'.pc # "query"
      BY <1>1, <2>1, <3>1
    <3>3. server'.read = <<>>
      BY <1>2 DEF NoServer
    <3> QED
      BY <1>1, <1>2, <1>3, <3>2, <3>3, NothingRead DEF ScriptInv
  <2>3. OnePublication' /\ ArtifactMatchesSource' /\ ClientInv'
    BY <1>1, <1>2, <1>4, <2>1 DEF OnePublication, ArtifactMatchesSource, ClientInv, CancelInv, BiInv
  <2>4. \A t \in SourceTables' : Ordered(t)'
    <3>1. bi'.results = <<>> /\ server' = NoServer
      BY <1>2, <2>1
    <3> QED
      BY <1>1, <3>1, OrderedNone
  <2> QED
    BY <2>2, <2>3, <2>4 DEF BiInv
<1>5. ASSUME NEW chance \in BOOLEAN, ArtifactAccepted(chance),
             bi' = [bi EXCEPT !.pc = "done", !.results = <<>>],
             artifact' = [source |-> dataset,
                          snapshots |-> Snapshots(FirstOf("snapshots")),
                          provenance |-> IF dataset = "tpch"
                                            THEN FirstOf("properties").read["fct_orders"].props ELSE 0,
                          rows |-> FirstOf("segments"), totals |-> FirstOf("totals")]
      PROVE  BiInv'
  <2>1. bi' = [pc |-> "done", attempt |-> bi.attempt, results |-> <<>>]
    BY <1>1, <1>5 DEF ScriptInv
  <2>2. ScriptInv'
    <3>1. <<>> \in Seq(ResultType) /\ Len(<<>>) = 0
      OBVIOUS
    <3>2. /\ bi' \in [pc : {"ready", "query", "done", "failed"}, attempt : 1 .. MaxAttempts,
                      results : Seq(ResultType')]
          /\ Len(bi'.results) = 0 /\ bi'.pc # "query"
      BY <1>1, <2>1, <3>1 DEF ScriptInv
    <3>3. server'.read = <<>>
      BY <1>2 DEF NoServer
    <3> QED
      BY <1>1, <1>2, <1>3, <3>2, <3>3, NothingRead DEF ScriptInv
  <2>3. OnePublication' /\ ClientInv'
    BY <1>1, <1>2, <2>1 DEF OnePublication, ClientInv, CancelInv
  <2>4. \A t \in SourceTables' : Ordered(t)'
    <3>1. bi'.results = <<>> /\ server' = NoServer
      BY <1>2, <2>1
    <3> QED
      BY <1>1, <3>1, OrderedNone
  <2>5. /\ artifact'.snapshots = Snapshots(bi.results[SnapshotStep])
        /\ artifact'.rows = bi.results[SegmentsStep] /\ artifact'.totals = bi.results[TotalsStep]
        /\ dataset = "tpch" => artifact'.provenance = bi.results[1].read["fct_orders"].props
    BY <1>1, <1>3, <1>5, ResultsFound
  <2>6. /\ Snapshots(bi.results[LastStep]) = Snapshots(bi.results[SnapshotStep])
        /\ dataset = "tpch" => Provenance(bi.results[PropertiesStep]) = Provenance(bi.results[1])
    BY <1>1, <1>3, <1>5, ResultsFound DEF ArtifactAccepted, TpchArtifactAccepted, NycArtifactAccepted
  <2>7. /\ {SnapshotStep, TotalsStep, SegmentsStep, LastStep} \subseteq 1 .. Len(bi.results)
        /\ SnapshotStep + 1 \notin {SnapshotStep, TotalsStep, SegmentsStep, LastStep}
    BY <1>1, <1>3, ScriptSteps
  <2>8. ASSUME NEW t \in SourceTables
        PROVE  /\ artifact'.rows.read[t].snapshot = artifact'.snapshots[t]
               /\ artifact'.totals.read[t].snapshot = artifact'.snapshots[t]
               /\ dataset = "tpch" => artifact'.rows.read[t].content = artifact'.provenance
    <3> DEFINE r(i) == bi.results[i].read[t]
    <3>1. \A i \in 1 .. Len(bi.results) : Known(i, t) /\ Seen(i, t) = r(i)
      BY DEF Known, Seen
    <3>2. /\ Seen(SnapshotStep, t) = r(SnapshotStep) /\ Seen(TotalsStep, t) = r(TotalsStep)
          /\ Seen(SegmentsStep, t) = r(SegmentsStep) /\ Seen(LastStep, t) = r(LastStep)
          /\ Known(TotalsStep, t) /\ Known(SegmentsStep, t) /\ Known(LastStep, t)
      BY <2>7, <3>1
    <3>3. /\ r(SnapshotStep).snapshot \in Nat /\ r(TotalsStep).snapshot \in Nat
          /\ r(SegmentsStep).snapshot \in Nat /\ r(LastStep).snapshot \in Nat
      <4>1. \A i \in {SnapshotStep, TotalsStep, SegmentsStep, LastStep} : Seen(i, t) \in Version
        BY <1>1, <1>3, <2>7, <3>1, SeenVersion
      <4> QED
        BY <3>2, <4>1 DEF Version
    <3>4. r(LastStep).snapshot = r(SnapshotStep).snapshot
      <4>1. /\ Snapshots(bi.results[LastStep])[t] = r(LastStep).snapshot
            /\ Snapshots(bi.results[SnapshotStep])[t] = r(SnapshotStep).snapshot
        BY DEF Snapshots
      <4> QED
        BY <2>6, <4>1
    <3>5. /\ r(SnapshotStep).snapshot <= r(TotalsStep).snapshot
          /\ r(TotalsStep).snapshot <= r(SegmentsStep).snapshot
          /\ r(SegmentsStep).snapshot <= r(LastStep).snapshot
          /\ dataset = "tpch" => r(SegmentsStep).content = r(SegmentsStep).props
          /\ dataset = "tpch" /\ r(SegmentsStep).snapshot = r(LastStep).snapshot =>
                 Seen(PropertiesStep, t).props = r(SegmentsStep).props
      <4>1. Ordered(t)
        BY DEF BiInv
      <4> HIDE DEF r
      <4> QED
        BY <3>2, <4>1 DEF Ordered
    <3>6. /\ r(TotalsStep).snapshot = r(SnapshotStep).snapshot
          /\ r(SegmentsStep).snapshot = r(SnapshotStep).snapshot
      <4> HIDE DEF r
      <4> QED
        BY <3>3, <3>4, <3>5
    <3>7. artifact'.snapshots[t] = r(SnapshotStep).snapshot
      BY <2>5 DEF Snapshots
    <3>8. dataset = "tpch" => r(SegmentsStep).content = artifact'.provenance
      <4>1. SUFFICES ASSUME dataset = "tpch" PROVE r(SegmentsStep).content = artifact'.provenance
        OBVIOUS
      <4>2. Len(Script) = 7 /\ SourceTables = TpchTables
        BY <4>1, ScriptSteps
      <4>3. Seen(PropertiesStep, t) = r(6)
        BY <1>3, <3>1, <4>2 DEF PropertiesStep
      <4>4. r(6).props = r(1).props
        <5>1. /\ Provenance(bi.results[6])[t] = r(6).props
              /\ Provenance(bi.results[1])[t] = r(1).props
          BY DEF Provenance
        <5> QED
          BY <2>6, <4>1, <5>1 DEF PropertiesStep
      <4>5. r(1).props = bi.results[1].read["fct_orders"].props
        BY <1>3, <4>1, <4>2 DEF BiInv, OnePublication, TpchTables
      <4> HIDE DEF r
      <4> QED
        BY <2>5, <3>4, <3>5, <3>6, <4>1, <4>3, <4>4, <4>5
    <3> QED
      BY <2>5, <3>6, <3>7, <3>8
  <2>9. artifact'.rows.rows = RowParts
    BY <1>1, <2>5, <2>7 DEF ScriptInv
  <2>10. ArtifactMatchesSource'
    BY <1>1, <2>8, <2>9 DEF ArtifactMatchesSource
  <2> QED
    BY <2>2, <2>3, <2>4, <2>10 DEF BiInv
<1> QED
  BY <1>4, <1>5 DEF BuildArtifact

\* Every step of the task keeps the invariant.
LEMMA BiKeep ==
  ASSUME PipelinesInv, BiInv, TrinoNext, UNCHANGED pipelineVars
  PROVE  BiInv'
<1>1. /\ dataset \in {"tpch", "nyc_taxi"} /\ query.uri \in Nat /\ query.seen \subseteq Nat
  BY DEF PipelinesInv, PipelinesTypeOK, BiInv, ClientInv
<1>2. CASE PageUnreadable
  <2>1. Abandon(TRUE, server.named, query.cancel) /\ UNCHANGED artifact
    BY <1>2 DEF PageUnreadable
  <2> QED
    BY <1>1, <2>1, CancelOfQuery, ResetKeeps DEF Abandon, BiInv
<1>3. CASE NextUriRefused \/ PageRefused \/ UriRepeated
  <2>1. PICK named \in Nat \cup {Refused} : AbandonAt(named) /\ UNCHANGED artifact
    BY <1>1, <1>3 DEF NextUriRefused, PageRefused, UriRepeated, NoUri
  <2>2. CancelInv'
    BY <2>1, CancelOfAnswer
  <2> QED
    BY <1>1, <2>1, <2>2, ResetKeeps DEF AbandonAt, Abandon
<1> QED
  BY <1>2, <1>3, PostStatementKeeps, GetPageKeeps, PageArrivesKeeps, BuildArtifactKeeps, ReadTableKeeps
     DEF TrinoNext

\* A writer beside the task keeps it too: the tables only move on.
LEMMA BiBesideWriters ==
  ASSUME PipelinesInv, PipelinesInv', BiInv, UNCHANGED biVars, dataset' = dataset,
         \A t \in AllTables : TableMoves(t)
  PROVE  BiInv'
<1>1. /\ UNCHANGED <<bi, query, server, abandoned, artifact>> /\ Script' = Script
      /\ SourceTables' = SourceTables /\ ResultType' = ResultType
      /\ dataset \in {"tpch", "nyc_taxi"}
      /\ tables \in [AllTables -> Version] /\ tables' \in [AllTables -> Version]
      /\ Step' = Step /\ TablesRead' = TablesRead
  BY DEF biVars, Script, SourceTables, ResultType, PipelinesInv, PipelinesTypeOK, Step, TablesRead
<1>2. ClientInv' /\ ScriptInv' /\ OnePublication' /\ ArtifactMatchesSource'
  BY <1>1 DEF BiInv, ClientInv, CancelInv, ScriptInv, OnePublication, ArtifactMatchesSource
<1>3. ASSUME NEW t \in SourceTables PROVE Ordered(t)'
  <2>1. \A i \in 1 .. Len(Script) :
            /\ Known(i, t)' => Known(i, t)
            /\ Known(i, t) => Seen(i, t)' = Seen(i, t)
    BY <1>1 DEF Known, Seen
  <2>2. ScriptInv /\ Ordered(t)
    BY DEF BiInv
  <2>3. TableMoves(t)
    BY SourcesKnown
  <2>4. \A i \in 1 .. Len(Script) :
            i # SnapshotStep + 1 /\ Known(i, t) => Seen(i, t) \in Version
    BY <1>1, <2>2, SeenVersion
  <2> QED
    BY <1>1, <2>1, <2>2, <2>3, <2>4, OrderedSame
<1> QED
  BY <1>1, <1>2, <1>3 DEF BiInv
-----------------------------------------------------------------------------
(* The quality run.                                                         *)

\* Bronze is a version of some publication.
LEMMA BronzeSound ==
  ASSUME PipelinesInv
  PROVE  /\ Bronze \in Version /\ Bronze.snapshot \in Nat
         /\ Bronze.content \in 1 .. MaxPublications
<1>1. Bronze \in Version /\ Bronze.content \in 1 .. MaxPublications
  BY DEF PipelinesInv, PipelinesTypeOK, Bronze, AllTables, NycTables
<1> QED
  BY <1>1 DEF Version

\* The program counters of a driver, in order.
LEMMA RunOrder ==
  /\ Labelled["clean"] = {"read_clean", "quarantine", "label_quarantine", "read_quarantine",
                          "readback", "recheck", "merge", "merged", "done"}
  /\ Labelled["quarantine"] = {"read_quarantine", "readback", "recheck", "merge", "merged", "done"}
  /\ Checked = {"recheck", "merge", "merged", "done"}
  /\ AfterGrade = {"graded", "clean", "label_clean"} \cup Labelled["clean"]
  /\ AfterCount = {"counted"} \cup AfterGrade
  /\ AfterLoad = {"loaded"} \cup AfterCount
  /\ AfterCapture = {"captured"} \cup AfterLoad
<1>1. Labelled["clean"] = Checked \cup {"read_clean", "quarantine", "label_quarantine",
                                         "read_quarantine", "readback"}
  BY DEF Labelled, SilverTables
<1>2. Labelled["quarantine"] = Checked \cup {"read_quarantine", "readback"}
  BY DEF Labelled, SilverTables
<1> QED
  BY <1>1, <1>2 DEF AfterCapture, AfterLoad, AfterCount, AfterGrade, Checked, Rechecked

\* One driver moves and the others stay where they are.
LEMMA OneMoves ==
  ASSUME RunsInv, NEW k \in Attempts, NEW q, SoundRun(q), Bronze' = Bronze,
         quality' = [quality EXCEPT ![k] = q]
  PROVE  RunsInv'
<1>1. q \in RunType /\ quality \in [Attempts -> RunType]
  BY DEF SoundRun, RunsInv
<1>2. /\ quality' \in [Attempts -> RunType] /\ quality'[k] = q
      /\ \A j \in Attempts : j # k => quality'[j] = quality[j]
  BY <1>1
<1>3. \A r : SoundRun(r)' <=> SoundRun(r)
  BY DEF SoundRun
<1>4. ASSUME NEW j \in Attempts PROVE SoundRun(quality'[j])
  BY <1>2 DEF RunsInv
<1> QED
  BY <1>2, <1>3, <1>4 DEF RunsInv

\* What a driver's record is made of.
LEMMA RunFields ==
  ASSUME NEW q \in RunType
  PROVE  /\ q = [pc |-> q.pc, snapshot |-> q.snapshot, loaded |-> q.loaded, source |-> q.source,
                 invalid |-> q.invalid, ratio |-> q.ratio, frame |-> q.frame]
         /\ q.pc \in QualityPc /\ q.snapshot \in Nat /\ q.loaded \in Version /\ q.source \in Version
         /\ q.invalid \in Version /\ q.ratio \in {"none", "pass", "warn"}
         /\ q.frame \in [SilverTables -> Version]
  BY DEF RunType

\* Goto changes the program counter of one driver.
LEMMA GotoMoves ==
  ASSUME RunsInv, NEW k \in Attempts, NEW pc \in QualityPc, Goto(k, pc)
  PROVE  LET q == [quality[k] EXCEPT !.pc = pc]
         IN  /\ quality' = [quality EXCEPT ![k] = q] /\ q \in RunType
             /\ q.pc = pc /\ q.snapshot = quality[k].snapshot /\ q.loaded = quality[k].loaded
             /\ q.source = quality[k].source /\ q.invalid = quality[k].invalid
             /\ q.ratio = quality[k].ratio /\ q.frame = quality[k].frame
<1>1. quality[k] \in RunType
  BY DEF RunsInv
<1> QED
  BY <1>1 DEF Goto, RunType

\* The Silver tables stay, and no driver claims more of them than before.
LEMMA SilverStays ==
  ASSUME SilverInv, RunsInv, NEW k \in Attempts, NEW q \in RunType, silver' = silver,
         quality' = [quality EXCEPT ![k] = q],
         \A t \in SilverTables : q.pc \in Labelled[t] =>
             /\ quality[k].pc \in Labelled[t] /\ q.snapshot = quality[k].snapshot
             /\ q.frame[t] \in {quality[k].frame[t], silver[t].rows}
  PROVE  SilverInv'
<1>1. quality'[k] = q /\ \A j \in Attempts : j # k => quality'[j] = quality[j]
  BY DEF RunsInv
<1>2. ASSUME NEW j \in Attempts, NEW t \in SilverTables, silver[t].writer = {j},
             quality'[j].pc \in Labelled[t]
      PROVE  silver[t].run = quality'[j].snapshot /\ silver[t].rows = quality'[j].frame[t]
  <2>1. CASE j # k
    BY <1>1, <1>2, <2>1 DEF SilverInv
  <2>2. CASE j = k
    BY <1>1, <1>2, <2>2 DEF SilverInv
  <2> QED
    BY <2>1, <2>2
<1> QED
  BY <1>2 DEF SilverInv

\* A driver that fails claims nothing any more.
LEMMA FailedKeeps ==
  ASSUME RunsInv, SilverInv, NEW k \in Attempts, Goto(k, "failed"), silver' = silver, Bronze' = Bronze
  PROVE  RunsInv' /\ SilverInv'
<1> DEFINE q == [quality[k] EXCEPT !.pc = "failed"]
<1>1. /\ quality' = [quality EXCEPT ![k] = q] /\ q \in RunType /\ q.pc = "failed"
  BY GotoMoves DEF QualityPc
<1>2. /\ "failed" \notin AfterCapture /\ "failed" \notin AfterLoad /\ "failed" \notin AfterCount
      /\ "failed" \notin AfterGrade /\ "failed" \notin Checked /\ "failed" \notin Rechecked
      /\ \A t \in SilverTables : "failed" \notin Labelled[t]
  BY RunOrder DEF SilverTables, Rechecked
<1> HIDE DEF q
<1>3. SoundRun(q)
  BY <1>1, <1>2 DEF SoundRun
<1>4. RunsInv'
  BY <1>1, <1>3, OneMoves
<1>5. \A t \in SilverTables : q.pc \notin Labelled[t]
  BY <1>1, <1>2
<1>6. SilverInv'
  BY <1>1, <1>5, SilverStays
<1> QED
  BY <1>4, <1>6

\* MERGE keeps the other runs' facts, and of this run's those it does not bring.
LEMMA MergedFacts ==
  ASSUME FactsInv, NEW run \in Nat, NEW new, DOMAIN new \subseteq Rules, facts' = Merged(run, new)
  PROVE  /\ DOMAIN facts' = DOMAIN facts \cup {run}
         /\ \A r \in DOMAIN facts : r # run => facts'[r] = facts[r]
         /\ DOMAIN facts'[run] \subseteq Rules
         /\ \A rule \in DOMAIN new : rule \in DOMAIN facts'[run] /\ facts'[run][rule] = new[rule]
         /\ \A rule \in DOMAIN facts'[run] : rule \notin DOMAIN new =>
                /\ run \in DOMAIN facts /\ rule \in DOMAIN facts[run]
                /\ facts'[run][rule] = facts[run][rule]
<1> DEFINE old == IF run \in DOMAIN facts THEN facts[run] ELSE <<>>
           mine == [rule \in DOMAIN old \cup DOMAIN new |->
                       IF rule \in DOMAIN new THEN new[rule] ELSE old[rule]]
<1>1. facts' = [r \in DOMAIN facts \cup {run} |-> IF r # run THEN facts[r] ELSE mine]
  BY DEF Merged
<1>2. /\ run \notin DOMAIN facts => DOMAIN old = {}
      /\ run \in DOMAIN facts => old = facts[run]
      /\ DOMAIN old \subseteq Rules
  <2>1. CASE run \in DOMAIN facts
    BY <2>1 DEF FactsInv
  <2>2. CASE run \notin DOMAIN facts
    BY <2>2, NothingRead
  <2> QED
    BY <2>1, <2>2
<1>3. /\ DOMAIN mine = DOMAIN old \cup DOMAIN new
      /\ \A rule \in DOMAIN new : mine[rule] = new[rule]
      /\ \A rule \in DOMAIN old : rule \notin DOMAIN new => mine[rule] = old[rule]
  OBVIOUS
<1> HIDE DEF old, mine
<1>4. facts'[run] = mine
  BY <1>1
<1> QED
  BY <1>1, <1>2, <1>3, <1>4

\* What a MERGE may bring without an accepted set becoming untrue: a metric that
\* is not accepted, no metric at all, or a whole set that is true.
Harmless(new, run) ==
    /\ DOMAIN new \subseteq Rules
    /\ \/ \E r \in DOMAIN new \cap Measured : new[r].status \notin Accepted
       \/ DOMAIN new \cap Measured = {}
       \/ Measured \subseteq DOMAIN new /\ Described(new, run)

LEMMA MergeKeepsFacts ==
  ASSUME FactsInv, NEW run \in Nat, NEW new, Harmless(new, run), facts' = Merged(run, new)
  PROVE  FactsInv'
<1>1. DOMAIN new \subseteq Rules
  BY DEF Harmless
<1>2. /\ DOMAIN facts' = DOMAIN facts \cup {run}
      /\ \A r \in DOMAIN facts : r # run => facts'[r] = facts[r]
      /\ DOMAIN facts'[run] \subseteq Rules
      /\ \A rule \in DOMAIN new : rule \in DOMAIN facts'[run] /\ facts'[run][rule] = new[rule]
      /\ \A rule \in DOMAIN facts'[run] : rule \notin DOMAIN new =>
             /\ run \in DOMAIN facts /\ rule \in DOMAIN facts[run]
             /\ facts'[run][rule] = facts[run][rule]
  BY <1>1, MergedFacts
<1>3. Described(facts'[run], run)
  <2>0. SUFFICES ASSUME Measured \subseteq DOMAIN facts'[run],
                        \A r \in Measured : facts'[run][r].status \in Accepted
                 PROVE  /\ facts'[run]["source_available"].version.snapshot = run
                        /\ facts'[run]["invalid_ratio"].version.snapshot = run
                        /\ \A r \in {"clean_nonempty", "quarantine_ratio"} :
                               facts'[run][r].version.content =
                                   facts'[run]["source_available"].version.content
    BY DEF Described
  <2>1. CASE \E r \in DOMAIN new \cap Measured : new[r].status \notin Accepted
    BY <1>2, <2>0, <2>1
  <2>2. CASE DOMAIN new \cap Measured = {}
    <3>1. \A r \in Measured : /\ run \in DOMAIN facts /\ r \in DOMAIN facts[run]
                              /\ facts'[run][r] = facts[run][r]
      BY <1>2, <2>0, <2>2
    <3>2. run \in DOMAIN facts /\ Described(facts[run], run)
      BY <3>1 DEF FactsInv, Measured
    <3> QED
      BY <2>0, <3>1, <3>2 DEF Described, Measured
  <2>3. CASE Measured \subseteq DOMAIN new /\ Described(new, run)
    <3>1. \A r \in Measured : facts'[run][r] = new[r]
      BY <1>2, <2>3
    <3> QED
      BY <2>0, <2>3, <3>1 DEF Described, Measured
  <2> QED
    BY <2>1, <2>2, <2>3 DEF Harmless
<1> QED
  BY <1>2, <1>3 DEF FactsInv

\* A single failing fact is harmless.
LEMMA OneFactHarmless ==
  ASSUME NEW rule \in Rules, NEW status, status \notin Accepted, NEW version, NEW run
  PROVE  Harmless(OneFact(rule, status, version), run)
<1>1. /\ DOMAIN OneFact(rule, status, version) = {rule}
      /\ OneFact(rule, status, version)[rule].status = status
  BY DEF OneFact, Fact
<1> QED
  BY <1>1 DEF Harmless

\* A driver that fails with harmless diagnostics keeps the whole invariant.
LEMMA FailKeeps ==
  ASSUME QualityInv, NEW k \in Attempts, NEW new, Harmless(new, quality[k].snapshot),
         FailWith(k, new), silver' = silver, Bronze' = Bronze
  PROVE  QualityInv'
<1>1. RunsInv' /\ SilverInv'
  BY FailedKeeps DEF QualityInv, FailWith
<1>2. quality[k].snapshot \in Nat
  BY DEF QualityInv, RunsInv, RunType
<1>3. CASE facts' = facts
  BY <1>1, <1>3 DEF QualityInv, FactsInv, Described
<1>4. CASE facts' = Merged(quality[k].snapshot, new)
  BY <1>1, <1>2, <1>4, MergeKeepsFacts DEF QualityInv
<1> QED
  BY <1>1, <1>3, <1>4 DEF QualityInv, FailWith, PersistDiagnostic, QualityRunId

\* So does one that fails without leaving any.
LEMMA EndKeeps ==
  ASSUME QualityInv, NEW k \in Attempts, Goto(k, "failed"), UNCHANGED <<silver, facts>>, Bronze' = Bronze
  PROVE  QualityInv'
<1>1. RunsInv' /\ SilverInv'
  BY FailedKeeps DEF QualityInv
<1> QED
  BY <1>1 DEF QualityInv, FactsInv, Described

\* A driver that moves on without touching a table.
LEMMA AdvanceKeeps ==
  ASSUME QualityInv, NEW k \in Attempts, NEW q, SoundRun(q), Bronze' = Bronze,
         quality' = [quality EXCEPT ![k] = q], UNCHANGED <<silver, facts>>,
         \A t \in SilverTables : q.pc \in Labelled[t] =>
             /\ quality[k].pc \in Labelled[t] /\ q.snapshot = quality[k].snapshot
             /\ q.frame[t] \in {quality[k].frame[t], silver[t].rows}
  PROVE  QualityInv'
<1>1. q \in RunType
  BY DEF SoundRun
<1>2. RunsInv' /\ SilverInv'
  BY <1>1, OneMoves, SilverStays DEF QualityInv
<1> QED
  BY <1>2 DEF QualityInv, FactsInv, Described

\* The versions a Bronze action may run on: Bronze, as long as it has not moved.
LEMMA BronzeReadsSound ==
  ASSUME PipelinesInv, RunsInv, NEW k \in Attempts, quality[k].pc \in AfterLoad, NEW v \in BronzeReads(k)
  PROVE  /\ v \in Version /\ v.content \in 1 .. MaxPublications
         /\ quality[k].snapshot = Bronze.snapshot => v = Bronze
<1>1. SoundRun(quality[k]) /\ quality[k].loaded \in Version
  BY DEF RunsInv, SoundRun, RunType
<1> QED
  BY <1>1, BronzeSound DEF SoundRun, BronzeReads

\* CaptureSource and ReadBronze
LEMMA CaptureKeeps ==
  ASSUME PipelinesInv, QualityInv, NEW k \in Attempts, CaptureSource(k) \/ ReadBronze(k),
         UNCHANGED pipelineVars
  PROVE  QualityInv'
<1>0. SoundRun(quality[k]) /\ quality[k] \in RunType /\ Bronze' = Bronze
  BY DEF QualityInv, RunsInv, pipelineVars, Bronze
<1>1. CASE CaptureSource(k)
  <2> DEFINE q == [quality[k] EXCEPT !.pc = "captured", !.snapshot = Bronze.snapshot]
  <2>1. quality' = [quality EXCEPT ![k] = q] /\ UNCHANGED <<silver, facts>>
    BY <1>0, <1>1 DEF CaptureSource, RunType, QualityInv, RunsInv
  <2>2. q \in RunType /\ q.pc = "captured" /\ q.snapshot = Bronze.snapshot
    BY <1>0, BronzeSound DEF RunType, QualityPc
  <2> HIDE DEF q
  <2>3. SoundRun(q)
    BY <2>2, RunOrder, BronzeSound DEF SoundRun, Rechecked
  <2>4. \A t \in SilverTables : q.pc \notin Labelled[t]
    BY <2>2, RunOrder DEF SilverTables
  <2> QED
    BY <1>0, <2>1, <2>3, <2>4, AdvanceKeeps
<1>2. CASE ReadBronze(k)
  <2> DEFINE q == [quality[k] EXCEPT !.pc = "loaded", !.loaded = Bronze]
  <2>1. quality' = [quality EXCEPT ![k] = q] /\ quality[k].pc = "captured" /\ UNCHANGED <<silver, facts>>
    BY <1>0, <1>2 DEF ReadBronze, RunType, QualityInv, RunsInv
  <2>2. /\ q \in RunType /\ q.pc = "loaded" /\ q.loaded = Bronze
        /\ q.snapshot = quality[k].snapshot
    BY <1>0, BronzeSound DEF RunType, QualityPc
  <2> HIDE DEF q
  <2>3. SoundRun(q)
    BY <1>0, <2>1, <2>2, RunOrder, BronzeSound DEF SoundRun, Rechecked
  <2>4. \A t \in SilverTables : q.pc \notin Labelled[t]
    BY <2>2, RunOrder DEF SilverTables
  <2> QED
    BY <1>0, <2>1, <2>3, <2>4, AdvanceKeeps
<1> QED
  BY <1>1, <1>2

\* CountSource
LEMMA CountKeeps ==
  ASSUME PipelinesInv, QualityInv, NEW k \in Attempts, CountSource(k), UNCHANGED pipelineVars
  PROVE  QualityInv'
<1>0. /\ SoundRun(quality[k]) /\ quality[k] \in RunType /\ Bronze' = Bronze
      /\ quality[k].pc = "loaded" /\ quality[k].pc \in AfterLoad /\ silver' = silver
  BY RunOrder DEF QualityInv, RunsInv, pipelineVars, Bronze, CountSource
<1>1. PICK v \in BronzeReads(k) :
         IF Grade[v.content] = "empty"
           THEN FailWith(k, OneFact("source_available", "fail", v))
           ELSE /\ quality' = [quality EXCEPT ![k].pc = "counted", ![k].source = v]
                /\ UNCHANGED facts
  BY DEF CountSource
<1>2. /\ v \in Version /\ v.content \in 1 .. MaxPublications
      /\ quality[k].snapshot = Bronze.snapshot => v = Bronze
  BY <1>0, BronzeReadsSound DEF QualityInv
<1>3. CASE Grade[v.content] = "empty"
  <2>1. Harmless(OneFact("source_available", "fail", v), quality[k].snapshot)
    BY OneFactHarmless DEF Rules, BronzeRules, Accepted
  <2> QED
    BY <1>0, <1>1, <1>3, <2>1, FailKeeps
<1>4. CASE Grade[v.content] # "empty"
  <2> DEFINE q == [quality[k] EXCEPT !.pc = "counted", !.source = v]
  <2>1. quality' = [quality EXCEPT ![k] = q] /\ UNCHANGED facts
    BY <1>0, <1>1, <1>4 DEF RunType, QualityInv, RunsInv
  <2>2. /\ q \in RunType /\ q.pc = "counted" /\ q.source = v
        /\ q.snapshot = quality[k].snapshot /\ q.loaded = quality[k].loaded
    BY <1>0, <1>2 DEF RunType, QualityPc
  <2> HIDE DEF q
  <2>3. SoundRun(q)
    BY <1>0, <1>2, <1>4, <2>2, RunOrder, BronzeSound DEF SoundRun, Rechecked
  <2>4. \A t \in SilverTables : q.pc \notin Labelled[t]
    BY <2>2, RunOrder DEF SilverTables
  <2> QED
    BY <1>0, <2>1, <2>3, <2>4, AdvanceKeeps
<1> QED
  BY <1>3, <1>4

\* CountInvalid: past the threshold a failing metric is on record.
LEMMA GradeKeeps ==
  ASSUME PipelinesInv, QualityInv, NEW k \in Attempts, CountInvalid(k), UNCHANGED pipelineVars
  PROVE  QualityInv'
<1>0. /\ SoundRun(quality[k]) /\ quality[k] \in RunType /\ Bronze' = Bronze
      /\ quality[k].pc = "counted" /\ quality[k].pc \in AfterLoad /\ quality[k].pc \in AfterCount
      /\ silver' = silver
  BY RunOrder DEF QualityInv, RunsInv, pipelineVars, Bronze, CountInvalid
<1>a. PICK v \in BronzeReads(k) : \E status \in RatioStatuses(v, quality[k].source) :
         IF status = "fail"
           THEN FailWith(k, BronzeFacts(k, v, "fail"))
           ELSE /\ quality' = [quality EXCEPT ![k].pc = "graded", ![k].invalid = v,
                                              ![k].ratio = status]
                /\ UNCHANGED facts
  BY DEF CountInvalid
<1>1. PICK status \in RatioStatuses(v, quality[k].source) :
         IF status = "fail"
           THEN FailWith(k, BronzeFacts(k, v, "fail"))
           ELSE /\ quality' = [quality EXCEPT ![k].pc = "graded", ![k].invalid = v,
                                              ![k].ratio = status]
                /\ UNCHANGED facts
  BY <1>a
<1>2. /\ v \in Version /\ v.content \in 1 .. MaxPublications
      /\ quality[k].snapshot = Bronze.snapshot => v = Bronze
  BY <1>0, BronzeReadsSound DEF QualityInv
<1>3. CASE status = "fail"
  <2>1. /\ DOMAIN BronzeFacts(k, v, "fail") = BronzeRules
        /\ BronzeFacts(k, v, "fail")["invalid_ratio"].status = "fail"
    BY DEF BronzeFacts, BronzeRules, Fact
  <2>2. Harmless(BronzeFacts(k, v, "fail"), quality[k].snapshot)
    BY <2>1 DEF Harmless, Rules, BronzeRules, Measured, Accepted
  <2> QED
    BY <1>0, <1>1, <1>3, <2>2, FailKeeps
<1>4. CASE status # "fail"
  <2> DEFINE q == [quality[k] EXCEPT !.pc = "graded", !.invalid = v, !.ratio = status]
  <2>0. status \in {"pass", "warn"}
    <3>1. CASE v.content = quality[k].source.content
      <4>1. /\ status = Grade[quality[k].source.content]
            /\ quality[k].source.content \in 1 .. MaxPublications
            /\ Grade[quality[k].source.content] # "empty"
        BY <1>0, <3>1 DEF RatioStatuses, SoundRun
      <4> QED
        BY <1>4, <4>1, QualityAssumption
    <3>2. CASE v.content # quality[k].source.content
      BY <1>4, <3>2 DEF RatioStatuses
    <3> QED
      BY <3>1, <3>2
  <2>1. quality' = [quality EXCEPT ![k] = q] /\ UNCHANGED facts
    BY <1>0, <1>1, <1>4 DEF RunType, QualityInv, RunsInv
  <2>2. /\ q \in RunType /\ q.pc = "graded" /\ q.source = quality[k].source /\ q.invalid = v
        /\ q.snapshot = quality[k].snapshot /\ q.loaded = quality[k].loaded
    BY <1>0, <1>2, <2>0 DEF RunType, QualityPc
  <2> HIDE DEF q
  <2>3. SoundRun(q)
    BY <1>0, <1>2, <2>2, RunOrder, BronzeSound DEF SoundRun, Rechecked
  <2>4. \A t \in SilverTables : q.pc \notin Labelled[t]
    BY <2>2, RunOrder DEF SilverTables
  <2> QED
    BY <1>0, <2>1, <2>3, <2>4, AdvanceKeeps
<1> QED
  BY <1>3, <1>4

\* CheckPartition, CheckSilver and RecheckSource when they succeed.
LEMMA ChecksKeep ==
  ASSUME PipelinesInv, QualityInv, NEW k \in Attempts, NEW pc \in QualityPc, Goto(k, pc),
         UNCHANGED <<silver, facts>>, Bronze' = Bronze,
         \/ quality[k].pc = "graded" /\ pc = "clean"
         \/ /\ quality[k].pc = "readback" /\ pc = "recheck"
            /\ quality[k].snapshot = Bronze.snapshot =>
                   \A t \in SilverTables : quality[k].frame[t].content = Bronze.content
         \/ quality[k].pc = "recheck" /\ pc = "merge" /\ Bronze.snapshot = quality[k].snapshot
         \/ quality[k].pc = "merged" /\ pc = "done"
  PROVE  QualityInv'
<1> DEFINE q == [quality[k] EXCEPT !.pc = pc]
<1>0. SoundRun(quality[k])
  BY DEF QualityInv, RunsInv
<1>1. /\ quality' = [quality EXCEPT ![k] = q] /\ q \in RunType
      /\ q.pc = pc /\ q.snapshot = quality[k].snapshot /\ q.loaded = quality[k].loaded
      /\ q.source = quality[k].source /\ q.invalid = quality[k].invalid
      /\ q.ratio = quality[k].ratio /\ q.frame = quality[k].frame
  BY GotoMoves DEF QualityInv
<1> HIDE DEF q
<1>2. \A t \in SilverTables : q.pc \in Labelled[t] => quality[k].pc \in Labelled[t]
  BY <1>1, RunOrder DEF SilverTables
<1>3. SoundRun(q)
  <2>1. CASE pc = "clean"
    BY <1>0, <1>1, <2>1, RunOrder DEF SoundRun, Rechecked
  <2>2. CASE pc = "recheck"
    BY <1>0, <1>1, <2>2, RunOrder DEF SoundRun, Rechecked
  <2>3. CASE pc = "merge"
    <3>1. /\ quality[k].source = Bronze /\ quality[k].invalid = Bronze
          /\ \A t \in SilverTables : quality[k].frame[t].content = Bronze.content
      BY <1>0, <2>3, RunOrder DEF SoundRun
    <3> QED
      BY <1>0, <1>1, <2>3, <3>1, RunOrder DEF SoundRun, Rechecked
  <2>4. CASE pc = "done"
    BY <1>0, <1>1, <2>4, RunOrder DEF SoundRun, Rechecked
  <2> QED
    BY <2>1, <2>2, <2>3, <2>4
<1> QED
  BY <1>1, <1>2, <1>3, AdvanceKeeps

\* ReplaceSilver: the driver has not labelled what it wrote.
LEMMA ReplaceKeeps ==
  ASSUME PipelinesInv, QualityInv, NEW k \in Attempts, NEW t \in SilverTables, ReplaceSilver(k, t),
         UNCHANGED pipelineVars
  PROVE  QualityInv'
<1> DEFINE pc == IF t = "clean" THEN "label_clean" ELSE "label_quarantine"
           q == [quality[k] EXCEPT !.pc = pc]
<1>0. /\ SoundRun(quality[k]) /\ Bronze' = Bronze /\ quality[k].pc = t /\ quality[k].pc \in AfterLoad
      /\ facts' = facts /\ RunsInv /\ quality \in [Attempts -> RunType]
      /\ silver \in [SilverTables -> [rows : Version, run : Nat, writer : SUBSET Attempts]]
  BY RunOrder DEF QualityInv, RunsInv, SilverInv, pipelineVars, Bronze, ReplaceSilver, SilverTables
<1>1. /\ quality' = [quality EXCEPT ![k] = q] /\ q \in RunType
      /\ q.pc = pc /\ q.snapshot = quality[k].snapshot /\ q.loaded = quality[k].loaded
      /\ q.source = quality[k].source /\ q.invalid = quality[k].invalid
      /\ q.ratio = quality[k].ratio /\ q.frame = quality[k].frame
  <2>1. pc \in QualityPc /\ Goto(k, pc)
    BY DEF ReplaceSilver, QualityPc
  <2> HIDE DEF pc
  <2> QED
    BY <1>0, <2>1, GotoMoves
<1>2. PICK v \in BronzeReads(k) : silver' = [silver EXCEPT ![t].rows = v, ![t].writer = {k}]
  BY DEF ReplaceSilver
<1>3. v \in Version
  BY <1>0, BronzeReadsSound
<1> HIDE DEF q
<1>4. /\ silver' \in [SilverTables -> [rows : Version, run : Nat, writer : SUBSET Attempts]]
      /\ silver'[t].writer = {k} /\ \A u \in SilverTables : u # t => silver'[u] = silver[u]
  BY <1>0, <1>2, <1>3
<1>5. SoundRun(q)
  BY <1>0, <1>1, RunOrder DEF SoundRun, Rechecked, SilverTables
<1>6. quality'[k] = q /\ \A j \in Attempts : j # k => quality'[j] = quality[j]
  BY <1>0, <1>1
<1>7. ASSUME NEW j \in Attempts, NEW u \in SilverTables, silver'[u].writer = {j},
             quality'[j].pc \in Labelled[u]
      PROVE  silver'[u].run = quality'[j].snapshot /\ silver'[u].rows = quality'[j].frame[u]
  <2>1. CASE u = t
    <3>1. j = k
      BY <1>4, <1>7, <2>1
    <3>2. pc \notin Labelled[t]
      BY RunOrder DEF SilverTables
    <3> QED
      BY <1>1, <1>6, <1>7, <2>1, <3>1, <3>2
  <2>2. CASE u # t /\ j # k
    BY <1>4, <1>6, <1>7, <2>2 DEF QualityInv, SilverInv
  <2>3. CASE u # t /\ j = k
    <3>1. quality[k].pc \in Labelled[u]
      BY <1>0, <1>1, <1>6, <1>7, <2>3, RunOrder DEF SilverTables
    <3> QED
      BY <1>1, <1>4, <1>6, <1>7, <2>3, <3>1 DEF QualityInv, SilverInv
  <2> QED
    BY <2>1, <2>2, <2>3
<1>8. SilverInv'
  BY <1>4, <1>7 DEF SilverInv
<1>9. FactsInv'
  BY <1>0 DEF QualityInv, FactsInv, Described
<1> QED
  BY <1>0, <1>1, <1>5, <1>8, <1>9, OneMoves DEF QualityInv

\* LabelSilver: the driver knows the table as it labelled it.
LEMMA LabelKeeps ==
  ASSUME PipelinesInv, QualityInv, NEW k \in Attempts, NEW t \in SilverTables, LabelSilver(k, t),
         UNCHANGED pipelineVars
  PROVE  QualityInv'
<1> DEFINE pc == IF t = "clean" THEN "read_clean" ELSE "read_quarantine"
           frame == [quality[k].frame EXCEPT ![t] = silver[t].rows]
           q == [quality[k] EXCEPT !.pc = pc, !.frame = frame]
<1>0. /\ SoundRun(quality[k]) /\ Bronze' = Bronze /\ quality[k] \in RunType
      /\ quality[k].pc = (IF t = "clean" THEN "label_clean" ELSE "label_quarantine")
      /\ facts' = facts /\ RunsInv /\ quality \in [Attempts -> RunType]
      /\ silver \in [SilverTables -> [rows : Version, run : Nat, writer : SUBSET Attempts]]
  BY DEF QualityInv, RunsInv, SilverInv, pipelineVars, Bronze, LabelSilver
<1>1. /\ frame \in [SilverTables -> Version] /\ frame[t] = silver[t].rows
      /\ \A u \in SilverTables : u # t => frame[u] = quality[k].frame[u]
  BY <1>0 DEF RunType
<1>2. quality' = [quality EXCEPT ![k] = q]
  BY <1>0 DEF LabelSilver, RunType
<1> HIDE DEF frame
<1>3. /\ q \in RunType
      /\ q.pc = pc /\ q.snapshot = quality[k].snapshot /\ q.loaded = quality[k].loaded
      /\ q.source = quality[k].source /\ q.invalid = quality[k].invalid
      /\ q.frame = frame
  BY <1>0, <1>1 DEF RunType, QualityPc
<1> HIDE DEF q
<1>4. /\ silver' \in [SilverTables -> [rows : Version, run : Nat, writer : SUBSET Attempts]]
      /\ silver'[t].writer = {k} /\ silver'[t].rows = silver[t].rows
      /\ silver'[t].run = quality[k].snapshot
      /\ \A u \in SilverTables : u # t => silver'[u] = silver[u]
  BY <1>0 DEF LabelSilver, QualityRunId, RunType
<1>5. SoundRun(q)
  BY <1>0, <1>3, RunOrder DEF SoundRun, Rechecked, SilverTables
<1>6. quality'[k] = q /\ \A j \in Attempts : j # k => quality'[j] = quality[j]
  BY <1>0, <1>2
<1>7. ASSUME NEW j \in Attempts, NEW u \in SilverTables, silver'[u].writer = {j},
             quality'[j].pc \in Labelled[u]
      PROVE  silver'[u].run = quality'[j].snapshot /\ silver'[u].rows = quality'[j].frame[u]
  <2>1. CASE u = t
    <3>1. j = k
      BY <1>4, <1>7, <2>1
    <3> QED
      BY <1>1, <1>3, <1>4, <1>6, <2>1, <3>1
  <2>2. CASE u # t /\ j # k
    BY <1>4, <1>6, <1>7, <2>2 DEF QualityInv, SilverInv
  <2>3. CASE u # t /\ j = k
    <3>1. quality[k].pc \in Labelled[u]
      BY <1>0, <1>3, <1>6, <1>7, <2>3, RunOrder DEF SilverTables
    <3> QED
      BY <1>1, <1>3, <1>4, <1>6, <1>7, <2>3, <3>1 DEF QualityInv, SilverInv
  <2> QED
    BY <2>1, <2>2, <2>3
<1>8. SilverInv'
  BY <1>4, <1>7 DEF SilverInv
<1>9. FactsInv'
  BY <1>0 DEF QualityInv, FactsInv, Described
<1> QED
  BY <1>0, <1>2, <1>5, <1>8, <1>9, OneMoves DEF QualityInv

\* A failing readback fact is harmless.
LEMMA ReadbackHarmless ==
  ASSUME NEW run
  PROVE  Harmless(OneFact("output_readback", "fail", NoVersion), run)
  BY OneFactHarmless DEF Rules, SilverRules, Accepted

\* ReadSilver
LEMMA ReadKeeps ==
  ASSUME PipelinesInv, QualityInv, NEW k \in Attempts, NEW t \in SilverTables, ReadSilver(k, t),
         UNCHANGED pipelineVars
  PROVE  QualityInv'
<1> DEFINE pc == IF t = "clean" THEN "quarantine" ELSE "readback"
<1>0. /\ SoundRun(quality[k]) /\ Bronze' = Bronze /\ quality[k] \in RunType
      /\ quality[k].pc = (IF t = "clean" THEN "read_clean" ELSE "read_quarantine")
      /\ silver' = silver /\ RunsInv /\ quality \in [Attempts -> RunType]
      /\ silver \in [SilverTables -> [rows : Version, run : Nat, writer : SUBSET Attempts]]
  BY DEF QualityInv, RunsInv, SilverInv, pipelineVars, Bronze, ReadSilver
<1>1. CASE FailWith(k, OneFact("output_readback", "fail", NoVersion))
  BY <1>0, <1>1, ReadbackHarmless, FailKeeps
<1>2. ASSUME NEW v \in {quality[k].frame[t], silver[t].rows}, facts' = facts,
             quality' = [quality EXCEPT ![k].frame[t] = v, ![k].pc = pc]
      PROVE  QualityInv'
  <2> DEFINE frame == [quality[k].frame EXCEPT ![t] = v]
             q == [quality[k] EXCEPT !.pc = pc, !.frame = frame]
  <2>1. /\ frame \in [SilverTables -> Version] /\ frame[t] = v
        /\ \A u \in SilverTables : u # t => frame[u] = quality[k].frame[u]
    BY <1>0 DEF RunType
  <2>2. quality' = [quality EXCEPT ![k] = q]
    BY <1>0, <1>2 DEF RunType
  <2> HIDE DEF frame
  <2>3. /\ q \in RunType
        /\ q.pc = pc /\ q.snapshot = quality[k].snapshot /\ q.loaded = quality[k].loaded
        /\ q.source = quality[k].source /\ q.invalid = quality[k].invalid /\ q.frame = frame
    BY <1>0, <2>1 DEF RunType, QualityPc
  <2> HIDE DEF q
  <2>4. SoundRun(q)
    BY <1>0, <2>3, RunOrder DEF SoundRun, Rechecked, SilverTables
  <2>5. ASSUME NEW u \in SilverTables, q.pc \in Labelled[u]
        PROVE  /\ quality[k].pc \in Labelled[u]
               /\ q.frame[u] \in {quality[k].frame[u], silver[u].rows}
    <3>1. quality[k].pc \in Labelled[u]
      BY <1>0, <2>3, <2>5, RunOrder DEF SilverTables
    <3> QED
      BY <2>1, <2>3, <3>1
  <2> QED
    BY <1>0, <1>2, <2>2, <2>3, <2>4, <2>5, AdvanceKeeps
<1> QED
  BY <1>1, <1>2 DEF ReadSilver

\* All eight facts of a driver past its recheck are of its snapshot's content.
LEMMA AllFactsHarmless ==
  ASSUME RunsInv, NEW k \in Attempts, quality[k].pc \in Rechecked, NEW clean, NEW ratio
  PROVE  Harmless(AllFacts(k, clean, ratio), quality[k].snapshot)
<1> DEFINE all == AllFacts(k, clean, ratio)
<1>1. /\ quality[k].source.snapshot = quality[k].snapshot
      /\ quality[k].invalid.snapshot = quality[k].snapshot
      /\ \A t \in SilverTables : quality[k].frame[t].content = quality[k].source.content
  BY DEF RunsInv, SoundRun
<1>2. DOMAIN all = Rules
  BY DEF AllFacts
<1>3. /\ all["source_available"] = BronzeFacts(k, quality[k].invalid, quality[k].ratio)["source_available"]
      /\ all["invalid_ratio"] = BronzeFacts(k, quality[k].invalid, quality[k].ratio)["invalid_ratio"]
      /\ all["clean_nonempty"] = SilverFacts(k, clean, ratio)["clean_nonempty"]
      /\ all["quarantine_ratio"] = SilverFacts(k, clean, ratio)["quarantine_ratio"]
  BY DEF AllFacts, Rules, BronzeRules, SilverRules
<1>4. /\ all["source_available"].version = quality[k].source
      /\ all["invalid_ratio"].version = quality[k].invalid
  BY <1>3 DEF BronzeFacts, BronzeRules, Fact
<1>5. /\ all["clean_nonempty"].version = quality[k].frame["clean"]
      /\ all["quarantine_ratio"].version = quality[k].frame["quarantine"]
  BY <1>3 DEF SilverFacts, SilverRules, Fact
<1> HIDE DEF all
<1>6. Described(all, quality[k].snapshot)
  BY <1>1, <1>4, <1>5 DEF Described, SilverTables
<1> QED
  BY <1>2, <1>6 DEF Harmless, Rules, BronzeRules, SilverRules, Measured, all

\* MergeFacts
LEMMA MergeKeeps ==
  ASSUME PipelinesInv, QualityInv, NEW k \in Attempts, MergeFacts(k), UNCHANGED pipelineVars
  PROVE  QualityInv'
<1>0. /\ SoundRun(quality[k]) /\ Bronze' = Bronze /\ quality[k].pc = "merge"
      /\ silver' = silver /\ quality[k].snapshot \in Nat
  BY DEF QualityInv, RunsInv, RunType, pipelineVars, Bronze, MergeFacts
<1>1. PICK ratio, clean :
          IF ratio = "fail"
            THEN FailWith(k, AllFacts(k, clean, ratio))
            ELSE /\ facts' = Merged(QualityRunId(quality[k].snapshot), AllFacts(k, clean, ratio))
                 /\ Goto(k, "merged")
  BY DEF MergeFacts
<1>2. Harmless(AllFacts(k, clean, ratio), quality[k].snapshot)
  BY <1>0, AllFactsHarmless DEF QualityInv, Rechecked
<1>3. CASE ratio = "fail"
  BY <1>0, <1>1, <1>2, <1>3, FailKeeps
<1>4. CASE ratio # "fail"
  <2> DEFINE q == [quality[k] EXCEPT !.pc = "merged"]
  <2>1. FactsInv'
    BY <1>0, <1>1, <1>2, <1>4, MergeKeepsFacts DEF QualityInv, QualityRunId
  <2>2. /\ quality' = [quality EXCEPT ![k] = q] /\ q \in RunType
        /\ q.pc = "merged" /\ q.snapshot = quality[k].snapshot /\ q.loaded = quality[k].loaded
        /\ q.source = quality[k].source /\ q.invalid = quality[k].invalid
        /\ q.ratio = quality[k].ratio /\ q.frame = quality[k].frame
    BY <1>1, <1>4, GotoMoves DEF QualityInv, QualityPc
  <2> HIDE DEF q
  <2>3. SoundRun(q)
    BY <1>0, <2>2, RunOrder DEF SoundRun, Rechecked
  <2>4. \A t \in SilverTables : quality[k].pc \in Labelled[t]
    BY <1>0, RunOrder DEF SilverTables
  <2>5. RunsInv' /\ SilverInv'
    BY <1>0, <2>2, <2>3, <2>4, OneMoves, SilverStays DEF QualityInv
  <2> QED
    BY <2>1, <2>5 DEF QualityInv
<1> QED
  BY <1>3, <1>4

\* The steps that end a driver.
LEMMA EndingsKeep ==
  ASSUME PipelinesInv, QualityInv, NEW k \in Attempts, UNCHANGED pipelineVars,
         CaptureFails(k) \/ SourceStale(k) \/ StoreFails(k) \/ QualityKilled(k)
  PROVE  QualityInv'
<1>0. Bronze' = Bronze /\ silver' = silver
  BY DEF pipelineVars, Bronze, CaptureFails, SourceStale, StoreFails, QualityKilled
<1>1. \A rule \in Rules, status \in {"missing", "stale", "fail"} :
          Harmless(OneFact(rule, status, NoVersion), quality[k].snapshot)
  BY OneFactHarmless DEF Accepted
<1>2. /\ {"source_available", "schema", "snapshot_freshness", "invalid_ratio"} \subseteq Rules
      /\ {"partition_conservation", "output_readback"} \subseteq Rules
  BY DEF Rules, BronzeRules, SilverRules
<1>3. CASE Goto(k, "failed") /\ facts' = facts
  BY <1>0, <1>3, EndKeeps
<1>4. ASSUME NEW rule \in Rules, NEW status \in {"missing", "stale", "fail"},
             FailWith(k, OneFact(rule, status, NoVersion))
      PROVE  QualityInv'
  BY <1>0, <1>1, <1>4, FailKeeps
<1>5. CASE CaptureFails(k)
  BY <1>2, <1>3, <1>4, <1>5 DEF CaptureFails
<1>6. CASE SourceStale(k)
  BY <1>2, <1>4, <1>6 DEF SourceStale
<1>7. CASE QualityKilled(k)
  BY <1>3, <1>7 DEF QualityKilled
<1>8. CASE StoreFails(k)
  <2>1. PICK new \in StoreDiagnostics(k) :
            IF new = <<>> THEN Goto(k, "failed") /\ UNCHANGED facts ELSE FailWith(k, new)
    BY <1>8 DEF StoreFails
  <2>2. new = <<>> \/ \E rule \in Rules : new = OneFact(rule, "fail", NoVersion)
    BY <1>2 DEF StoreDiagnostics
  <2> QED
    BY <1>3, <1>4, <2>1, <2>2
<1> QED
  BY <1>5, <1>6, <1>7, <1>8

\* Every step of a driver keeps the invariant.
LEMMA QualityKeep ==
  ASSUME PipelinesInv, QualityInv, QualityNext, UNCHANGED pipelineVars
  PROVE  QualityInv'
<1>0. Bronze' = Bronze
  BY DEF pipelineVars, Bronze
<1>1. PICK k \in Attempts : QualityStepOf(k)
  BY DEF QualityNext
<1>2. {"clean", "recheck", "merge", "done"} \subseteq QualityPc
  BY DEF QualityPc
<1>3. CASE CheckPartition(k)
  <2>1. quality[k].pc = "graded" /\ silver' = silver
    BY <1>3 DEF CheckPartition
  <2>2. CASE Goto(k, "clean") /\ facts' = facts
    BY <1>0, <1>2, <2>1, <2>2, ChecksKeep
  <2>3. CASE FailWith(k, OneFact("partition_conservation", "fail", NoVersion))
    <3>1. Harmless(OneFact("partition_conservation", "fail", NoVersion), quality[k].snapshot)
      BY OneFactHarmless DEF Rules, SilverRules, Accepted
    <3> QED
      BY <1>0, <2>1, <2>3, <3>1, FailKeeps
  <2> QED
    BY <1>3, <2>2, <2>3 DEF CheckPartition
<1>4. CASE CheckSilver(k)
  <2>1. quality[k].pc = "readback" /\ silver' = silver /\ quality[k].pc \in AfterLoad
    BY <1>4, RunOrder DEF CheckSilver
  <2>2. PICK v \in BronzeReads(k) :
           IF \A t \in SilverTables : quality[k].frame[t].content = v.content
             THEN Goto(k, "recheck") /\ UNCHANGED facts
             ELSE FailWith(k, OneFact("output_readback", "fail", NoVersion))
    BY <1>4 DEF CheckSilver
  <2>3. quality[k].snapshot = Bronze.snapshot => v = Bronze
    BY <2>1, BronzeReadsSound DEF QualityInv
  <2>4. CASE \A t \in SilverTables : quality[k].frame[t].content = v.content
    BY <1>0, <1>2, <2>1, <2>2, <2>3, <2>4, ChecksKeep
  <2>5. CASE ~\A t \in SilverTables : quality[k].frame[t].content = v.content
    BY <1>0, <2>1, <2>2, <2>5, ReadbackHarmless, FailKeeps
  <2> QED
    BY <2>4, <2>5
<1>5. CASE RecheckSource(k)
  <2>1. quality[k].pc = "recheck" /\ silver' = silver
    BY <1>5 DEF RecheckSource
  <2>2. CASE Bronze.snapshot = quality[k].snapshot
    <3>1. Goto(k, "merge") /\ facts' = facts
      BY <1>5, <2>2 DEF RecheckSource
    <3> QED
      BY <1>0, <1>2, <2>1, <2>2, <3>1, ChecksKeep
  <2>3. CASE Bronze.snapshot # quality[k].snapshot
    <3>1. FailWith(k, OneFact("output_readback", "fail", NoVersion))
      BY <1>5, <2>3 DEF RecheckSource
    <3> QED
      BY <1>0, <2>1, <3>1, ReadbackHarmless, FailKeeps
  <2> QED
    BY <2>2, <2>3
<1>6. CASE ReadFacts(k)
  <2>1. quality[k].pc = "merged" /\ UNCHANGED <<silver, facts>> /\ (Goto(k, "done") \/ Goto(k, "failed"))
    BY <1>6 DEF ReadFacts
  <2> QED
    BY <1>0, <1>2, <2>1, ChecksKeep, EndKeeps
<1> QED
  BY <1>1, <1>3, <1>4, <1>5, <1>6, CaptureKeeps, CountKeeps, GradeKeeps, ReplaceKeeps, LabelKeeps,
     ReadKeeps, MergeKeeps, EndingsKeep
     DEF QualityStepOf

\* A writer beside the drivers keeps it too: Bronze only moves on.
LEMMA QualityBesideWriters ==
  ASSUME PipelinesInv, PipelinesInv', QualityInv, UNCHANGED qualityVars,
         \A t \in AllTables : TableMoves(t)
  PROVE  QualityInv'
<1>1. UNCHANGED <<quality, silver, facts>>
  BY DEF qualityVars
<1>2. Bronze' = Bronze \/ Bronze'.snapshot > Bronze.snapshot
  BY DEF TableMoves, Bronze, AllTables, NycTables
<1>3. Bronze.snapshot \in Nat /\ Bronze'.snapshot \in Nat
  <2>1. Bronze \in Version /\ Bronze' \in Version
    BY DEF PipelinesInv, PipelinesTypeOK, Bronze, AllTables, NycTables
  <2> QED
    BY <2>1 DEF Version
<1>4. ASSUME NEW k \in Attempts PROVE SoundRun(quality[k])'
  <2>1. SoundRun(quality[k]) /\ quality[k].snapshot \in Nat
    BY DEF QualityInv, RunsInv, RunType
  <2>2. CASE Bronze' = Bronze
    BY <1>1, <2>1, <2>2 DEF SoundRun
  <2>3. CASE Bronze'.snapshot > Bronze.snapshot
    <3>1. CASE quality[k].pc \in AfterCapture
      <4>1. quality[k].snapshot <= Bronze'.snapshot /\ quality[k].snapshot # Bronze'.snapshot
        BY <1>3, <2>1, <2>3, <3>1 DEF SoundRun
      <4> QED
        BY <1>1, <2>1, <4>1 DEF SoundRun
    <3>2. CASE quality[k].pc \notin AfterCapture
      <4>1. /\ quality[k].pc \notin AfterLoad /\ quality[k].pc \notin AfterCount
            /\ quality[k].pc \notin AfterGrade /\ quality[k].pc \notin Checked
        BY <3>2, RunOrder
      <4> QED
        BY <1>1, <2>1, <3>2, <4>1 DEF SoundRun
    <3> QED
      BY <3>1, <3>2
  <2> QED
    BY <1>2, <2>2, <2>3
<1> QED
  BY <1>1, <1>4 DEF QualityInv, RunsInv, SilverInv, FactsInv, Described
-----------------------------------------------------------------------------
(* The theorems.                                                            *)

LEMMA LakehouseInit ==
  ASSUME Init
  PROVE  LakehouseInv
<1>0. /\ MaxPublications \in Nat \ {0} /\ MaxPages \in Nat \ {0} /\ RowParts \in Nat \ {0}
      /\ MaxAttempts \in Nat \ {0}
  BY PipelinesAssumption, TrinoBiAssumption
<1>1. PipelinesInv
  <2>1. /\ dataset \in {"tpch", "nyc_taxi"}
        /\ drivers = [k \in Drivers |-> [pc |-> "waiting", res |-> 0, reported |-> "running"]]
        /\ tables = [t \in AllTables |-> [snapshot |-> 1, content |-> 1,
                                           props |-> IF t \in TpchTables THEN 1 ELSE 0]]
    BY DEF Init, PipelinesInit
  <2>2. PipelinesTypeOK
    BY <1>0, <2>1 DEF PipelinesTypeOK, Version
  <2> QED
    BY <1>0, <2>1, <2>2 DEF PipelinesInv, AllTables
<1>2. BiInv
  <2>1. /\ bi = [pc |-> "ready", attempt |-> 1, results |-> <<>>]
        /\ query = NoQuery /\ server = NoServer
        /\ abandoned = NotAbandoned /\ artifact = NoArtifact /\ dataset \in {"tpch", "nyc_taxi"}
    BY DEF Init, PipelinesInit, TrinoInit
  <2>2. ClientInv
    BY <1>0, <2>1 DEF ClientInv, CancelInv, NoQuery, NotAbandoned, NoUri, Refused
  <2>3. ScriptInv
    <3>1. <<>> \in Seq(ResultType) /\ Len(<<>>) = 0
      OBVIOUS
    <3>2. /\ bi \in [pc : {"ready", "query", "done", "failed"}, attempt : 1 .. MaxAttempts,
                     results : Seq(ResultType)]
          /\ Len(bi.results) = 0 /\ bi.pc # "query"
      BY <1>0, <2>1, <3>1
    <3>3. server.read = <<>> /\ query.pc = "idle"
      BY <2>1 DEF NoServer, NoQuery
    <3>4. server = [read |-> server.read, sent |-> query.rows, named |-> query.cancel]
      BY <2>1 DEF NoServer, NoQuery
    <3>5. Len(Script) \in Nat
      BY <2>1, ScriptSteps
    <3> QED
      BY <2>1, <3>2, <3>3, <3>4, <3>5, NothingRead DEF ScriptInv
  <2>4. bi.results = <<>> /\ Len(bi.results) = 0 /\ DOMAIN server.read = {}
    BY <2>1, NothingRead DEF NoServer
  <2>5. OnePublication /\ ArtifactMatchesSource
    BY <2>1, <2>4 DEF OnePublication, ArtifactMatchesSource
  <2>6. ASSUME NEW t PROVE Ordered(t)
    <3>1. \A i \in 1 .. 7 : ~Known(i, t)
      BY <2>4 DEF Known
    <3>2. CASE dataset = "tpch"
      <4>1. SnapshotStep = 2 /\ TotalsStep = 4 /\ SegmentsStep = 5 /\ LastStep = 7
        BY <3>2, ScriptSteps
      <4> QED
        BY <3>1, <4>1 DEF Ordered, PropertiesStep
    <3>3. CASE dataset = "nyc_taxi"
      <4>1. SnapshotStep = 1 /\ TotalsStep = 3 /\ SegmentsStep = 4 /\ LastStep = 5
        BY <3>3, ScriptSteps
      <4> QED
        BY <3>1, <3>3, <4>1 DEF Ordered
    <3> QED
      BY <2>1, <3>2, <3>3
  <2> QED
    BY <2>2, <2>3, <2>5, <2>6 DEF BiInv
<1>3. QualityInv
  <2> DEFINE start == [pc |-> "waiting", snapshot |-> Missing, loaded |-> NoVersion,
                       source |-> NoVersion, invalid |-> NoVersion, ratio |-> "none",
                       frame |-> [t \in SilverTables |-> NoVersion]]
  <2>1. /\ quality = [k \in Attempts |-> start]
        /\ silver = [t \in SilverTables |-> [rows |-> NoVersion, run |-> Missing, writer |-> {}]]
        /\ facts = <<>>
    BY DEF Init, QualityInit
  <2>2. NoVersion \in Version /\ Missing \in Nat /\ {} \in SUBSET Attempts
    BY DEF NoVersion, Version, Missing
  <2>3. start \in RunType /\ start.pc = "waiting"
    BY <2>2 DEF RunType, QualityPc
  <2> HIDE DEF start
  <2>4. SoundRun(start)
    BY <2>3, RunOrder DEF SoundRun, Rechecked
  <2>5. RunsInv
    BY <2>1, <2>3, <2>4 DEF RunsInv
  <2>6. SilverInv
    <3>1. \A t \in SilverTables : silver[t].writer = {}
      BY <2>1
    <3> QED
      BY <2>1, <2>2, <3>1 DEF SilverInv
  <2>7. FactsInv
    BY <2>1, NothingRead DEF FactsInv
  <2> QED
    BY <2>5, <2>6, <2>7 DEF QualityInv
<1> QED
  BY <1>1, <1>2, <1>3 DEF LakehouseInv

LEMMA LakehouseStep ==
  ASSUME LakehouseInv, [Next]_vars
  PROVE  LakehouseInv'
<1>1. PipelinesInv /\ BiInv /\ QualityInv
  BY DEF LakehouseInv
<1>2. CASE PipelinesNext /\ UNCHANGED <<biVars, qualityVars>>
  <2>1. PipelinesInv' /\ dataset' = dataset /\ \A t \in AllTables : TableMoves(t)
    BY <1>1, <1>2, PipelinesKeep
  <2> QED
    BY <1>1, <1>2, <2>1, BiBesideWriters, QualityBesideWriters DEF LakehouseInv
<1>3. ASSUME UNCHANGED pipelineVars
      PROVE  /\ PipelinesInv' /\ dataset' = dataset
             /\ \A t \in AllTables : TableMoves(t)
  BY <1>1, <1>3 DEF pipelineVars, PipelinesInv, PipelinesTypeOK, TableMoves
<1>4. CASE TrinoNext /\ UNCHANGED <<pipelineVars, qualityVars>>
  <2>1. BiInv'
    BY <1>1, <1>4, BiKeep
  <2> QED
    BY <1>1, <1>3, <1>4, <2>1, QualityBesideWriters DEF LakehouseInv
<1>5. CASE QualityNext /\ UNCHANGED <<pipelineVars, biVars>>
  <2>1. QualityInv'
    BY <1>1, <1>5, QualityKeep
  <2> QED
    BY <1>1, <1>3, <1>5, <2>1, BiBesideWriters DEF LakehouseInv
<1>6. CASE UNCHANGED <<pipelineVars, biVars, qualityVars>>
  BY <1>1, <1>3, <1>6, BiBesideWriters, QualityBesideWriters DEF LakehouseInv
<1> QED
  BY <1>2, <1>4, <1>5, <1>6 DEF Next, WriterStep, BiStep, QualityStep, vars

\* The invariant of the pipelines and their readers.
THEOREM LakehouseInvariant == Spec => []LakehouseInv
<1>1. Init => LakehouseInv
  BY LakehouseInit
<1>2. LakehouseInv /\ [Next]_vars => LakehouseInv'
  BY LakehouseStep
<1> QED
  BY <1>1, <1>2, PTL DEF Spec

\* The artifact of a BI task (build_tpch_artifact, build_nyc_artifact) is what it
\* says it is for every number of drivers, publications, pages and attempts: its
\* totals and all its rows come from the snapshots it records, and those of the
\* star schema from the publication it records, although nothing locked the
\* tables between the queries.
THEOREM ArtifactsDescribeSource == Spec => []ArtifactMatchesSource
<1>1. LakehouseInv => ArtifactMatchesSource
  BY DEF LakehouseInv, BiInv
<1> QED
  BY <1>1, LakehouseInvariant, PTL

\* TrinoHttpClient._execute, giving up on whichever page for whichever reason,
\* sends its DELETE to the URI the newest complete answer named; it leaves a
\* running query without one only when that URI was refused or no answer was
\* complete.  The three components keep their types.
THEOREM QueriesCancelled == Spec => []CancelledAsNamed
<1>1. LakehouseInv => CancelledAsNamed
  <2> SUFFICES ASSUME LakehouseInv PROVE CancelledAsNamed
    OBVIOUS
  <2>1. PipelinesInv /\ ClientInv /\ ScriptInv /\ QualityInv
    BY DEF LakehouseInv, BiInv
  <2>2. TrinoTypeOK
    <3>1. /\ bi.pc \in {"ready", "query", "done", "failed"} /\ bi.attempt \in 1 .. MaxAttempts
          /\ bi.results \in Seq(ResultType) /\ Len(bi.results) <= Len(Script)
      BY <2>1 DEF ScriptInv
    <3>2. /\ query.pc \in {"idle", "next", "waiting"}
          /\ query.pages \in 0 .. MaxPages /\ query.rows \in 0 .. RowParts
          /\ query.uri \notin query.seen \/ query.pc = "waiting"
          /\ query.cancel \in {NoUri, query.uri}
          /\ abandoned \in [running : BOOLEAN, named : Nat \cup {Refused}, deleted : Nat]
      BY <2>1 DEF ClientInv, CancelInv
    <3> QED
      BY <3>1, <3>2 DEF TrinoTypeOK, ResultType
  <2>3. QualityTypeOK
    BY <2>1 DEF QualityTypeOK, QualityInv, RunsInv, RunType, SilverInv, FactsInv
  <2> QED
    BY <2>1, <2>2, <2>3 DEF CancelledAsNamed, LakehouseTypeOK, PipelinesInv, ClientInv, CancelInv
<1> QED
  BY <1>1, LakehouseInvariant, PTL

\* What the dashboards accept as a run of the quality job (all eight facts, none
\* failing) was measured on the snapshot its run ID names and on Silver rows of
\* its content, however often the ETL replaced Bronze and however the drivers of
\* any number of attempts overlapped and MERGEd into the same run ID.
THEOREM AcceptedFactsTrue == Spec => []AcceptedFactsDescribeSnapshot
<1>1. LakehouseInv => AcceptedFactsDescribeSnapshot
  <2> SUFFICES ASSUME LakehouseInv, NEW run \in DOMAIN facts, DOMAIN facts[run] = Rules,
                      \A r \in Rules : facts[run][r].status \in {"pass", "warn"}
               PROVE  LET source == facts[run]["source_available"].version
                      IN  /\ source.snapshot = run
                          /\ facts[run]["invalid_ratio"].version.snapshot = run
                          /\ \A r \in {"clean_nonempty", "quarantine_ratio"} :
                                 facts[run][r].version.content = source.content
    BY DEF AcceptedFactsDescribeSnapshot
  <2>1. Described(facts[run], run)
    BY DEF LakehouseInv, QualityInv, FactsInv
  <2>2. Measured \subseteq Rules
    BY DEF Measured, Rules, BronzeRules, SilverRules
  <2> QED
    BY <2>1, <2>2 DEF Described, Accepted
<1> QED
  BY <1>1, LakehouseInvariant, PTL

\* A driver of the quality job that reports success leaves each Silver table with
\* the rows of its snapshot under its run ID until another attempt's driver
\* commits to that table, for any number of drivers that overlap with it.
THEOREM SuccessfulRunLeavesSilver == Spec => []SuccessLeavesSilver
<1>1. LakehouseInv => SuccessLeavesSilver
  <2> SUFFICES ASSUME LakehouseInv, NEW k \in Attempts, NEW t \in SilverTables,
                      quality[k].pc = "done", silver[t].writer = {k}
               PROVE  /\ quality[k].source.snapshot = quality[k].snapshot
                      /\ silver[t].rows.content = quality[k].source.content
                      /\ silver[t].run = QualityRunId(quality[k].snapshot)
    BY DEF SuccessLeavesSilver
  <2>1. SoundRun(quality[k]) /\ SilverInv
    BY DEF LakehouseInv, QualityInv, RunsInv
  <2>2. quality[k].pc \in Rechecked /\ quality[k].pc \in Labelled[t]
    BY RunOrder DEF Rechecked, SilverTables
  <2> QED
    BY <2>1, <2>2 DEF SoundRun, SilverInv, QualityRunId
<1> QED
  BY <1>1, LakehouseInvariant, PTL
=============================================================================
