------------------------------ MODULE Lakehouse ------------------------------
(***************************************************************************)
(* The pipelines and the readers of their tables, together: the star       *)
(* schema with its BI task, the NYC Bronze table with its BI task, and the *)
(* NYC Bronze table with the quality job.  A behaviour follows one reader. *)
(***************************************************************************)
EXTENDS TrinoBi, NycQuality

VARIABLE reader

vars == <<pipelineVars, biVars, qualityVars, reader>>

Init ==
    /\ PipelinesInit /\ TrinoInit /\ QualityInit
    /\ reader \in IF dataset = "tpch" THEN {"bi"} ELSE {"bi", "quality"}

WriterStep == PipelinesNext /\ UNCHANGED <<biVars, qualityVars, reader>>
BiStep == reader = "bi" /\ TrinoNext /\ UNCHANGED <<pipelineVars, qualityVars, reader>>
QualityStep == reader = "quality" /\ QualityNext /\ UNCHANGED <<pipelineVars, biVars, reader>>

Next == WriterStep \/ BiStep \/ QualityStep

Spec == Init /\ [][Next]_vars

-----------------------------------------------------------------------------
\* All the variables of the three components keep their types.
LakehouseTypeOK == PipelinesTypeOK /\ TrinoTypeOK /\ QualityTypeOK

\* An artifact is what it says it is, whatever the writers did meanwhile: its
\* totals and all its rows were read from exactly the snapshots it records,
\* and (TPC-H) every one of those snapshots was committed with the publication
\* it records.
ArtifactMatchesSource ==
    artifact # NoArtifact =>
        /\ artifact.rows.rows = RowParts
        /\ \A t \in SourceTables :
             /\ artifact.rows.read[t].snapshot = artifact.snapshots[t]
             /\ artifact.totals.read[t].snapshot = artifact.snapshots[t]
             /\ dataset = "tpch" => artifact.rows.read[t].content = artifact.provenance

\* A client that gives up on a query Trino still runs has sent its DELETE to the
\* URI that the newest complete answer named, never to one of an earlier answer.
\* The query stays behind without a DELETE in two cases only: that URI was
\* refused (an earlier usable one is then not used either), or no answer was
\* complete.  A repeated URI is the newest one too: its DELETE goes to a page
\* already consumed.  A query whose last answer named no URI gets no DELETE.
\* Pages, attempts and runs stay within their limits meanwhile.
CancelledAsNamed ==
    /\ LakehouseTypeOK
    /\ abandoned.deleted = IF abandoned.running /\ abandoned.named # Refused
                             THEN abandoned.named ELSE NoUri

\* A complete fact set without a failing rule (what the dashboards accept as a
\* run) was measured on the snapshot its run ID names: the Bronze metrics on that
\* snapshot itself, the Silver metrics on rows of its content, even when drivers
\* of several attempts wrote to it and to Silver at once and the last one failed.
AcceptedFactsDescribeSnapshot ==
    \A run \in DOMAIN facts :
        (DOMAIN facts[run] = Rules /\ \A r \in Rules : facts[run][r].status \in {"pass", "warn"}) =>
            LET source == facts[run]["source_available"].version
            IN  /\ source.snapshot = run
                /\ facts[run]["invalid_ratio"].version.snapshot = run
                /\ \A r \in {"clean_nonempty", "quarantine_ratio"} :
                       facts[run][r].version.content = source.content

\* A driver that reports success leaves each Silver table with the rows of its
\* snapshot under its own run ID, as long as no other attempt's driver has
\* committed to that table since: what others committed before, between its own
\* two commits or between its two tables does not change their content.
SuccessLeavesSilver ==
    \A k \in Attempts : \A t \in SilverTables :
        quality[k].pc = "done" /\ silver[t].writer = {k} =>
            /\ quality[k].source.snapshot = quality[k].snapshot
            /\ silver[t].rows.content = quality[k].source.content
            /\ silver[t].run = QualityRunId(quality[k].snapshot)
=============================================================================
