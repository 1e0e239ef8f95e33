------------------------------ MODULE Pipelines ------------------------------
(***************************************************************************)
(* The Spark pipelines that fill the lakehouse tables.  An Airflow task    *)
(* (spark-apps/*/dag.py) asks the dataset resolver for the active          *)
(* publication of its dataset, checks the answer, and submits a Spark      *)
(* driver with the immutable URIs of that publication; the driver replaces *)
(* its Iceberg tables one commit at a time.                                *)
(*                                                                         *)
(* A task is retried once (retries = 1).  The driver runs in cluster mode, *)
(* so an attempt Airflow gave up on may leave a driver that keeps writing. *)
(* Driver k of the star-schema DAG is attempt k of its one active run;     *)
(* nyc_taxi_etl sets no max_active_runs, so its drivers overlap freely.    *)
(***************************************************************************)
EXTENDS Integers, FiniteSets

CONSTANTS Scales,           \* the dataset scales an operator may publish
          Drivers,          \* Spark drivers of one DAG, 1..n
          MaxPublications   \* publications of a dataset that are told apart

ASSUME PipelinesAssumption ==
    /\ Scales \subseteq {"tiny", "small", "medium"} /\ Scales # {}
    /\ Drivers = 1 .. Cardinality(Drivers) /\ IsFiniteSet(Drivers)
    /\ MaxPublications \in Nat \ {0}

VARIABLES dataset,   \* the dataset whose pipeline is followed
          drivers,   \* driver -> its attempt of the DAG's task
          tables     \* Iceberg table -> its main snapshot

pipelineVars == <<dataset, drivers, tables>>

TpchTables == {"dim_customer", "fct_orders"}
NycTables == {"nyc_taxi_trips"}
AllTables == TpchTables \cup NycTables

\* A commit replaces snapshot, rows and properties of a table in one metadata swap.
Version == [snapshot : Nat, content : Nat, props : Nat]
NoVersion == [snapshot |-> 0, content |-> 0, props |-> 0]

\* The file names a publication must hold: eight TPC-H tables, or one NYC
\* file per month of the scale.
ExpectedNames(scale) ==
    CASE dataset = "tpch"   -> 8
      [] scale = "tiny"     -> 1
      [] scale = "small"    -> 3
      [] scale = "medium"   -> 6

\* What the resolver may answer: the active publication, which a publish moved
\* forward or a rollback moved back since the last answer, of any scale; or a
\* document of it that is cut short, names files of two publications, lists an
\* empty file or other schemas.
Answers ==
    LET exact(p, s) == [scale |-> s, publication |-> p, names |-> ExpectedNames(s),
                        smallest |-> 1, schemas |-> TRUE, generations |-> {p}]
    IN  UNION {{exact(p, s), [exact(p, s) EXCEPT !.names = @ - 1],
                [exact(p, s) EXCEPT !.generations = @ \cup {0}],
                [exact(p, s) EXCEPT !.smallest = 0], [exact(p, s) EXCEPT !.schemas = FALSE]} :
                   p \in 1 .. MaxPublications, s \in Scales}

\* _resolve_dataset of tpch-star-schema: also every file nonempty and of its schema.
TpchAccepted(answer, scale) ==
    /\ answer.scale = scale
    /\ answer.names = ExpectedNames(scale)
    /\ answer.smallest > 0 /\ answer.schemas
    /\ answer.generations = {answer.publication}

\* _resolve_dataset of nyc-taxi-etl: an empty file is accepted, schemas are not compared.
NycAccepted(answer, scale) ==
    /\ answer.scale = scale
    /\ answer.names = ExpectedNames(scale)
    /\ answer.generations = {answer.publication}

\* _effective_scale: the run's dataset_scale or DATASET_SCALE, if it is a scale.
EffectiveScales == Scales

PipelinesTypeOK ==
    /\ dataset \in {"tpch", "nyc_taxi"}
    /\ drivers \in [Drivers ->
          [pc : {"waiting", "resolved", "dimension", "fact", "ended"},
           res : 0 .. MaxPublications,
           reported : {"running", "success", "failed"}]]
    /\ tables \in [AllTables -> Version]

PipelinesInit ==
    /\ dataset \in {"tpch", "nyc_taxi"}
    /\ drivers = [k \in Drivers |-> [pc |-> "waiting", res |-> 0, reported |-> "running"]]
    /\ tables = [t \in AllTables |-> [snapshot |-> 1, content |-> 1,
                                       props |-> IF t \in TpchTables THEN 1 ELSE 0]]

-----------------------------------------------------------------------------
\* max_active_runs = 1 and retries = 1: attempt k starts once Airflow has given
\* up on attempt k - 1, because it failed or because Airflow lost sight of it,
\* in which case its driver may still be running.
TpchMayStart(k) == k > 1 => drivers[k - 1].pc # "waiting" /\ drivers[k - 1].reported # "success"

\* AtlasSparkSubmitOperator.execute of tpch-star-schema.
SubmitTpch(k) ==
    /\ dataset = "tpch" /\ drivers[k].pc = "waiting" /\ TpchMayStart(k)
    /\ \E scale \in EffectiveScales, answer \in Answers :
          drivers' = [j \in Drivers |->
              CASE j = k - 1 -> [drivers[j] EXCEPT !.reported = "failed"]
                [] j = k /\ TpchAccepted(answer, scale)
                             -> [drivers[j] EXCEPT !.pc = "resolved", !.res = answer.publication]
                [] j = k /\ ~TpchAccepted(answer, scale)
                             -> [drivers[j] EXCEPT !.pc = "ended", !.reported = "failed"]
                [] OTHER     -> drivers[j]]
    /\ UNCHANGED <<dataset, tables>>

\* AtlasSparkSubmitOperator.execute of nyc-taxi-etl.
SubmitNyc(k) ==
    /\ dataset = "nyc_taxi" /\ drivers[k].pc = "waiting"
    /\ \E scale \in EffectiveScales, answer \in Answers :
          drivers' = [drivers EXCEPT ![k] =
              IF NycAccepted(answer, scale)
                THEN [@ EXCEPT !.pc = "resolved", !.res = answer.publication]
                ELSE [@ EXCEPT !.pc = "ended", !.reported = "failed"]]
    /\ UNCHANGED <<dataset, tables>>

\* createOrReplace commits rows and the provenance properties together.
Replaced(t, publication) ==
    [tables EXCEPT ![t] = [snapshot |-> @.snapshot + 1, content |-> publication, props |-> publication]]

\* TpchSources.parse found one generation, the sources were validated, both
\* outputs counted and found nonempty: the dimension is replaced first.
ReplaceDimension(k) ==
    /\ dataset = "tpch" /\ drivers[k].pc = "resolved"
    /\ tables' = Replaced("dim_customer", drivers[k].res)
    /\ drivers' = [drivers EXCEPT ![k].pc = "dimension"]
    /\ UNCHANGED dataset

ReplaceFact(k) ==
    /\ drivers[k].pc = "dimension"
    /\ tables' = Replaced("fct_orders", drivers[k].res)
    /\ drivers' = [drivers EXCEPT ![k].pc = "fact"]
    /\ UNCHANGED dataset

\* The driver ends; an attempt Airflow gave up on stays failed.
Finish(k, ok) ==
    [drivers EXCEPT ![k].pc = "ended",
                    ![k].reported = IF @ = "failed" THEN @ ELSE IF ok THEN "success" ELSE "failed"]

\* Both tables' properties are read back.  The other driver commits each table
\* once, dimension first, so reading them one by one cannot find more matches
\* than reading them together.
CheckProperties(k) ==
    /\ drivers[k].pc = "fact"
    /\ drivers' = Finish(k, \A t \in TpchTables : tables[t].props = drivers[k].res)
    /\ UNCHANGED <<dataset, tables>>

\* NycTaxiEtl.main: one createOrReplace, no provenance properties.
WriteBronze(k) ==
    /\ dataset = "nyc_taxi" /\ drivers[k].pc = "resolved"
    /\ tables' = [tables EXCEPT !["nyc_taxi_trips"] =
                    [snapshot |-> @.snapshot + 1, content |-> drivers[k].res, props |-> 0]]
    /\ drivers' = Finish(k, TRUE)
    /\ UNCHANGED dataset

\* A driver stops anywhere: the arguments or sources are refused, an output is
\* empty, a commit fails, the application is killed.
DriverFails(k) ==
    /\ drivers[k].pc \notin {"waiting", "ended"}
    /\ drivers' = Finish(k, FALSE)
    /\ UNCHANGED <<dataset, tables>>

PipelinesNext ==
    \E k \in Drivers :
          \/ SubmitTpch(k) \/ SubmitNyc(k)
          \/ ReplaceDimension(k) \/ ReplaceFact(k) \/ CheckProperties(k)
          \/ WriteBronze(k) \/ DriverFails(k)
=============================================================================
