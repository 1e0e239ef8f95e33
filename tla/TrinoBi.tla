------------------------------- MODULE TrinoBi -------------------------------
(***************************************************************************)
(* The read-only BI tasks of airflow-dags/trino_bi.  A task attempt runs a *)
(* fixed script of queries through TrinoHttpClient and returns an artifact *)
(* that names the snapshots (and, for TPC-H, the publication) its rows     *)
(* come from.  Nothing locks the tables meanwhile: the pipelines may       *)
(* replace them between two queries and between the reads of one query.    *)
(*                                                                         *)
(* The client pages through a query: POST the statement, then GET the next *)
(* page URI of each answer until an answer has none.  URI n of the query   *)
(* in flight is the number n.  A client that gives up sends a DELETE to    *)
(* the URI its newest complete answer named, when that one is usable; a    *)
(* URI outside the reviewed origin is not, and the query then stays        *)
(* behind in Trino.                                                        *)
(***************************************************************************)
EXTENDS Pipelines, Sequences

CONSTANTS MaxPages,      \* MAX_PAGES of the client
          RowParts,      \* portions a result's rows are served in
          MaxAttempts    \* retries + 1 of the BI DAGs

ASSUME TrinoBiAssumption ==
    MaxPages \in Nat \ {0} /\ RowParts \in Nat \ {0} /\ MaxAttempts \in Nat \ {0}

VARIABLES bi,          \* the task: attempt, step of its script, results so far
          query,       \* the client's state of the query in flight
          server,      \* what Trino has read and sent for that query
          abandoned,   \* the query a failing client just left: whether Trino still runs it,
                       \* the URI its newest complete answer named, the DELETE sent
          artifact     \* the artifact of the successful attempt

biVars == <<bi, query, server, abandoned, artifact>>

NoUri == 0
Refused == -1      \* a next URI that _validate_next_uri does not accept

TpchScript == <<"properties", "snapshots", "schemas", "totals", "segments", "properties", "snapshots">>
NycScript == <<"snapshots", "schemas", "totals", "segments", "snapshots">>
Script == IF dataset = "tpch" THEN TpchScript ELSE NycScript
SourceTables == IF dataset = "tpch" THEN TpchTables ELSE NycTables

NoQuery == [pc |-> "idle", uri |-> NoUri, seen |-> {}, cancel |-> NoUri,
            pages |-> 0, rows |-> 0]
NoServer == [read |-> <<>>, sent |-> 0, named |-> NoUri]
NotAbandoned == [running |-> FALSE, named |-> NoUri, deleted |-> NoUri]
NoArtifact == [source |-> "none"]

TrinoTypeOK ==
    /\ bi.pc \in {"ready", "query", "done", "failed"} /\ bi.attempt \in 1 .. MaxAttempts
    /\ bi.results \in Seq([read : [SourceTables -> Version] \cup {<<>>}, rows : 0 .. RowParts])
    /\ Len(bi.results) <= Len(Script)
    /\ query.pc \in {"idle", "next", "waiting"}
    /\ query.pages \in 0 .. MaxPages /\ query.rows \in 0 .. RowParts
    /\ query.uri \notin query.seen \/ query.pc = "waiting"
    /\ query.cancel \in {NoUri, query.uri}
    /\ abandoned \in [running : BOOLEAN, named : Nat \cup {Refused}, deleted : Nat]

TrinoInit ==
    /\ bi = [pc |-> "ready", attempt |-> 1, results |-> <<>>]
    /\ query = NoQuery /\ server = NoServer
    /\ abandoned = NotAbandoned /\ artifact = NoArtifact

-----------------------------------------------------------------------------
(* The task. *)

Step == Len(bi.results) + 1

\* An attempt ends with an exception; Airflow retries it from the start.
FailAttempt ==
    bi' = IF bi.attempt < MaxAttempts
            THEN [pc |-> "ready", attempt |-> bi.attempt + 1, results |-> <<>>]
            ELSE [bi EXCEPT !.pc = "failed", !.results = <<>>]

\* validate_tpch_provenance: both tables carry one well-formed publication.
OneProvenance(read) ==
    dataset = "tpch" => read["dim_customer"].props = read["fct_orders"].props

\* Orders without a customer show only when the two tables differ in content.
JoinComplete(read, complete) ==
    (\A t, u \in SourceTables : read[t].content = read[u].content) \/ complete

\* The checks run on a result before the next query of the script.
ResultAccepted(read, complete) ==
    CASE Script[Step] = "properties" -> OneProvenance(read)
      [] Script[Step] = "totals"     -> JoinComplete(read, complete)
      [] OTHER                       -> TRUE

Snapshots(result) == [t \in SourceTables |-> result.read[t].snapshot]
Provenance(result) == [t \in SourceTables |-> result.read[t].props]
\* The result of a query, of its first and of its last time in the script.
FirstOf(name) == bi.results[CHOOSE i \in DOMAIN bi.results :
                               /\ Script[i] = name
                               /\ \A j \in DOMAIN bi.results : Script[j] = name => i <= j]
LastOf(name) == bi.results[CHOOSE i \in DOMAIN bi.results :
                              /\ Script[i] = name
                              /\ \A j \in DOMAIN bi.results : Script[j] = name => j <= i]

\* Two results reconcile when they come from the same content; totals of
\* different contents may still agree.
Reconciles(a, b, chance) == 
    (\A t \in SourceTables : a.read[t].content = b.read[t].content) \/ chance

\* Mutant: the snapshots are not compared again at the end.
TpchArtifactReconciled(chance) ==
    /\ Provenance(LastOf("properties")) = Provenance(FirstOf("properties"))
    /\ Reconciles(FirstOf("totals"), FirstOf("segments"), chance)

\* build_tpch_artifact
TpchArtifactAccepted(chance) ==
    /\ Provenance(LastOf("properties")) = Provenance(FirstOf("properties"))
    /\ Snapshots(LastOf("snapshots")) = Snapshots(FirstOf("snapshots"))
    /\ Reconciles(FirstOf("totals"), FirstOf("segments"), chance)

\* build_nyc_artifact
NycArtifactAccepted(chance) ==
    /\ Snapshots(LastOf("snapshots")) = Snapshots(FirstOf("snapshots"))
    /\ Reconciles(FirstOf("totals"), FirstOf("segments"), chance)

ArtifactAccepted(chance) ==
    IF dataset = "tpch" THEN TpchArtifactAccepted(chance) ELSE NycArtifactAccepted(chance)

\* The task's last step: the artifact is built, or its contract refuses it
\* (the fields, the row shapes and the byte bound included).
BuildArtifact ==
    /\ bi.pc = "ready" /\ Step > Len(Script)
    /\ \E chance \in BOOLEAN :
         IF ArtifactAccepted(chance)
           THEN /\ bi' = [bi EXCEPT !.pc = "done", !.results = <<>>]
                /\ artifact' =
                     [source |-> dataset,
                      snapshots |-> Snapshots(FirstOf("snapshots")),
                      provenance |-> IF dataset = "tpch"
                                        THEN FirstOf("properties").read["fct_orders"].props ELSE 0,
                      rows |-> FirstOf("segments"), totals |-> FirstOf("totals")]
           ELSE FailAttempt /\ UNCHANGED artifact
    /\ UNCHANGED <<query, server, abandoned>>

-----------------------------------------------------------------------------
(* The client: TrinoHttpClient._execute. *)

\* Mutant: cancel_uri is not reset before the next URI is judged.
CancelUriKept(named) == IF named = Refused THEN query.cancel ELSE named

\* cancel_uri once an answer is complete: the URI it names, if that is usable.
CancelUri(named) == IF named = Refused THEN NoUri ELSE named

\* _cancel, then the exception ends the attempt.  The DELETE may itself be lost.
Abandon(running, named, cancel) ==
    /\ abandoned' = [running |-> running, named |-> named, deleted |-> cancel]
    /\ query' = NoQuery /\ server' = NoServer
    /\ FailAttempt

\* A complete answer that fails a check.  One without a next URI is the query's last.
AbandonAt(named) == Abandon(named # NoUri, named, CancelUri(named))

\* POST the statement of the script's next query.
PostStatement ==
    /\ bi.pc = "ready" /\ Step <= Len(Script)
    /\ bi' = [bi EXCEPT !.pc = "query"]
    /\ query' = [NoQuery EXCEPT !.pc = "waiting"]
    /\ server' = NoServer /\ abandoned' = NotAbandoned
    /\ UNCHANGED artifact

\* The top of the loop: the page bound, the repeated URI, then the GET.
GetPage ==
    /\ query.pc = "next"
    /\ IF query.pages >= MaxPages
         THEN Abandon(TRUE, server.named, query.cancel)
         ELSE /\ query' = [query EXCEPT !.pc = "waiting", !.seen = @ \cup {query.uri}]
              /\ UNCHANGED <<server, bi, abandoned>>
    /\ UNCHANGED artifact

\* What a query's rows tell of a table: its properties, its snapshot ID, or
\* figures computed from its rows.
Selected(v) ==
    CASE Script[Step] = "properties" -> [NoVersion EXCEPT !.props = v.props]
      [] Script[Step] = "snapshots"  -> [NoVersion EXCEPT !.snapshot = v.snapshot]
      [] OTHER                       -> v

\* The column query reads only the catalog, where the columns never change.
TablesRead == IF Script[Step] = "schemas" THEN {} ELSE SourceTables

\* Trino reads the tables of a running query one after the other.
ReadTable(t) ==
    /\ query.pc # "idle" /\ t \in TablesRead \ DOMAIN server.read
    /\ server' = [server EXCEPT !.read = [u \in DOMAIN @ \cup {t} |->
                                             IF u = t THEN Selected(tables[t]) ELSE @[u]]]
    /\ UNCHANGED <<bi, query, abandoned, artifact>>

AllRead == DOMAIN server.read = TablesRead

\* A page: an empty one while the query runs, rows once it has read, and no
\* next URI on the last.
Pages == [rows : 0 .. RowParts - server.sent, next : {NoUri, query.uri + 1}]
Servable(page) ==
    /\ page.rows > 0 => AllRead
    /\ page.next = NoUri => AllRead /\ server.sent + page.rows = RowParts

\* QueryResult: the rows of every page.
Result(page) == [read |-> server.read, rows |-> query.rows + page.rows]

\* A page that passes every check of the loop body.
PageArrives ==
    /\ query.pc = "waiting"
    /\ \E page \in Pages :
         /\ Servable(page)
         /\ IF page.next # NoUri
              THEN /\ query' = [query EXCEPT !.pc = "next", !.uri = page.next, !.cancel = CancelUri(page.next),
                                             !.pages = @ + 1, !.rows = @ + page.rows]
                   /\ server' = [server EXCEPT !.sent = @ + page.rows, !.named = page.next]
                   /\ UNCHANGED bi
              ELSE /\ query' = NoQuery /\ server' = NoServer
                   /\ \E complete \in BOOLEAN :
                        IF ResultAccepted(server.read, complete)
                          THEN bi' = [bi EXCEPT !.pc = "ready", 
                                              !.results = Append(@, Result(page))]
                          ELSE FailAttempt
    /\ UNCHANGED <<abandoned, artifact>>

\* No complete answer: transport error, timeout, status, byte bound, malformed
\* JSON, the deadline.  The page asked for, if one was, is the one to cancel.
PageUnreadable ==
    /\ query.pc = "waiting"
    /\ Abandon(TRUE, server.named, query.cancel)
    /\ UNCHANGED artifact

\* The page's next URI leaves the reviewed origin.
NextUriRefused ==
    /\ query.pc = "waiting"
    /\ AbandonAt(Refused)
    /\ UNCHANGED artifact

\* The page names a valid next URI or none, but its query ID, error, columns,
\* rows, row bound or state fails, or the deadline passes.
PageRefused ==
    /\ query.pc = "waiting"
    /\ \E next \in {NoUri, query.uri + 1} : AbandonAt(next)
    /\ UNCHANGED artifact

\* The page repeats a URI that was requested before; it is cancelled all the same.
UriRepeated ==
    /\ query.pc = "waiting"
    /\ \E next \in query.seen : AbandonAt(next)
    /\ UNCHANGED artifact

TrinoNext ==
    \/ PostStatement \/ GetPage \/ PageArrives \/ BuildArtifact
    \/ \E t \in SourceTables : ReadTable(t)
    \/ PageUnreadable \/ NextUriRefused \/ PageRefused \/ UriRepeated
=============================================================================
