# TLA+ models of data-eng-lab

data-eng-lab is a lakehouse laboratory: Spark, Trino, Airflow and MinIO around a set of
Python programs. Most of the repository is configuration, notebooks, relational
transformations and repository tooling. The parts that decide something under concurrency and
failure are modelled here:

* **checkpoint retention** (`scripts/checkpoints/`): a service that deletes the objects of
  streaming checkpoints, under writer leases, reviewed plans and an append-only record of
  every attempt, and the notebook client that holds those leases;
* **dataset publication** (`datasets/publication.py`, `s3.py`): publishers that replace the
  active generation of a dataset in an object store, under an expiring lease and conditional
  puts; the resolver service and the inventory that read it;
* **dataset acquisition** (`datasets/acquisition.py`, `sources/`): downloads, archives and a
  container that bring files into a directory, which they verify and publish or take back;
* **the lakehouse** (`spark-apps/`, `airflow-dags/trino_bi/`): pipelines that replace tables
  while a BI task and a quality job read them.

Paths below are relative to `src/`.

## 1. Inventory

| Component | State | Operations | Hard behaviour |
|---|---|---|---|
| Checkpoint leases (`leases.py`) | one lease object and one terminal object per checkpoint, a process-local lock | acquire, heartbeat, terminal | lost answers, a failure between the two writes of terminal, clock corrections, one terminal record shared by all runs |
| Policy evaluator (`policy.py`) | none | `evaluate_retention` over lease, terminal and inventory facts | the same evidence is judged again later and on fewer objects |
| Planner (`planner.py`) | none; writes a plan artifact | plan | its three reads are not atomic |
| Operations (`operations.py`, `records.py`) | tombstone, attempts, audits of each operation | prepare, apply, status | many threads, crash between any two S3 calls, partial and lost deletes, histories that must stay readable |
| S3 gateway (`s3_gateway.py`) | the bucket | inventory, head, conditional write with readback, batch delete | answers that do not arrive |
| HTTP service (`service.py`, `metrics.py`, `retention.py`) | the prepare slot | dispatch to the above | request threads |
| Streaming lease client (`notebook_lease.py`, `lease_client.py`) | a heartbeat thread, a query | enter, bind query, exit | calls that are handled after they were given up, a query that does not stop, two threads that both stop it |
| Dataset writer lease (`datasets/s3.py`, `_LeaseKeepalive`) | one lease object per dataset | acquire, renew, release | expiry under work, takeover, late puts, whole-second clock |
| Dataset publication (`datasets/publication.py`) | immutable objects and manifests, one active pointer | publish, refresh, roll back, inventory | lease lost between check and put, lost pointer answer, a rollback without a lease, listings beside a publisher |
| Resolver (`datasets/resolver_service.py`) | connection and work slots, handler threads, the S3 client | accept, resolve, shut down | reads while the pointer moves, clients that stall, an interrupt under handlers |
| HTTP acquisition (`datasets/acquisition.py`, `sources/http.py`) | a private directory, open descriptors, links in the destination | resolve, download, extract, link, roll back | a child process with two possible owners, files replaced behind the job, failure at every step |
| TPC-H generation (`sources/tpch.py`) | an image tag, a staging directory, files in the destination | find or build the image, run, verify, publish, roll back | a tag that moves, entries exchanged before a rename, a commit that fails last |
| Schema inspection (`schema*.py`, `registry.py`) | none | parse and compare | none |
| Spark pipelines (`spark-apps/tpch-star-schema`, `nyc-taxi-etl`) | Iceberg tables | resolve, submit, replace tables | one commit per table, drivers that outlive their task |
| Trino BI DAG (`airflow-dags/trino_bi/`) | a statement being paged | post, get pages, cancel, artifact | tables replaced between and within queries |
| NYC quality store (`spark-apps/nyc-taxi-data-quality/`) | Silver tables, facts of a run | capture, partition, record | a source replaced under the run, drivers of one logical date that overlap |
| Iceberg probe (`scripts/observability/`) | a resolution in flight | one probe per scrape | a resolver thread that does not start |
| Scenario and release tooling, shell scripts | files | batch | sequential |

How they interact: a streaming run holds a lease through the HTTP service while Spark writes
the checkpoint directly to S3. A plan, a prepare and an apply come in as separate requests,
possibly days apart; the only thing they share with the lease handlers is one process-local
lock per checkpoint and the objects in the bucket. Publishers share nothing but the bucket:
the lease object, the pointer and the immutable objects. Resolver and inventory read the same
bucket without any lock. Acquisition jobs share a destination directory with each other and
with everything else that runs as the same user. Pipelines ask the resolver for a publication
and hand its URIs to a Spark driver; the readers of the tables share only Iceberg snapshots
with them.

What makes each correct:

* leases: a lease in use is never taken over, and the terminal record tells the truth about
  the run it speaks for, because eligibility is judged by it;
* evaluator: an accepted plan stays acceptable for what is left of it, and stops being so
  when anything is written;
* operations: nothing is deleted under a writer or in another version than was reviewed; the
  recorded evidence is true, readable and ahead of the deletions; the lock is always left;
* writer lease: whoever believes it holds the lease does;
* publication: whatever the pointer names is complete, no publication is silently dropped,
  and what is reported happened;
* lease client: no query runs silently without its lease, a clean exit is a terminal one, and
  leaving always ends;
* readers: an answer was the active, intact publication; an inventory covers what was there
  and calls nothing inactive that was committed; slots and the S3 client are not lost;
* acquisition and generation: what is returned was verified where it lies, a failure leaves
  nothing behind and destroys nothing of others, no descriptor or process is left;
* lakehouse: an artifact or an accepted set of facts describes the snapshot it names.

## 2. Plan

In this order:

1. `RetentionPolicy`, `LeaseManager`: evaluator and leases, with proofs (`LeaseManagerProofs`).
2. `RetentionOperations`, which extends `LeaseManager` with planner, operations, gateway and
   writers, with proofs (`RetentionOperationsProofs`).
3. `RetentionReplan`: the evaluator by itself, over all facts; its proofs end
   `RetentionOperationsProofs`.
4. `PublicationLease`, and `DatasetPublication` which extends it, with proofs of both
   (`DatasetPublicationProofs`).
5. `StreamingLease`, which extends `LeaseManager` with the notebook's two threads and its
   network, with proofs (`StreamingLeaseProofs`).
6. `DnsResolver`, `ZipArchive` and `HttpAcquisition`, which extends both; `TpchGeneration`;
   with proofs (`HttpAcquisitionProofs`, `TpchGenerationProofs`).
7. `Pipelines`, `TrinoBi` and `NycQuality`, which extend it, and `Lakehouse`, which composes
   them, with proofs (`LakehouseProofs`).
8. `DatasetRegister`, the abstract specification of publication, with the refinement checked
   and proved; `PublishedStore`, `ResolverService`, `PublicationInventory` and
   `DatasetReaders`, which read a register that publishers move and storage damages, with
   proofs (`DatasetReadersProofs`).

9. `OperationJournal`, the abstract specification of the evidence of operations, with the
   refinement by `RetentionOperations` checked and proved.

## 3. Modules

### RetentionPolicy

`evaluate_retention` as predicates. `LeaseAllows`, `TerminalAllows` and `InventoryAllows` are
`_evaluate_lease`, `_evaluate_terminal` and `_evaluate_inventory`; a reason the code would
return is a conjunct that fails. `AnchorClocks` are the clocks whose latest plus the
retention period must have passed (`_retention_anchor`). `PlanEligible` adds what
`RetentionPlanner.plan` refuses before evaluating. `EntryParses` is what `_parse_entry` lets
into the registry (which classes require a review, and so on) and is `ASSUME`d of the
constants; `DecodesTerminal` is what `_decode_terminal` reads back.

### LeaseManager

| Model | Code |
|---|---|
| `lease`, `terminal` | `_retention/leases/{id}.json`, `_retention/terminals/{id}.json` |
| `lock` | `CheckpointLockRegistry` |
| `pending` | the terminal body between the two writes of `terminal` |
| `epochs`, `held` | the uuids drawn; the epoch a session was told |
| `Acquire`, `Heartbeat`, `Terminal`, `TerminalAgain`, `PersistTerminal` | the handlers |
| `Tick`, `ClockSetBack` | the service's wall clock |

A handler does its reads and its conditional write inside the lock, so it is one step; only
`terminal` has two writes and is two steps, with the lock held in between. A write either
takes effect or not, and is acknowledged or not. `expires_at` is always `heartbeat_at` plus
the time to live and is not stored. The terminal body does not hold an epoch: the model keeps
one to say which run a record speaks for, and no action reads it.

### RetentionOperations

Adds the objects of one leaf, plans, tombstones, attempts, audits and the threads that answer
plan, prepare and apply requests. A thread is a program counter and its locals; it takes one
step per S3 call that matters. `Abort` ends a request at any step, as a crash, a deadline or
a storage error does. The lock is held at the points in `Critical`, and at `Writing` points
when apply records from inside. Deleting has three outcomes: confirmed, partial with a
reported remainder, and lost, where any part took effect and nothing is known. An attempt's
name is its number and digest, so attempts are a set. `WritesNow` says when a streaming query
writes: while it holds the lease, and with `StopMayFail` also after its terminal request.
`LateDeletes` lets the store execute a delete after the gateway gave it up. `Disposable` and
`ManifestOf` are the checks of `_require_disposable` and `_read_bound_manifest`.
`TombstoneReads` is what `_decode_prepared` asks of clocks: a tombstone prepared before its plan
was evaluated is refused, by every later prepare and apply.

Two simplifications: `ApplyEarly` and `PrepareFind` read a history twice in the code and once
here; and the canonical JSON bodies with their digests are their contents, so a body that
does not match its digest does not occur.

### OperationJournal

What an operation promises to those who read its evidence, without requests, leases, audits or
a clock: its objects are reviewed once; nothing leaves the leaf for it before it has an attempt
on record; each attempt is added once, after all the others, takes nothing back and is true
when it is added; a completed one is the last; and no version that an attempt called deleted
is ever written again. `RetentionOperations` instantiates it with the leaf, the tombstones
and the attempts in the order of their numbers (`ImplementsJournal`). It does not promise that
the leaf is empty when a completed attempt is added: emptiness is seen one or more calls
earlier, and a retry that finds everything recorded as deleted (`RelistEmpty`) asks for no
lease, so a new run may write in between.

### RetentionReplan

One evaluation of fixed lease and terminal facts, repeated after time has passed, an object
has gone or an object has been written. It starts from every combination of facts and
inventory over small sets, so it covers what the protocol cannot easily reach, and it is
where the evaluator is proved about.

### PublicationLease

| Model | Code |
|---|---|
| `writer` | `_data-eng-locks/leases/{dataset}.json`; its ETag is its content |
| `server` | the `Date` header, the only clock that decides |
| `mine`, `over` | `_LeaseKeepalive._lease`; its `_error`, or the lease given up |
| `call` | a call of `acquire_lease`, `renew_lease` or `release_lease`: read, put, reread |
| `delayed` | conditional puts that were given up and may still be executed |

Every call is read, put (within `_PROPOSAL_WINDOW_SECONDS` of the read, counted in server
seconds) and reread; the reread decides, whatever the put answered. Any read may fail, which
ends the call.

### DatasetPublication

`at` is the point of a publisher: acquire, reread the pointer, fetch, then for every file a
checkpoint, an upload and a full read-back, verification, manifest, commit checkpoint,
pointer, release. At the points in `Working` a worker thread does the work while the main
thread renews the lease, so lease steps interleave with it; a failed renewal is noticed when
the worker is joined, and after the pointer put it is only a warning. `progress` is
`_MutationInventory` with the pointer state that is the commit's precondition. A rollback
reads the pointer, verifies its target and puts the pointer, without a lease. Every put is
executed, never executed, or executed late. `activated` is a history variable: the manifests
the pointer has named.

Objects and manifests are content under names no other attempt uses (a uuid prefix, a
digest), so they are indexed by attempt. Verify-only and dry runs change nothing. The
publishers of this module meet no corrupt pointer and no legacy layout.

### DatasetRegister

What publication promises its readers, without leases, calls or failures: immutable objects
are added under a publication, a manifest is committed once and only over complete objects,
and the pointer moves only to a committed manifest. `DatasetPublication` instantiates it
with its own stored objects, manifests and pointer (`ImplementsRegister`).

### PublishedStore, ResolverService, PublicationInventory, DatasetReaders

`PublishedStore` is the register plus damage: a pointer, a manifest or an object may stop
reading as what was stored. A reader gets no snapshot; every GET sees the store of its moment.

| Model | Code |
|---|---|
| `main`, `threads` | the thread in `serve_forever` and `process_request`; `ThreadingMixIn._threads` |
| `slots`, `work` | `connection_slots`, the resolver's work semaphore, both taken without waiting |
| `conn` | a handler in `do_POST`, with what it has read so far |
| `services` | the shared S3 client (`ResolverServices`) |
| `inv` | an inventory: its walk through the history, its listings, its budget |

A handler takes a step per GET. Parsing of a request is the status it leads to. An interrupt
may hit the main thread at any point, also while it joins the handlers. One that comes after
the handler it started has ended and freed the last slot is lost: the second release raises in its
place and the server goes on. `Reaped` is the list of threads after `ThreadingMixIn` has dropped those that ended. The inventory takes a
step per request to S3; a page holds any prefix of the rest of the listing, so keys appear
between pages. The bounds of one listing and its continuation tokens are a failure of the
inventory, which may come at any request. `DatasetReaders` composes readers and store in three situations (`role`):
connections beside each other, one request under a moving store, one inventory under a moving
store. They share nothing, so the product would add no behaviour.

### StreamingLease

`main` and `worker` are the two threads of a session, `query` is the Spark query, `net` the
state of each request: sent, handled, answered, given up. The service handles a request by an
action of `LeaseManager`, also after the client gave it up. The join of `__exit__` may return
with the worker still running. Stopping a query may fail. A heartbeat thread that does not start
makes `__exit__` raise before it stops anything (`BindFails`). A kernel may die (`Crash`). Clients
that are no `Sessions` send any lease request at any time, as `LeaseSession` can.

### DnsResolver, ZipArchive, HttpAcquisition

`DnsResolver` has a caller, its launcher thread and the child process, which share the
dictionary that the code guards by a condition. `ZipArchive` is the validation as predicates
over an abstract archive: signatures of end records, declared and found directory, members.
`HttpAcquisition` is a job per `fetch_http` with a step per file-system or network call that
another program can come between. A path names nothing, the job's inode or a foreign one
(`src`, `target`), and an inode holds locked or other bytes. `open`, `releases` are the binding
descriptors and who closes them. A socket timeout bounds one `recv`, and the deadline is
looked at between calls: a server that keeps feeding one call (`Feed`: headers or interim responses
that trickle in) holds the job until it stops (`StopFeeding`). `Link` is `os.link` with the
append that records it; an interrupt of the process between the two is not modelled. `Tamper` is any other program of the same user. `late`
records what was touched after the last look, for the properties only.

### TpchGeneration

The same questions for `generate_tpch`, whose cleanup is different: a published name is moved
aside, judged, and removed only if it is the job's own file. `seen`, `rebuilt` and `ran` follow
the image; `Retag` moves the tag. Two directories may be what the destination names
(`ReplaceDirectory`). `Links` are the names a failing job has to take back, and `Newest` the one
it turns to next. A staging link is recorded after `os.stat` of it; when that fails (`StatFails`)
no cleanup knows the name. Docker and exporter documents are their verdict.

### Pipelines, TrinoBi, NycQuality, Lakehouse

A table is a snapshot with content and properties that one commit replaces. `Pipelines` has
the drivers of one DAG: resolution checks the answer, the driver replaces its tables one by
one, and a driver of a given-up attempt goes on. `TrinoBi` is a task attempt with its script of
queries and the paging client; a running query reads each table at some moment. `abandoned`
keeps of the query given up last whether Trino still ran it, the URI its newest complete answer
named (or that the client refused it) and where the DELETE went.

`NycQuality` has all drivers of one logical date (`Attempts`). The task is submitted in cluster
mode with a retry, so a driver that Airflow gave up on goes on beside the next, and nothing but
the tables tells them of each other. A driver captures, counts, splits, labels, reads back,
rechecks and MERGEs its facts, and each of these may fail. A Bronze read runs on the version
loaded with the DataFrame or on a newer one. A Silver DataFrame stays on the version it was loaded
with. `writer` records who committed to a Silver table last, for the properties only. Row
predicates are a grade per publication.

## 4. Runs

| Run | Question | Answer |
|---|---|---|
| `operations` | one thread, two runs, two objects, crashes, partial or lost deletes, a query that outlives its terminal request and deletes that arrive late: is the evidence true and ahead of the deletions, what can a removal hit, and is this the abstract journal? | it is; only reviewed keys, after quiescence and retention; yes |
| `operations_concurrent` | two threads and two runs interleaved, queries that stop and deletes that are not late: does a deletion ever meet a writer or another version, do the results of overlapping requests share a number, take a deletion back or follow a completed one? | no |
| `operations_lock` | one request at a time: is the lock always left again, and can history and tombstone be read when the clock is set back between plan, prepare and attempts? | yes, under fair handlers; the tombstone of every operation that acted |
| `replan` | every combination of facts of a retired durable entry: does re-evaluation agree with the plan? | yes |
| `streaming_lease` | a session with its worker and two other clients, calls that fail, time out or arrive late, a clock that is set back once: is a lease taken over, does the terminal record lie, does a query run silently without its lease, does every exit end? | no; no; no; yes |
| `publication` | a publication, a refresh and a rollback overlap, with expiring leases, late puts and deaths: is the pointer's target complete, is anything dropped, can two attempts believe they hold the lease, is this the abstract register? | complete; nothing dropped; no; yes |
| `readers` | connections, a resolution and an inventory while publishers move the store and bytes are damaged: is an answer true, an inventory complete and harmless, do slots, client and threads come back? | yes |
| `http_acquisition` | a whole job, or two that publish into one destination, with errors and interference at every step: is only verified content returned, is a failure taken back, does every job end without descriptors? | yes; it ends unless a server feeds one call for ever |
| `tpch_generation` | the same for generation, with an image tag and directories that move: also, does only a proved image run and does a cleanup spare foreign files? | yes; a staging link that was never recorded may stay |
| `lakehouse` | pipelines replace tables under a BI task and two overlapping drivers of the quality job: do artifacts and facts describe the snapshots they name, does a successful driver leave its Silver, where does the DELETE of a given-up query go? | yes; until another driver commits there; to the newest URI named, and nowhere when that one was refused |
| `completed_race`, `resolver_owner` | see Findings | violated |

Bounds and why they are enough:

* **Clocks.** Instants up to 2 to 4 with time to live, retention and quiescence of 1 or 2:
  every comparison of two clocks comes out both ways, and an attempt can happen before, at and
  after each limit. `MaxClock` and `MaxServer` stop the clock; nothing else depends on them.
* **Epochs, writes.** Two or three runs, as many object versions as make a key be rewritten
  after it was planned and after it was deleted.
* **Keys and `MaxDeleteKeys = 1`.** Two keys in two batches give a first batch that succeeds
  before a second one that does not.
* **Attempts.** 3 of the service's 1024: prepared, not ready or refused, partial,
  completed, and the limit itself is reached.
* **Threads.** Two request threads where interleaving is the question, one elsewhere.
  In `operations_concurrent` the clock ends at the first instant at which an operation is quiet:
  two requests record results at one clock, and that a request which waited for the lock with an
  older clock records nothing is shown by the proof of `ResultsOrdered`, and by
  `operations_lock` for a clock that is set back.
* **Publication.** Two publishers, one rollback, two files, a lease of two seconds over three
  instants: a lease expires under work at every point and is taken over by the other attempt.
  One lease put and one data put may be outstanding.
* **Readers.** Three connections for two slots and one resolution; three publications of two
  scales with two files; one damaged thing; two moves of the store under an inventory. Pages
  of two keys and histories of two manifests make both limits be reached and passed, and five
  requests are fewer than the longest inventory needs.
* **Acquisition and generation.** Two outputs, so that one is published when the next fails;
  a direct artifact and an archive; two interferences, one to set a trap and one to spring it.
  A second job starts at publication, because before it jobs work in private directories.
  The archives vary end records, directory and members around a sound one.
* **Lakehouse.** Two drivers, two publications with different grades, results in two parts,
  two pages, two attempts of the BI task and two drivers of the quality job, which may start from
  the same Bronze snapshot or from different ones.

Symmetry is used for sessions, threads and quality drivers that have no individual configuration, never
together with a liveness property. Deadlock is not an error: at its bounds the clock stops and
every actor is done.

Fairness:

* `FairSpec` of `RetentionOperations` (`operations_lock`): a handler thread that can take a
  step does, and a terminal handler goes on to its second write. Both are code between two S3
  calls with client timeouts, and a thread waits for nothing else inside the lock.
* `StreamSpec`: the threads of a session take their steps, where giving up a call after its
  timeout is a step. Nothing is assumed of the service, the network or the query.
* `AcquisitionSpec`: a job and the thread that waits for its resolver take their steps, and
  the deadline of a download passes, which ends a call only while the server is silent. Nothing
  is assumed of the launcher thread, the child or the server, so `JobsEnd` has the premise that the
  server does not feed one call for ever (`Fed`): nothing in the code would end that.
* `ReadersSpec`: the main thread and the handlers take their steps, where the socket timeout
  is a step of a handler, and so does the inventory. S3 calls end because `container_s3_client`
  sets timeouts. Nothing is assumed of clients or publishers.

Nothing is ever assumed of operators or clocks.

Each property of a passing run has a mutant in `PROJECT.json`, defined beside the definition
it replaces: a plausible slip in that code which the property detects. Type invariants are part
of the inductive invariants of section 5. Some runs check theirs as well (`LakehouseTypeOK` in
`CancelledAsNamed`, `StreamTypeOK` in `RunningQueryHoldsLease`, `AcquisitionTypeOK` in `FailureLeavesNothing`, `TpchTypeOK` in
`GenerationTakenBack`, `ResolverTypeOK` in `SlotsAccounted`, `InventoryTypeOK` in
`CandidatesUncommitted`), so the theorems that state these properties state the types too.

## 5. Proofs

TLAPS proves, for any number of sessions, threads, operations, keys, publishers, rollbacks,
connections, jobs and files and any value of the bounds:

Checkpoint retention:

* `LeaseTypeCorrect`, `TerminalRecordAgrees`, `LeaseNeverTakenOver`, `TerminalInstantFinal`.
  `TerminalAgreesWithLease` is not inductive: between the two writes of a terminal request
  the record to come is in `pending`. `LeaseInv` adds that pending records agree with the lease
  whose lock is held (`PendingAgrees`) and that every epoch in use has been drawn
  (`EpochsDrawn`), so a new run's epoch is newer than all records.
* `StaleRecordPrecedesRun`, which speaks of states before any clock correction. The invariant
  adds that until then stored clocks are not in the future. After a correction it is false.
* `DeletionIsExclusive`, with no assumption on clocks, queries or late deletes. `ExclusionInv`
  says that whoever is at a critical point holds the lock and that past revalidation the
  lease is not active; every step of another thread leaves the lock alone, and every lease
  handler needs it free.
* `StreamImplementsLease`: `StreamSpec => LeaseSpec`. The notebook client and its network only
  choose when the service handles a request, so every lease theorem holds of the composition
  (`StreamTerminalAgrees`, `StreamLeaseKept`).
* `RunningQueryCovered`, `CleanExitRecorded`. `SessionInv` says what a session knows at each
  point: from `enter` to the terminal request the stored lease is its own and active
  (`LeaseKnown`), an answer to a terminal request means that the record speaks for this run or
  a later one, and a query is left running only with an exception (`QueryMinded`). It rests on
  every epoch being known to one writer (`Apart`), so nobody else's request, however late, ends
  this session's run.
* `OperationsTypeCorrect`. `OpsInv` adds what the typing of a step rests on: a thread inside
  apply has a tombstone, one prepare runs at a time, histories are finite.
* `OnlyReviewedRemoved`, for `~StopMayFail` and `~LateDeletes`. `ReviewedInv` says that what a
  thread is about to delete is a part of its tombstone and still in the leaf as reviewed; it
  survives because nobody writes while the lease is not active.
* `EvidenceIsTrue`, with late deletes, surviving queries and any number of threads.
  `EvidenceInv` tracks versions, not keys: a version that is known and gone never comes back
  (`Dead`), because writes draw new versions. Everything a thread carries as deleted is dead and
  reviewed (`Honest`), and so is everything stored (`Faithful`).
* `RemovalsAged`, for `MaxStepsBack = 0`: a clock that runs backwards takes the passing of an
  instant back. `AgedInv` says that plans, tombstones and deletes given up by the gateway are
  of aged objects past their quiescence.
* `HistoryReadable`, `AuditsFirst`, for one request thread (any number of sessions and
  operations; clock corrections, crashes and lost answers included). `HistoryInv` says that
  attempts are numbered without a gap, that the attempt about to be stored may follow all that
  are stored, and that an apply past the repair knows everything recorded and has every audit
  (`UpToDate`). `ActingInv` says that whoever applies has read the tombstone, and that only an
  apply records more than "prepared". The condition is needed for the first: `completed_race` is
  its failure with two threads.
* `ResultsOrdered`, for any number of request threads whose requests overlap in any way.
  Attempts other than results may be recorded outside the lock and so share a number; a history
  that spoils can then not be read any more, and one that reads has one attempt per number
  (`ReadableIsNumbered`, by counting). Results are recorded by the holder of the lock from a history it read
  while it held it (`Ordered`), so a new one is numbered after all others, at no earlier clock,
  over all their deletions, and only when none is completed (`OrderInv`).
* `OperationsImplementJournal`, for one request thread as well: `Spec => ImplementsJournal`,
  with late deletes, surviving queries and clock corrections. A step of a thread is seen in one
  of four ways (`SeenStep`). A removal follows from `HistoryInv` (a thread that deletes has read
  a history that is not empty) and `JournalInv`, which says the same of deletes still to arrive;
  a new attempt from `UpToDate`, `Honest` and one lemma about numbered sets seen as sequences
  (`OneMoreEntry`); a write from `Dead`.
* `EligibilityEndsByWrite`: for every class, policy value and set of facts. Later evaluation
  makes every clock test easier, a part of an inventory has no later object than the whole,
  and an object written now is not older than any terminal record that had aged.

Dataset publication and its readers:

* `HolderAlwaysStored`, `LeaseNotTakenEarly`. `WriterInv` adds that every put that may still be
  executed is harmless: what it replaces has ended for good, or it extends a lease of its own
  sender, or it releases one whose owner has let go and never believes in it again.
* `PublicationImplementsWriter`: `PublicationSpec => WriterSpec`, so the two results above
  hold of the publication.
* `PublicationTypesCorrect`, `PublishedHistoryComplete`, `PublicationDropsNothing`,
  `CommitReportsTrue`. `PublicationInv` says of every pending put that it does no harm whenever
  it is executed (`Sound`), of every attempt what is stored at the point where it stands
  (`StandsAt`), and, until a rollback has put a pointer, that every put of the pointer replaces
  the manifest its target follows (`Linked`). No conjunct mentions the lease: it saves work,
  and the conditional put alone keeps the history whole.
* `PublicationImplementsRegister`: `PublicationSpec => ImplementsRegister`. The initial states
  agree; each step adds read-back objects, stores a manifest whose objects `StandsAt` and
  `Sound` show to be complete, moves the pointer to a stored manifest, or leaves the register
  alone, late puts included.
* `AnswersWereActive`. `AnswerInv` says of a publication a handler has found that it was active
  and intact during the request, or something among the reads still to come is damaged
  (`Grounded`), and of the store what the register promises (`StoreInv`).
* `SlotsKept`: `SlotInv` counts free slots and handlers that hold one, as cardinalities.
* `ClientClosedLast`: `ClientInv` says that every live handler is in the list the shutdown
  joins, also in the steps in which the main thread lists and starts a thread.
* `InventoryAccounts`: `AccountInv` says for each step where the manifests of the beginning
  are: reached, listed, unreferenced, ambiguous or on a page to come.

Acquisition and generation:

* `ResolverReapedOnce`: a caller that has the process has it from a launcher that let go
  (`Handed`).
* `ExtractedHasOneReading`, from `AcceptedHasOneReading`: a lemma about the validation by
  itself, for archives of any length.
* `CommitVerified`, `FailureTakenBack`. Per job: how many links there are at each point
  (`Placed`), which descriptors somebody will close (`Bound`), that the job's files are the
  links it counts (`Counted`), and that its last look holds until someone else touches the file
  (`Settled`).
* `OnlyProvedImagesRun`, `ReturnedFilesVerified`, `FailedCallTakenBack`, `ForeignFilesKept`.
  Jobs share the destination, so a rollback may hold another job's file in its hand. `TpchInv`
  says per job where its file can be (`Located`), what it verified under which identity
  (`Checked`, `LastLook`) and what it recorded (`Recording`), and globally that nothing a
  cleanup may unlink was put under a published name by someone else (`Apart`). A step of
  another job or program is summed up as `Outside` and `Interferes`, and one lemma
  (`OutsideKeeps`) shows that no such step breaks a job's part. `TpchAssumption` says that
  there is an output, that files of jobs and of others are different inodes, and that the
  bound on interference leaves room for the jobs that run beside each other.

The lakehouse, for any number of drivers, publications, replacements, result pages,
task attempts and quality runs. `LakehouseInv` rests on one fact: a commit gives a table a
newer snapshot, so a table found at the snapshot where it once was has not moved in between.

* `ArtifactsDescribeSource`. Nothing holds the tables still while the script runs, so the
  invariant (`Ordered`) follows its readings of a table: each is of a snapshot no older than the
  one before, and the last is no newer than the table. A comparison of the first snapshot with
  the last therefore fixes all readings between them. A reading of properties names no
  snapshot. `Ordered` says that it agrees with the rows as long as the table is where the rows
  were read.
* `QueriesCancelled`. `ClientInv` says that the URI the client would send a DELETE to is
  always the newest it accepted, or none, that a URI it follows is one it has not seen, and
  (`CancelInv`) that the DELETE of the last query it left went to the newest URI named. A refused
  URI leaves the query running although an earlier one was usable, and a repeated one sends the
  DELETE to a page already consumed: the property says so, as the client's tests do.
* `SuccessfulRunLeavesSilver`, for any number of overlapping drivers. `SoundRun` says of each
  that as long as Bronze is at its snapshot everything it has read is of that version; past the
  recheck, which finds Bronze there after the last read, that stays on record. What it read back
  from Silver was checked against its own counts. `SilverInv` says that a table whose last commit
  is a driver's label is as that driver read it.
* `AcceptedFactsTrue`. A failed driver MERGEs under its run ID too, and several drivers may MERGE
  over each other. `Described` is inductive all the same: a diagnostic adds no metric, or one that is
  not accepted, and a driver that adds accepted metrics has passed its recheck, so it adds all of
  them, of one snapshot.

Only model-checked: every liveness property (`LockIsReleased`, `HeartbeatLossStopsQuery`,
`ExitCompletes`, `JobsEnd`, `ReadersEnd`), because TLAPS does not reason
about fairness here. Every safety and action property of a passing run is proved.

## 6. Findings

* `completed_race`: `not_ready` is recorded without the lock, and can land after another
  request's `completed`; the history is then unreadable.
* `resolver_owner`: the wait for the launcher can time out just as the launcher hands the
  started resolver process over. The caller does not look again, the launcher no longer owns
  the process, and nobody reaps it.

Disagreements that the models show and that are recorded here only (each is a behaviour of the
model as it stands, found as the violation of the property in parentheses):

* A heartbeat after the wall clock was set back stores a lease that `_decode_lease` refuses;
  the checkpoint's lease is then stuck for every later request (`lease # None =>
  DecodesLease(lease)` in `LeaseManager`).
* Prepare stores a tombstone without comparing its clock with the plan's. After the clock was set
  back in between, `_decode_prepared` refuses it, so a duplicate prepare fails where the design
  (`docs/superpowers/specs/2026-08-13-streaming-checkpoint-retention-implementation-design.md`, 337)
  promises the current status (`prepared[o] # None => TombstoneReads(o)` in
  `RetentionOperations`).
* When everything was deleted but the attempt was not recorded, a retry records a refusal
  where the design (390-392) asks for the missing completed result (no `RetentionOperations` step from `relist`
  with an empty leaf drafts `refused`).
* A pointer put that succeeded and was then replaced by a rollback is reported as a conflict,
  with non-commitment taken as proven (in `DatasetPublication`, `progress[p].pointer =
  "conflict" => p \notin activated`).
* Objects of a manifest whose write is only "possible" are reported as proven orphans although
  the manifest may be stored (`publication.py:2116` against `docs/datasets.md:125`).
* When `os.stat` fails right after `os.link`, the staging link is not recorded yet and stays in the
  destination, although `tests/datasets/test_tpch.py:310` calls generation all or nothing
  (`pc[j] = "failed" /\ ~kept[j] => staged[j] # j` in `TpchGeneration`).
* Silver is replaced in one commit and labelled in the next. In between, and for good when the driver
  dies there, both labels may name an accepted run over rows of another snapshot, while
  `docs/superpowers/specs/2026-08-13-nyc-taxi-data-quality-production-design.md:302` has consumers
  rely on those labels (in `Lakehouse`: when both labels name an accepted run, the content of both
  tables is that of its `source_available` fact).
* `_manifest_history` refuses a history of exactly `_MAX_HISTORY_DEPTH` manifests, while its
  error says "at most" that many (`WalkTooDeep` with nothing left on the trail).

Observations that no run decides:

* `_persist_terminal` never writes a retirement review, so a retired durable entry that needs
  one in its terminal record cannot become eligible through the service alone. `RetentionReplan`
  checks the evaluator for it from given facts.
* A delete request the gateway gave up on may be executed when the lock is free and a new run
  holds the lease: `OnlyReviewedVersionsRemoved` needs `~LateDeletes`. What holds without it is
  `RemovalsConfinedAndAged`.
* One lease object serves all leaves of a checkpoint: an older disposable leaf stops being
  eligible as soon as another leaf acquires.
* A terminal record of an earlier run with the very second of the new run's acquisition is not
  told apart by its clock alone.

## 7. Not modelled

HTTP framing, TLS and authentication, metrics, command lines, YAML parsing, JSON canonical form
and digests (pure formatting); the start-up capability probe and pagination of the retention
gateway; repairing a corrupt active pointer and adopting a legacy layout beyond listing its
candidates; the readers of Parquet, CSV and JSON lines and the registry (`schema.py`,
`schema_inspection.py`, `registry.py`, `verification.py`), which are functions of file bytes;
the exporter inside the TPC-H container; the relational content of the Spark pipelines and
notebooks, and the medallion, gh-archive and movielens pipelines, which resolve their dataset
as the modelled ones do; the scheduled retention plan, which is one request; repository,
documentation, release and security tooling; compose files, shell scripts and dashboards.

The Iceberg probe is left out: one request per scrape in one thread. Its only shared state is
the resolution in flight, and one case of it deserves a look: if `worker.start()` fails
(`iceberg_rest_probe.py:186`), `_active` stays set, and every later probe waits for an event
that nobody sets.
