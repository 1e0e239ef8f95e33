------------------------ MODULE DatasetPublication --------------------------
(***************************************************************************)
(* Publication of one dataset (datasets/publication.py): immutable objects *)
(* under a prefix of their own, an immutable manifest that names them and  *)
(* the manifest it follows, and one active pointer, replaced by a          *)
(* conditional put.  A publisher works under the lease of PublicationLease *)
(* and renews it while it works; a rollback repoints without a lease.      *)
(*                                                                         *)
(* A manifest is named after the attempt that wrote it.  Every put may be  *)
(* executed late, after its sender stopped waiting for it.                 *)
(***************************************************************************)
EXTENDS PublicationLease

CONSTANTS
    Files,        \* outputs of the selected plan
    Mode,         \* "default" or "refresh", for each attempt
    Rollbacks,    \* rollback invocations
    MaxPending    \* bound: data puts whose execution is pending at once

ASSUME PublicationAssumption ==
    /\ Files # {}
    /\ Mode \in [Publishers -> {"default", "refresh"}]
    /\ MaxPending \in Nat
    /\ None \notin Publishers \cup Files

VARIABLES
    objects,    \* files stored under each attempt's prefix
    manifests,  \* the stored manifest of each attempt
    pointer,    \* active/{dataset}.json: the manifest it names
    pending,    \* data puts that may still be executed
    activated,  \* history: the manifests the pointer has named
    at,         \* where each attempt stands
    progress,   \* what each attempt has read, done and will report
    rollback    \* each rollback's step, what it read and where it points to

dataVars == <<objects, manifests, pointer, pending, activated>>
publisherVars == <<at, progress>>
pubVars == <<writerVars, dataVars, publisherVars, rollback>>

Manifest == [previous : Publishers \cup {None}]
ASSUME AbsentManifest == None \notin Manifest

DataPut == [kind : {"object", "manifest", "pointer"}, who : Publishers,
            file : Files \cup {None}, base : Publishers \cup {None}]

\* Points in Working run a worker thread while the main thread renews.
Working == {"fetch", "put", "object_check", "verify", "manifest", "manifest_check",
            "pointer", "pointer_check"}
Points == {"idle", "acquire", "upload", "commit", "release", "done", "dead"} \cup Working

Progress == [base : Publishers \cup {None}, proven : SUBSET Files,
             manifest : {"not-attempted", "possible", "written"},
             pointer : {"not-attempted", "conflict", "ambiguous", "committed"}]
NoProgress == [base |-> None, proven |-> {},
               manifest |-> "not-attempted", pointer |-> "not-attempted"]

Rollback == [step : {"idle", "verify", "put", "done"},
             base : Publishers \cup {None}, target : Publishers \cup {None}]
NoRollback == [step |-> "idle", base |-> None, target |-> None]

PublicationTypeOK ==
    /\ WriterTypeOK
    /\ objects \in [Publishers -> SUBSET Files]
    /\ manifests \in [Publishers -> Manifest \cup {None}]
    /\ pointer \in Publishers \cup {None}
    /\ pending \subseteq DataPut
    /\ activated \subseteq Publishers
    /\ at \in [Publishers -> Points]
    /\ progress \in [Publishers -> Progress]
    /\ rollback \in [Rollbacks -> Rollback]

PublicationInit ==
    /\ WriterInit
    /\ objects = [p \in Publishers |-> {}]
    /\ manifests = [p \in Publishers |-> None]
    /\ pointer = None
    /\ pending = {}
    /\ activated = {}
    /\ at = [p \in Publishers |-> "idle"]
    /\ progress = [p \in Publishers |-> NoProgress]
    /\ rollback = [r \in Rollbacks |-> NoRollback]

-----------------------------------------------------------------------------
(* The store.                                                               *)

\* Mutant: the pointer is put without a precondition.
PointerFreeToPut(d) == TRUE

PointerMatches(d) == pointer = d.base

\* Objects and manifests are created once (If-None-Match); the pointer is
\* replaced on condition that it is what its writer read.
Store(d) ==
    \/ /\ d.kind = "object"
       /\ objects' = [objects EXCEPT ![d.who] = @ \cup {d.file}]
       /\ UNCHANGED <<manifests, pointer, activated>>
    \/ /\ d.kind = "manifest"
       /\ manifests' = [manifests EXCEPT ![d.who] =
                            IF @ = None THEN [previous |-> d.base] ELSE @]
       /\ UNCHANGED <<objects, pointer, activated>>
    \/ /\ d.kind = "pointer"
       /\ IF PointerMatches(d)
          THEN pointer' = d.who /\ activated' = activated \cup {d.who}
          ELSE UNCHANGED <<pointer, activated>>
       /\ UNCHANGED <<objects, manifests>>

\* A put is executed, or never, or its answer is lost and it may be executed
\* later.
Send(d) ==
    \/ Store(d) /\ UNCHANGED pending
    \/ UNCHANGED dataVars
    \/ /\ Cardinality(pending) < MaxPending
       /\ pending' = pending \cup {d}
       /\ UNCHANGED <<objects, manifests, pointer, activated>>

LatePut(d) ==
    /\ d \in pending
    /\ pending' = pending \ {d}
    /\ Store(d)
    /\ UNCHANGED <<writerVars, publisherVars, rollback>>

\* Mutant: the stored bytes are not read back.
ObjectUnread(p, f) == TRUE

\* A full GET of the object gives the expected bytes.
ObjectReads(p, f) == f \in objects[p]

ManifestReads(p) == manifests[p] # None

\* Mutant: any pointer will do.
PointerExists(p) == pointer # None

PointerReads(p) == pointer = p

-----------------------------------------------------------------------------
(* publish_dataset                                                          *)

Goto(p, point, locals) ==
    /\ at' = [at EXCEPT ![p] = point]
    /\ progress' = [progress EXCEPT ![p] = locals]

\* The main thread is not inside a lease call.
Free(p) == call[p] = NoCall

\* keepalive.checkpoint: no renewal failed, and the lease is current.
Checkpoint(p) == ~over[p] /\ Owns(p)

\* A default run on an active dataset only verifies it.
PublishStart(p) ==
    /\ at[p] = "idle"
    /\ Goto(p, IF Mode[p] = "default" /\ pointer # None THEN "done" ELSE "acquire", NoProgress)
    /\ UNCHANGED <<writerVars, dataVars, rollback>>

\* The lease calls, each where the code makes it.
LeaseStep(p) ==
    /\ \/ at[p] = "acquire" /\ (AcquireRead(p) \/ AcquireFails(p))
       \/ at[p] \in Working \cup {"commit"} /\ (RenewRead(p) \/ RenewFails(p))
       \/ at[p] = "release" /\ (ReleaseRead(p) \/ ReleaseFails(p))
       \/ LeasePut(p) \/ ProposalExpired(p) \/ LeaseCheck(p)
    /\ UNCHANGED <<dataVars, publisherVars, rollback>>

NotAcquired(p) ==
    /\ at[p] = "acquire"
    /\ mine[p] = None
    /\ over[p]
    /\ Goto(p, "done", NoProgress)
    /\ UNCHANGED <<writerVars, dataVars, rollback>>

\* The pointer is read again under the lease; what is read is the
\* precondition of the commit.
Reread(p) ==
    /\ at[p] = "acquire"
    /\ Free(p)
    /\ mine[p] # None
    /\ IF Mode[p] = "default" /\ pointer # None
       THEN Goto(p, "release", NoProgress)
       ELSE Goto(p, "fetch", [NoProgress EXCEPT !.base = pointer])
    /\ UNCHANGED <<writerVars, dataVars, rollback>>

\* An error anywhere ends the attempt with what it has got so far.
PublishFails(p) ==
    /\ \/ at[p] \in {"fetch", "upload", "verify", "manifest", "commit"}
       \/ at[p] = "acquire" /\ mine[p] # None
    /\ Free(p)
    /\ Goto(p, "release", progress[p])
    /\ UNCHANGED <<writerVars, dataVars, rollback>>

\* The files are acquired, or taken over from the legacy layout, and verified.
Fetch(p) ==
    /\ at[p] = "fetch"
    /\ Free(p)
    /\ ~over[p]
    /\ Goto(p, "upload", progress[p])
    /\ UNCHANGED <<writerVars, dataVars, rollback>>

UploadCheckpoint(p) ==
    /\ at[p] = "upload"
    /\ Checkpoint(p)
    /\ Goto(p, "put", progress[p])
    /\ UNCHANGED <<writerVars, dataVars, rollback>>

\* The files are uploaded in the plan's order; which order does not matter.
NextFile(p) == CHOOSE f \in Files : f \notin progress[p].proven

ObjectPut(p) ==
    /\ at[p] = "put"
    /\ Send([kind |-> "object", who |-> p, file |-> NextFile(p), base |-> None])
    /\ Goto(p, "object_check", progress[p])
    /\ UNCHANGED <<writerVars, rollback>>

\* The object is read back in full; a renewal that failed meanwhile counts
\* only now.
ObjectCheck(p) ==
    LET proven == progress[p].proven \cup {NextFile(p)} IN
    /\ at[p] = "object_check"
    /\ Free(p)
    /\ \/ /\ ObjectReads(p, NextFile(p))
          /\ Goto(p, IF over[p] THEN "release" ELSE IF proven = Files THEN "verify" ELSE "upload",
                  [progress[p] EXCEPT !.proven = proven])
       \/ Goto(p, "release", progress[p])
    /\ UNCHANGED <<writerVars, dataVars, rollback>>

Verify(p) ==
    /\ at[p] = "verify"
    /\ Free(p)
    /\ Checkpoint(p)
    /\ \A f \in Files : ObjectReads(p, f)
    /\ Goto(p, "manifest", progress[p])
    /\ UNCHANGED <<writerVars, dataVars, rollback>>

ManifestPut(p) ==
    /\ at[p] = "manifest"
    /\ Send([kind |-> "manifest", who |-> p, file |-> None, base |-> progress[p].base])
    /\ Goto(p, "manifest_check", [progress[p] EXCEPT !.manifest = "possible"])
    /\ UNCHANGED <<writerVars, rollback>>

ManifestCheck(p) ==
    LET written == [progress[p] EXCEPT !.manifest = "written"] IN
    /\ at[p] = "manifest_check"
    /\ Free(p)
    /\ \/ ManifestReads(p) /\ Goto(p, IF Checkpoint(p) THEN "commit" ELSE "release", written)
       \/ ManifestReads(p) /\ Goto(p, "release", written)
       \/ Goto(p, "release", progress[p])
    /\ UNCHANGED <<writerVars, dataVars, rollback>>

\* The lease is renewed if it is about to end, and must be current.
CommitCheckpoint(p) ==
    /\ at[p] = "commit"
    /\ Free(p)
    /\ Checkpoint(p)
    /\ Goto(p, "pointer", progress[p])
    /\ UNCHANGED <<writerVars, dataVars, rollback>>

PointerPut(p) ==
    /\ at[p] = "pointer"
    /\ Send([kind |-> "pointer", who |-> p, file |-> None, base |-> progress[p].base])
    /\ Goto(p, "pointer_check", [progress[p] EXCEPT !.pointer = "ambiguous"])
    /\ UNCHANGED <<writerVars, rollback>>

\* The reread decides: the attempt's own pointer, another one, or nothing
\* that can be said.  A lease lost meanwhile is only a warning.
PointerCheck(p) ==
    /\ at[p] = "pointer_check"
    /\ Free(p)
    /\ \/ /\ PointerReads(p)
          /\ Goto(p, "release", [progress[p] EXCEPT !.pointer = "committed"])
       \/ /\ ~PointerReads(p)
          /\ pointer # None
          /\ Goto(p, "release", [progress[p] EXCEPT !.pointer = "conflict"])
       \/ Goto(p, "release", progress[p])
    /\ UNCHANGED <<writerVars, dataVars, rollback>>

Released(p) ==
    /\ at[p] = "release"
    /\ Free(p)
    /\ mine[p] = None
    /\ Goto(p, "done", progress[p])
    /\ UNCHANGED <<writerVars, dataVars, rollback>>

\* A dead attempt reports nothing; what it has sent stays sent.
PublisherDies(p) ==
    /\ at[p] \notin {"idle", "done", "dead"}
    /\ WriterDies(p)
    /\ Goto(p, "dead", NoProgress)
    /\ UNCHANGED <<dataVars, rollback>>

-----------------------------------------------------------------------------
(* _rollback_transaction                                                    *)

\* The pointer's state is the precondition; the manifest it names must be
\* readable.
RollbackRead(r) ==
    /\ rollback[r].step = "idle"
    /\ pointer # None
    /\ ManifestReads(pointer)
    /\ rollback' = [rollback EXCEPT ![r].step = "verify", ![r].base = pointer]
    /\ UNCHANGED <<writerVars, dataVars, publisherVars>>

\* The target's manifest and all its bytes are verified before the pointer
\* is touched.
RollbackVerify(r, m) ==
    /\ rollback[r].step = "verify"
    /\ ManifestReads(m)
    /\ \A f \in Files : ObjectReads(m, f)
    /\ rollback' = [rollback EXCEPT ![r].step = "put", ![r].target = m]
    /\ UNCHANGED <<writerVars, dataVars, publisherVars>>

RollbackPut(r) ==
    /\ rollback[r].step = "put"
    /\ Send([kind |-> "pointer", who |-> rollback[r].target, file |-> None,
             base |-> rollback[r].base])
    /\ rollback' = [rollback EXCEPT ![r].step = "done"]
    /\ UNCHANGED <<writerVars, publisherVars>>

-----------------------------------------------------------------------------
PublisherStep(p) ==
    \/ PublishStart(p) \/ LeaseStep(p) \/ NotAcquired(p) \/ Reread(p) \/ PublishFails(p)
    \/ Fetch(p) \/ UploadCheckpoint(p) \/ ObjectPut(p) \/ ObjectCheck(p) \/ Verify(p)
    \/ ManifestPut(p) \/ ManifestCheck(p) \/ CommitCheckpoint(p)
    \/ PointerPut(p) \/ PointerCheck(p) \/ Released(p) \/ PublisherDies(p)

PublicationNext ==
    \/ ServerTick /\ UNCHANGED <<dataVars, publisherVars, rollback>>
    \/ \E r \in delayed : DelayedPut(r) /\ UNCHANGED <<dataVars, publisherVars, rollback>>
    \/ \E d \in pending : LatePut(d)
    \/ \E p \in Publishers : PublisherStep(p)
    \/ \E r \in Rollbacks :
        \/ RollbackRead(r)
        \/ \E m \in Publishers : RollbackVerify(r, m)
        \/ RollbackPut(r)

PublicationSpec == PublicationInit /\ [][PublicationNext]_pubVars

\* What is left when the leases, the attempts and their pending puts are
\* hidden.
Register == INSTANCE DatasetRegister WITH Publications <- Publishers, active <- pointer

-----------------------------------------------------------------------------
(* Properties.                                                              *)

\* Whatever a reader can be pointed to is complete: a stored manifest has all
\* its objects, follows a manifest that was active, and the pointer names
\* stored manifests only, also after puts were lost or late, attempts died at
\* any point and rollbacks ran without a lease (_stage_and_commit_candidate,
\* _rollback_transaction).
HistoryComplete ==
    /\ \A p \in activated : manifests[p] # None
    /\ \A p \in Publishers : manifests[p] # None =>
           /\ objects[p] = Files
           /\ manifests[p].previous \in activated \cup {None}

\* Publishing implements the register its readers rely on: whatever is lost,
\* late or dies, each step seen from outside adds an object, stores one
\* manifest over all its objects and after a once active one, or moves the
\* pointer to a stored manifest (_stage_and_commit_candidate,
\* _rollback_transaction).
ImplementsRegister == Register!RegisterSpec

\* A set of manifests that holds the active one and whatever its members
\* follow.
ReachableWithin(S) ==
    /\ pointer \in S \cup {None}
    /\ \A p \in S : manifests[p] # None => manifests[p].previous \in S \cup {None}

\* No publication is lost to a concurrent one: as long as nobody has rolled
\* back, every manifest that was ever active is reached from the active one
\* by previous_manifest_key, even when a publisher whose lease has passed to
\* another one still commits (_put_pointer_exact).
NothingDropped ==
    (\A r \in Rollbacks : rollback[r].step # "done") =>
        \A S \in SUBSET Publishers : ReachableWithin(S) => activated \subseteq S

\* A publisher that reports its pointer committed has been active, whatever
\* became of the put's answer (_put_pointer_exact, _reconcile_control_write).
CommittedWasActive ==
    \A p \in Publishers : progress[p].pointer = "committed" => p \in activated
=============================================================================
