------------------------ MODULE RetentionOperations -------------------------
(***************************************************************************)
(* Dry-run plans, prepared tombstones and destructive apply                *)
(* (scripts/checkpoints/planner.py, operations.py, service.py) over the    *)
(* objects of one disposable leaf, beside the lease handlers of            *)
(* LeaseManager and the streaming writers.                                 *)
(*                                                                         *)
(* The service answers requests on threads.  A thread takes one step per   *)
(* S3 call that matters, so other threads, writers and the clock come in   *)
(* between; Abort ends a request at any step, as a crash, a deadline or a  *)
(* storage failure does.  Only apply past quiescence holds the lock.       *)
(***************************************************************************)
EXTENDS LeaseManager, FiniteSets

CONSTANTS
    Target,         \* the leaf operations work on
    Keys,           \* object keys of the leaf, in key order
    Ops,            \* operation ids, one per reviewed plan
    Quiescence,     \* lease.quiescence_seconds
    MaxDeleteKeys,  \* bounds.max_delete_keys
    MaxAttempts,    \* results/attempts listing bound (1024 in the service)
    MaxWrites,      \* bound: object versions the writers create
    StopMayFail,    \* a query may outlive its session's terminal request
    LateDeletes     \* a delete that timed out may still be executed later

ASSUME OperationsAssumption ==
    /\ Target \in Prefixes
    /\ Keys \subseteq Nat
    /\ Quiescence \in Nat
    /\ MaxDeleteKeys \in Nat \ {0}
    /\ MaxAttempts \in Nat
    /\ MaxWrites \in Nat
    /\ StopMayFail \in BOOLEAN
    /\ LateDeletes \in BOOLEAN

VARIABLES
    store,     \* the leaf: the current version of each key, or None
    writes,    \* versions created so far; a version's ETag is its number
    inflight,  \* keys of delete requests that timed out undecided
    plan,      \* eligible plan artifact of each operation
    prepared,  \* tombstones/{operation_id}/prepared.json with its manifest
    attempts,  \* tombstones/{operation_id}/results/attempts/
    audits,    \* attempts that have their audit object
    pc,        \* where each service thread stands
    req        \* the locals of each thread's request

storeVars == <<store, writes, inflight>>
evidenceVars == <<plan, prepared, attempts, audits>>
threadVars == <<pc, req>>
controlVars == <<clock, stepsBack, lease, terminal, pending, epochs, held>>
vars == <<leaseVars, storeVars, evidenceVars, threadVars>>

ObjectRecord == [key : Keys, etag : 1..MaxWrites, last_modified : Instant]
Plan == [evaluated_at : Instant, records : SUBSET ObjectRecord]
Prepared == [evaluated_at : Instant, prepared_at : Instant, records : SUBSET ObjectRecord]
States == {"prepared", "not_ready", "refused", "partial", "completed"}

\* One attempt record; its object name is its sequence number and digest, so
\* equal records are one object.
Attempt == [seq : 0..MaxAttempts, state : States,
            deleted : SUBSET ObjectRecord, occurred_at : Instant]
NoAttempt == [seq |-> 0, state |-> "prepared", deleted |-> {}, occurred_at |-> 0]

\* Program points.  The ones in Critical are inside the checkpoint's lock.
Critical == {"read", "repair", "relist", "reevaluate", "relist_empty",
             "head", "delete", "postflight"}
Writing == {"list", "create", "audit"}
Points == {"idle", "plan_lease", "plan_terminal", "find", "tombstone",
           "early", "enter"} \cup Critical \cup Writing

Request == [kind : {"none", "plan", "prepare", "apply"}, op : Ops \cup {None},
            at : Instant, evaluated_at : Instant, view : SUBSET ObjectRecord,
            seen : LeaseRecord \cup {None}, gone : SUBSET ObjectRecord,
            batch : SUBSET ObjectRecord, draft : Attempt]
NoRequest == [kind |-> "none", op |-> None, at |-> 0, evaluated_at |-> 0, view |-> {},
              seen |-> None, gone |-> {}, batch |-> {}, draft |-> NoAttempt]

ASSUME AbsentAssumption ==
    /\ None \notin ObjectRecord \cup Prepared \cup Plan
    /\ \A records \in SUBSET ObjectRecord : records # None
    /\ None \notin Ops

TypeOK ==
    /\ LeaseTypeOK
    /\ store \in [Keys -> ObjectRecord \cup {None}]
    /\ writes \in 0..MaxWrites
    /\ inflight \subseteq Keys
    /\ plan \in [Ops -> Plan \cup {None}]
    /\ prepared \in [Ops -> Prepared \cup {None}]
    /\ attempts \in [Ops -> SUBSET Attempt]
    /\ audits \in [Ops -> SUBSET Attempt]
    /\ pc \in [Appliers -> Points]
    /\ req \in [Appliers -> Request]

Init ==
    /\ LeaseInit
    /\ store = [k \in Keys |-> None]
    /\ writes = 0
    /\ inflight = {}
    /\ plan = [o \in Ops |-> None]
    /\ prepared = [o \in Ops |-> None]
    /\ attempts = [o \in Ops |-> {}]
    /\ audits = [o \in Ops |-> {}]
    /\ pc = [t \in Appliers |-> "idle"]
    /\ req = [t \in Appliers |-> NoRequest]

-----------------------------------------------------------------------------
(* The leaf and its writers.                                                *)

Inventory == {store[k] : k \in Keys} \ {None}

\* A streaming query writes from its acquire to its stop.
WritesNow(w) ==
    /\ held[w] # 0
    /\ PrefixOf[w] = Target
    /\ StopMayFail \/ (LeaseActive /\ lease.epoch = held[w])

Write(w, k) ==
    /\ WritesNow(w)
    /\ writes < MaxWrites
    /\ writes' = writes + 1
    /\ store' = [store EXCEPT ![k] =
                    [key |-> k, etag |-> writes', last_modified |-> clock]]
    /\ UNCHANGED <<leaseVars, inflight, evidenceVars, threadVars>>

\* A delete request the gateway gave up on reaches the store after all.
LateDelete(k) ==
    /\ k \in inflight
    /\ inflight' = inflight \ {k}
    /\ store' = [store EXCEPT ![k] = None]
    /\ UNCHANGED <<leaseVars, writes, evidenceVars, threadVars>>

-----------------------------------------------------------------------------
(* Steps of a request thread.                                               *)

Goto(t, point, locals) ==
    /\ pc' = [pc EXCEPT ![t] = point]
    /\ req' = [req EXCEPT ![t] = locals]

\* Mutant: the lock is released whoever holds it.
ReturnReleasing(t) ==
    /\ Goto(t, "idle", NoRequest)
    /\ lock' = None

\* Mutant: the lock is not released.
ReturnLocked(t) ==
    /\ Goto(t, "idle", NoRequest)
    /\ UNCHANGED lock

\* The request ends, by return or by failure, and leaves the lock if inside.
Return(t) ==
    /\ Goto(t, "idle", NoRequest)
    /\ lock' = IF lock = t THEN None ELSE lock

Abort(t) ==
    /\ pc[t] # "idle"
    /\ Return(t)
    /\ UNCHANGED <<controlVars, storeVars, evidenceVars>>

\* planner.plan reads inventory, lease and terminal one after the other.
PlanInventory(t, o) ==
    /\ pc[t] = "idle"
    /\ plan[o] = None
    /\ Inventory # {}
    /\ Goto(t, "plan_lease", [NoRequest EXCEPT !.kind = "plan", !.op = o,
                                !.evaluated_at = clock, !.view = Inventory])
    /\ UNCHANGED <<leaseVars, storeVars, evidenceVars>>

PlanLease(t) ==
    /\ pc[t] = "plan_lease"
    /\ Goto(t, "plan_terminal", [req[t] EXCEPT !.seen = lease])
    /\ UNCHANGED <<leaseVars, storeVars, evidenceVars>>

PlanEvaluate(t) ==
    /\ pc[t] = "plan_terminal"
    /\ plan' = IF PlanEligible(Target, req[t].evaluated_at, req[t].seen, terminal, req[t].view)
                  /\ plan[req[t].op] = None
               THEN [plan EXCEPT ![req[t].op] =
                        [evaluated_at |-> req[t].evaluated_at, records |-> req[t].view]]
               ELSE plan
    /\ Return(t)
    /\ UNCHANGED <<controlVars, storeVars, prepared, attempts, audits>>

-----------------------------------------------------------------------------
(* The attempt history of an operation.                                     *)

Rank(state) == CASE state = "prepared"  -> 0
                 [] state = "not_ready" -> 1
                 [] state = "refused"   -> 2
                 [] state = "partial"   -> 2
                 [] state = "completed" -> 3

\* The attempts are numbered without a gap and none takes anything back.
InSequence(A) ==
    /\ \A i \in 1..Cardinality(A) : \E a \in A : a.seq = i
    /\ \A a \in A : a.seq = 1 <=> a.state = "prepared"
    /\ \A a, b \in A : a.seq < b.seq =>
        /\ Rank(a.state) <= Rank(b.state)
        /\ a.deleted \subseteq b.deleted
        /\ a.occurred_at <= b.occurred_at
        /\ a.state # "completed"

\* What an attempt may say is deleted, by its state.
AttemptReads(o, a) ==
    /\ a.state \in {"prepared", "not_ready"} => a.deleted = {}
    /\ a.state = "partial" => a.deleted # {}
    /\ a.state = "completed" => a.deleted = prepared[o].records

\* _latest_status accepts the stored history; otherwise it raises
\* status_invalid or status_ambiguous, as every later request will.
HistoryReads(o) ==
    /\ InSequence(attempts[o])
    /\ \A a \in attempts[o] : AttemptReads(o, a)

\* Mutant: the listing is read from its other end.
FirstListed(A) == CHOOSE a \in A : \A b \in A : a.seq <= b.seq

Latest(A) == CHOOSE a \in A : \A b \in A : b.seq <= a.seq

\* A completed operation is only reported after the leaf is seen empty again.
CompletedProved(a) == a.state = "completed" => Inventory = {}

Draft(state, deleted, occurred_at) ==
    [seq |-> 0, state |-> state, deleted |-> deleted, occurred_at |-> occurred_at]

\* Start recording an attempt (the result shards it names are written first).
Record(t, locals, draft) == Goto(t, "list", [locals EXCEPT !.draft = draft])

AttemptFits(seq) == seq <= MaxAttempts

\* _record_status numbers the attempt by the listing it reads.  Prepare
\* stamps it with the time of this step.
RecordList(t) ==
    LET seq == Cardinality(attempts[req[t].op]) + 1 IN
    /\ pc[t] = "list"
    /\ IF ~AttemptFits(seq)
       THEN Return(t)
       ELSE /\ Goto(t, "create", [req[t] EXCEPT
                !.draft.seq = seq,
                !.draft.occurred_at = IF req[t].kind = "prepare" THEN clock ELSE @])
            /\ UNCHANGED lock
    /\ UNCHANGED <<controlVars, storeVars, evidenceVars>>

RecordCreate(t) ==
    /\ pc[t] = "create"
    /\ attempts' = [attempts EXCEPT ![req[t].op] = @ \cup {req[t].draft}]
    /\ Goto(t, "audit", req[t])
    /\ UNCHANGED <<leaseVars, storeVars, plan, prepared, audits>>

\* _ensure_audit; an apply that had to reconstruct the prepared attempt goes
\* on, every other request is over.
RecordAudit(t) ==
    /\ pc[t] = "audit"
    /\ audits' = [audits EXCEPT ![req[t].op] = @ \cup {req[t].draft}]
    /\ IF req[t].kind = "apply" /\ req[t].draft.state = "prepared"
       THEN /\ Goto(t, IF lock = t THEN "read" ELSE "early", req[t])
            /\ UNCHANGED lock
       ELSE Return(t)
    /\ UNCHANGED <<controlVars, storeVars, plan, prepared, attempts>>

-----------------------------------------------------------------------------
(* prepare                                                                  *)

\* _decode_prepared accepts the stored tombstone: it is not older than the plan
\* it was made from, as it may be when the clock was set back between the two.
TombstoneReads(o) == prepared[o].prepared_at >= prepared[o].evaluated_at

\* service.py admits one prepare at a time.
PrepareSlotFree == \A t \in Appliers : req[t].kind # "prepare"

\* Prepare and apply are refused outside the disposable class; planning is not.
Disposable == Durability = "disposable_acceptance"

PrepareStart(t, o) ==
    /\ pc[t] = "idle"
    /\ Disposable
    /\ plan[o] # None
    /\ PrepareSlotFree
    /\ Goto(t, "find", [NoRequest EXCEPT !.kind = "prepare", !.op = o])
    /\ UNCHANGED <<leaseVars, storeVars, evidenceVars>>

\* An existing tombstone, if it reads: report its latest attempt after repairing every
\* missing audit, or record the prepared attempt a failed prepare left out.
PrepareFind(t) ==
    LET o == req[t].op
        A == attempts[o] IN
    /\ pc[t] = "find"
    /\ \/ /\ prepared[o] = None
          /\ Goto(t, "tombstone", req[t])
          /\ UNCHANGED <<lock, audits>>
       \/ /\ prepared[o] # None
          /\ ~TombstoneReads(o)
          /\ Return(t)
          /\ UNCHANGED audits
       \/ /\ prepared[o] # None
          /\ TombstoneReads(o)
          /\ A = {}
          /\ Record(t, req[t], Draft("prepared", {}, 0))
          /\ UNCHANGED <<lock, audits>>
       \/ /\ prepared[o] # None
          /\ TombstoneReads(o)
          /\ A # {}
          /\ audits' = IF HistoryReads(o) /\ CompletedProved(Latest(A))
                       THEN [audits EXCEPT ![o] = A] ELSE audits
          /\ Return(t)
    /\ UNCHANGED <<controlVars, storeVars, plan, prepared, attempts>>

PrepareTombstone(t) ==
    /\ pc[t] = "tombstone"
    /\ prepared' = [prepared EXCEPT ![req[t].op] =
                        [evaluated_at |-> plan[req[t].op].evaluated_at,
                         prepared_at |-> clock, records |-> plan[req[t].op].records]]
    /\ Record(t, req[t], Draft("prepared", {}, 0))
    /\ UNCHANGED <<leaseVars, storeVars, plan, attempts, audits>>

-----------------------------------------------------------------------------
(* apply                                                                    *)

\* Mutant: quiescence is not waited for.
QuietAtOnce(o) == clock >= prepared[o].prepared_at

Quiet(o) == clock >= prepared[o].prepared_at + Quiescence

\* The tombstone must read; the request's clock is read once, before any lock is
\* taken.
ApplyStart(t, o) ==
    /\ pc[t] = "idle"
    /\ Disposable
    /\ prepared[o] # None
    /\ TombstoneReads(o)
    /\ Goto(t, IF Quiet(o) THEN "enter" ELSE "early",
            [NoRequest EXCEPT !.kind = "apply", !.op = o, !.at = clock])
    /\ UNCHANGED <<leaseVars, storeVars, evidenceVars>>

\* Mutant: the request's clock is not compared with the history's.
NeverBehindHistory(t, A) == FALSE

\* The request's clock is older than the operation's latest attempt.
BehindHistory(t, A) == req[t].at < Latest(A).occurred_at

\* The attempt a failed prepare left out, with the tombstone's own time.
Reconstructed(o) == Draft("prepared", {}, prepared[o].prepared_at)

\* Before quiescence, without the lock: not_ready is recorded unless the
\* operation is further on or the clock is behind its history.
ApplyEarly(t) ==
    LET o == req[t].op
        A == attempts[o] IN
    /\ pc[t] = "early"
    /\ \/ /\ A = {}
          /\ Record(t, req[t], Reconstructed(o))
          /\ UNCHANGED <<lock, audits>>
       \/ /\ A # {}
          /\ ~(HistoryReads(o) /\ CompletedProved(Latest(A)))
          /\ Return(t)
          /\ UNCHANGED audits
       \/ /\ A # {}
          /\ HistoryReads(o)
          /\ CompletedProved(Latest(A))
          /\ audits' = [audits EXCEPT ![o] = A]
          /\ IF \/ Latest(A).state \in {"refused", "partial", "completed"}
                \/ BehindHistory(t, A)
             THEN Return(t)
             ELSE /\ Record(t, req[t], Draft("not_ready", {}, req[t].at))
                  /\ UNCHANGED lock
    /\ UNCHANGED <<controlVars, storeVars, plan, prepared, attempts>>

ApplyEnter(t) ==
    /\ pc[t] = "enter"
    /\ lock = None
    /\ lock' = t
    /\ Goto(t, "read", req[t])
    /\ UNCHANGED <<controlVars, storeVars, evidenceVars>>

\* Mutant: what the request saw before it waited for the lock is not read again.
ApplyReadStale(t) ==
    /\ pc[t] = "read"
    /\ attempts[req[t].op] # {}
    /\ Goto(t, "repair", req[t])
    /\ UNCHANGED <<leaseVars, storeVars, evidenceVars>>

ApplyRead(t) ==
    LET o == req[t].op
        A == attempts[o]
        refuses == \/ ~HistoryReads(o)
                   \/ Latest(A).state = "completed"
                   \/ BehindHistory(t, A) IN
    /\ pc[t] = "read"
    /\ \/ /\ A = {}
          /\ Record(t, req[t], Reconstructed(o))
          /\ UNCHANGED <<lock, audits>>
       \/ /\ A # {}
          /\ refuses
          /\ Return(t)
          /\ audits' = IF /\ HistoryReads(o)
                          /\ Latest(A).state = "completed"
                          /\ CompletedProved(Latest(A))
                       THEN [audits EXCEPT ![o] = A] ELSE audits
       \/ /\ A # {}
          /\ ~refuses
          /\ Goto(t, "repair", req[t])
          /\ UNCHANGED <<lock, audits>>
    /\ UNCHANGED <<controlVars, storeVars, plan, prepared, attempts>>

\* Mutant: missing audits are left missing.
UnrepairedAudits(o) == audits[o]

\* The audits once every attempt of the history has been gone through.
RepairedAudits(o) == attempts[o]

\* The reviewed objects, read back from the tombstone's shards and compared
\* with its digest.
ManifestOf(o) == prepared[o].records

\* The history is read again; its latest attempt says what is already gone.
ApplyRepair(t) ==
    LET o == req[t].op
        A == attempts[o]
        gone == Latest(A).deleted IN
    /\ pc[t] = "repair"
    /\ IF HistoryReads(o)
       THEN /\ audits' = [audits EXCEPT ![o] = RepairedAudits(o)]
            /\ Goto(t, IF gone = ManifestOf(o) THEN "relist_empty" ELSE "relist",
                    [req[t] EXCEPT !.gone = gone])
            /\ UNCHANGED lock
       ELSE /\ Return(t)
            /\ UNCHANGED audits
    /\ UNCHANGED <<controlVars, storeVars, plan, prepared, attempts>>

\* What the manifest still has to lose.
Left(t) == ManifestOf(req[t].op) \ req[t].gone

Refuse(t) == Record(t, req[t], Draft("refused", req[t].gone, req[t].at))

\* Revalidation runs the planner again, under the lock.
Relist(t) ==
    /\ pc[t] = "relist"
    /\ IF Inventory = {}
       THEN Refuse(t)
       ELSE Goto(t, "reevaluate", [req[t] EXCEPT !.view = Inventory,
                                     !.evaluated_at = clock])
    /\ UNCHANGED <<leaseVars, storeVars, evidenceVars>>

\* Mutant: only the listing is compared, the lease is not judged again.
ReevaluateListing(t) ==
    /\ pc[t] = "reevaluate"
    /\ IF req[t].view = Left(t)
       THEN Goto(t, "head", [req[t] EXCEPT !.view = {}, !.evaluated_at = 0])
       ELSE Refuse(t)
    /\ UNCHANGED <<leaseVars, storeVars, evidenceVars>>

Reevaluate(t) ==
    /\ pc[t] = "reevaluate"
    /\ IF /\ PlanEligible(Target, req[t].evaluated_at, lease, terminal, req[t].view)
          /\ req[t].view = Left(t)
       THEN Goto(t, "head", [req[t] EXCEPT !.view = {}, !.evaluated_at = 0])
       ELSE Refuse(t)
    /\ UNCHANGED <<leaseVars, storeVars, evidenceVars>>

\* Everything was already recorded as deleted: only emptiness is left to prove.
RelistEmpty(t) ==
    /\ pc[t] = "relist_empty"
    /\ IF Inventory = {} THEN Goto(t, "postflight", req[t]) ELSE Refuse(t)
    /\ UNCHANGED <<leaseVars, storeVars, evidenceVars>>

\* A failed listing or control read is recorded like a changed state, and so
\* is a deadline in the emptiness proof.
RevalidationFails(t) ==
    /\ pc[t] \in {"relist", "reevaluate", "relist_empty"}
    /\ Refuse(t)
    /\ UNCHANGED <<leaseVars, storeVars, evidenceVars>>

\* The next delete request: the first keys left, in key order.
NextBatch(t) ==
    {r \in Left(t) : Cardinality({s \in Left(t) : s.key < r.key}) < MaxDeleteKeys}

\* Mutant: the requested batch counts as deleted.
RecordFailureOptimistic(t, gone) ==
    Record(t, [req[t] EXCEPT !.gone = gone, !.batch = {}],
           Draft("partial", gone \cup req[t].batch, req[t].at))

\* A failure inside the delete loop is recorded before it is raised.
RecordFailure(t, gone) ==
    Record(t, [req[t] EXCEPT !.gone = gone, !.batch = {}],
           Draft(IF gone = {} THEN "refused" ELSE "partial", gone, req[t].at))

HeadBatch(t) ==
    /\ pc[t] = "head"
    /\ \/ /\ Left(t) = {}
          /\ Goto(t, "postflight", req[t])
       \/ /\ Left(t) # {}
          /\ NextBatch(t) \subseteq Inventory
          /\ Goto(t, "delete", [req[t] EXCEPT !.batch = NextBatch(t)])
       \/ /\ ~(NextBatch(t) \subseteq Inventory)
          /\ RecordFailure(t, req[t].gone)
    /\ UNCHANGED <<leaseVars, storeVars, evidenceVars>>

KeysOf(records) == {r.key : r \in records}

\* The store removes the named keys, whatever version they hold by now.
Remove(records) ==
    store' = [k \in Keys |-> IF k \in KeysOf(records) THEN None ELSE store[k]]

DeleteConfirmed(t) ==
    /\ pc[t] = "delete"
    /\ Remove(req[t].batch)
    /\ Goto(t, "head", [req[t] EXCEPT !.gone = @ \cup req[t].batch, !.batch = {}])
    /\ UNCHANGED <<leaseVars, writes, inflight, evidenceVars>>

\* Some keys failed and the response says which.
DeletePartial(t) ==
    /\ pc[t] = "delete"
    /\ \E done \in SUBSET req[t].batch \ {req[t].batch} :
        /\ Remove(done)
        /\ RecordFailure(t, req[t].gone \cup done)
    /\ UNCHANGED <<leaseVars, writes, inflight, evidenceVars>>

\* No usable response: any part of the request took effect, none is reported.
DeleteLost(t) ==
    /\ pc[t] = "delete"
    /\ \E done \in SUBSET req[t].batch :
        /\ Remove(done)
        /\ inflight' = IF LateDeletes
                       THEN inflight \cup KeysOf(req[t].batch \ done) ELSE inflight
    /\ RecordFailure(t, req[t].gone)
    /\ UNCHANGED <<leaseVars, writes, evidenceVars>>

Postflight(t) ==
    /\ pc[t] = "postflight"
    /\ IF Inventory = {}
       THEN Record(t, req[t], Draft("completed", req[t].gone, req[t].at))
       ELSE RecordFailure(t, req[t].gone)
    /\ UNCHANGED <<leaseVars, storeVars, evidenceVars>>

\* check_deadline fails between two calls of the delete loop.
Deadline(t) ==
    /\ pc[t] \in {"head", "postflight"}
    /\ RecordFailure(t, req[t].gone)
    /\ UNCHANGED <<leaseVars, storeVars, evidenceVars>>

Step(t) ==
    \/ PlanLease(t) \/ PlanEvaluate(t)
    \/ RecordList(t) \/ RecordCreate(t) \/ RecordAudit(t)
    \/ PrepareFind(t) \/ PrepareTombstone(t)
    \/ ApplyEarly(t) \/ ApplyEnter(t) \/ ApplyRead(t) \/ ApplyRepair(t)
    \/ Relist(t) \/ Reevaluate(t) \/ RelistEmpty(t) \/ RevalidationFails(t)
    \/ HeadBatch(t) \/ DeleteConfirmed(t) \/ DeletePartial(t) \/ DeleteLost(t)
    \/ Postflight(t) \/ Deadline(t)

Start(t) == \E o \in Ops : PlanInventory(t, o) \/ PrepareStart(t, o) \/ ApplyStart(t, o)

Next ==
    \/ LeaseNext /\ UNCHANGED <<storeVars, evidenceVars, threadVars>>
    \/ \E w \in Writers, k \in Keys : Write(w, k)
    \/ \E k \in Keys : LateDelete(k)
    \/ \E t \in Appliers : Start(t) \/ Step(t) \/ Abort(t)

Spec == Init /\ [][Next]_vars

\* A handler thread that can go on does: every S3 call it waits for is bounded
\* by the client's timeouts, and nothing else blocks it inside the lock.
FairSpec ==
    /\ Spec
    /\ \A t \in Appliers : WF_vars(Step(t))
    /\ \A w \in Writers :
        WF_vars(PersistTerminal(w) /\ UNCHANGED <<storeVars, evidenceVars, threadVars>>)

\* What is left when requests, leases, audits and the clock are hidden: the
\* leaf, the reviewed objects and the attempts in the order of their numbers.
Reviewed == [o \in Ops |-> IF prepared[o] = None THEN None ELSE prepared[o].records]
InOrder(A) == [i \in 1..Cardinality(A) |-> CHOOSE a \in A : a.seq = i]
History == [o \in Ops |-> InOrder(attempts[o])]

Journal == INSTANCE OperationJournal
    WITH Objects <- ObjectRecord, leaf <- Inventory, manifest <- Reviewed, journal <- History

-----------------------------------------------------------------------------
(* Properties.                                                              *)

Removed(k) == store[k] # None /\ store'[k] = None

\* Apply removes an object only while no writer holds the checkpoint, and only
\* the very version (key, ETag, LastModified) that the reviewed manifest names,
\* however plans, lease requests and writes interleave (operations.py
\* _apply_locked under the shared checkpoint lock).
OnlyReviewedVersionsRemoved ==
    [][\A k \in Keys : Removed(k) =>
        /\ ~LeaseActive
        /\ \E t \in Appliers :
            pc[t] = "delete" /\ store[k] \in prepared[req[t].op].records]_vars

\* Whatever a query that outlived its terminal request writes and however
\* late a delete is executed, a removal stays within the keys of a tombstone
\* whose quiescence has passed and whose reviewed objects have all aged.
RemovalsConfinedAndAged ==
    [][\A k \in Keys : Removed(k) =>
        \E o \in Ops :
            /\ prepared[o] # None
            /\ k \in KeysOf(prepared[o].records)
            /\ clock >= prepared[o].prepared_at + Quiescence
            /\ \A r \in prepared[o].records : clock >= r.last_modified + Retention]_vars

\* Evidence is true: an object some attempt records as deleted is not in the
\* leaf, and a completed attempt accounts for the whole manifest.
RecordedDeletionsAreReal ==
    \A o \in Ops : \A a \in attempts[o] :
        /\ a.deleted \cap Inventory = {}
        /\ a.deleted \subseteq prepared[o].records
        /\ a.state = "completed" => a.deleted = prepared[o].records

\* From the revalidation to the last delete request, a thread is inside the
\* lock and no writer holds the lease, however many threads and sessions run
\* (operations.py _apply_locked, leases.py acquire).
DeletionExcludesWriters ==
    \A t \in Appliers : pc[t] \in {"head", "delete"} => lock = t /\ ~LeaseActive

\* With one request at a time, the history of an operation can be read back after
\* any crash, retry or clock correction (_latest_status), and so can its tombstone
\* once anything but "prepared" was recorded (_decode_prepared): an operation that
\* was prepared on a clock behind its plan's cannot be read and never acted on.
\* Requests for one operation that overlap can spoil the history; what holds for
\* them is ResultsInOrder.
HistoryStaysReadable ==
    \A o \in Ops :
        /\ HistoryReads(o)
        /\ (\E a \in attempts[o] : a.state # "prepared") => TombstoneReads(o)

Results(o) == {a \in attempts[o] : a.state \in {"refused", "partial", "completed"}}

\* However many requests for an operation overlap, its results never contradict
\* each other: no two have the same number, a later one was recorded at no earlier
\* time and accounts for at least the deletions of an earlier one, and none follows
\* a completed one (_apply_locked, which records them under the lock).
ResultsInOrder ==
    \A o \in Ops : \A a, b \in Results(o) :
        /\ a.seq = b.seq => a = b
        /\ a.seq < b.seq => /\ a.deleted \subseteq b.deleted
                            /\ a.occurred_at <= b.occurred_at
                            /\ a.state # "completed"

\* A request that starts deleting has first repaired every missing audit.
AuditsPrecedeDeletion ==
    \A t \in Appliers : pc[t] = "delete" => attempts[req[t].op] = audits[req[t].op]

\* The operations keep the journal their evidence promises: whatever crashes,
\* is lost or arrives late, each step seen from outside reviews once, writes a
\* version nobody called deleted, removes something an operation on record may
\* remove, or adds one attempt after all the others that is true when it is
\* added (_record_status, _latest_status, _apply_locked).
ImplementsJournal == Journal!JournalSpec

\* Once an operation's history reads as completed it goes on doing so, whatever
\* requests for it are still under way.
CompletedIsFinal ==
    [][\A o \in Ops :
        HistoryReads(o) /\ (\E a \in attempts[o] : a.state = "completed")
            => HistoryReads(o)']_vars

\* The checkpoint's lock never stays with one request: neither a deletion nor
\* a terminal transition locks every other request out for good.
LockIsReleased ==
    \A h \in Writers \cup Appliers : lock = h ~> lock # h
=============================================================================
