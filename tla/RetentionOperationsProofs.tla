--------------------- MODULE RetentionOperationsProofs ----------------------
(***************************************************************************)
(* Theorems of RetentionOperations, for every number of request threads,   *)
(* sessions, operations, objects and attempts: deletion excludes writers,  *)
(* only reviewed versions are removed, recorded deletions are real, what   *)
(* is removed has aged, results are in order however requests overlap, and *)
(* one request at a time leaves an operation's history readable.  At the   *)
(* end, the evaluator by itself: eligibility survives time and removals    *)
(* and no write, for every class, every policy and every evidence.         *)
(***************************************************************************)
EXTENDS RetentionOperations, RetentionReplan, LeaseManagerProofs, Sequences,
        FiniteSetTheorems, WellFoundedInduction

-----------------------------------------------------------------------------
(* What one step of a request thread does to the lock.                      *)

\* The thread t moves, and every other thread stays where it is.
Moves(t) ==
    /\ pc' = [pc EXCEPT ![t] = pc'[t]]
    /\ pc'[t] \in Points

\* The lock is left alone, taken when it is free or given back by its holder.
LockDiscipline(t) ==
    \/ lock' = lock
    \/ lock = t /\ lock' = None
    \/ lock = None /\ lock' = t

\* A thread inside the critical section holds the lock, and from a successful
\* revalidation to the last delete no lease is active.
Inside(t) ==
    /\ pc[t] \in Critical => lock = t
    /\ pc[t] \in {"head", "delete"} => ~LeaseActive

ExclusionInv ==
    /\ pc \in [Appliers -> Points]
    /\ \A t \in Appliers : Inside(t)

\* A request thread never touches the controls, and stays within the rules.
Disciplined(t) ==
    /\ Moves(t)
    /\ LockDiscipline(t)
    /\ UNCHANGED <<clock, stepsBack, lease, terminal, pending, epochs, held>>
    /\ pc'[t] \in Critical => lock' = t
    /\ pc'[t] \in {"head", "delete"} => ~LeaseActive

LEMMA PlanningDisciplined ==
    ASSUME ExclusionInv, NEW t \in Appliers,
           (\E o \in Ops : PlanInventory(t, o)) \/ PlanLease(t) \/ PlanEvaluate(t) \/ Abort(t)
    PROVE  Disciplined(t)
<1> USE DEF ExclusionInv, Inside, Disciplined, Moves, LockDiscipline, Goto, Return,
            controlVars, leaseVars, Points, Critical, Writing
<1>1. CASE \E o \in Ops : PlanInventory(t, o)
  BY <1>1 DEF PlanInventory
<1>2. CASE PlanLease(t)
  BY <1>2 DEF PlanLease
<1>3. CASE PlanEvaluate(t)
  BY <1>3 DEF PlanEvaluate
<1>4. CASE Abort(t)
  BY <1>4 DEF Abort
<1> QED
  BY <1>1, <1>2, <1>3, <1>4

LEMMA RecordingDisciplined ==
    ASSUME ExclusionInv, NEW t \in Appliers,
           RecordList(t) \/ RecordCreate(t) \/ RecordAudit(t)
    PROVE  Disciplined(t)
<1> USE DEF ExclusionInv, Inside, Disciplined, Moves, LockDiscipline, Goto, Return,
            controlVars, leaseVars, Points, Critical, Writing
<1>1. CASE RecordList(t)
  BY <1>1 DEF RecordList
<1>2. CASE RecordCreate(t)
  BY <1>2 DEF RecordCreate
<1>3. CASE RecordAudit(t)
  BY <1>3 DEF RecordAudit
<1> QED
  BY <1>1, <1>2, <1>3

LEMMA PreparingDisciplined ==
    ASSUME ExclusionInv, NEW t \in Appliers,
           (\E o \in Ops : PrepareStart(t, o)) \/ PrepareFind(t) \/ PrepareTombstone(t)
    PROVE  Disciplined(t)
<1> USE DEF ExclusionInv, Inside, Disciplined, Moves, LockDiscipline, Goto, Return,
            Record, controlVars, leaseVars, Points, Critical, Writing
<1>1. CASE \E o \in Ops : PrepareStart(t, o)
  BY <1>1 DEF PrepareStart
<1>2. CASE PrepareFind(t)
  BY <1>2 DEF PrepareFind
<1>3. CASE PrepareTombstone(t)
  BY <1>3 DEF PrepareTombstone
<1> QED
  BY <1>1, <1>2, <1>3

LEMMA ApplyingDisciplined ==
    ASSUME ExclusionInv, NEW t \in Appliers,
           \/ \E o \in Ops : ApplyStart(t, o)
           \/ ApplyEarly(t) \/ ApplyEnter(t) \/ ApplyRead(t) \/ ApplyRepair(t)
    PROVE  Disciplined(t)
<1> USE DEF ExclusionInv, Inside, Disciplined, Moves, LockDiscipline, Goto, Return,
            Record, controlVars, leaseVars, Points, Critical, Writing
<1>1. CASE \E o \in Ops : ApplyStart(t, o)
  BY <1>1 DEF ApplyStart
<1>2. CASE ApplyEarly(t)
  BY <1>2 DEF ApplyEarly
<1>3. CASE ApplyEnter(t)
  BY <1>3 DEF ApplyEnter
<1>4. CASE ApplyRead(t)
  BY <1>4 DEF ApplyRead
<1>5. CASE ApplyRepair(t)
  BY <1>5 DEF ApplyRepair
<1> QED
  BY <1>1, <1>2, <1>3, <1>4, <1>5

\* The revalidation is what establishes that no lease is active.
LEMMA RevalidatingDisciplined ==
    ASSUME ExclusionInv, NEW t \in Appliers,
           Relist(t) \/ Reevaluate(t) \/ RelistEmpty(t) \/ RevalidationFails(t)
    PROVE  Disciplined(t)
<1> USE DEF ExclusionInv, Inside, Disciplined, Moves, LockDiscipline, Goto, Refuse,
            Record, controlVars, leaseVars, Points, Critical, Writing
<1>1. CASE Relist(t)
  BY <1>1 DEF Relist
<1>2. CASE Reevaluate(t)
  BY <1>2 DEF Reevaluate, PlanEligible, LeaseActive
<1>3. CASE RelistEmpty(t)
  BY <1>3 DEF RelistEmpty
<1>4. CASE RevalidationFails(t)
  BY <1>4 DEF RevalidationFails
<1> QED
  BY <1>1, <1>2, <1>3, <1>4

LEMMA DeletingDisciplined ==
    ASSUME ExclusionInv, NEW t \in Appliers,
           \/ HeadBatch(t) \/ DeleteConfirmed(t) \/ DeletePartial(t) \/ DeleteLost(t)
           \/ Postflight(t) \/ Deadline(t)
    PROVE  Disciplined(t)
<1> USE DEF ExclusionInv, Inside, Disciplined, Moves, LockDiscipline, Goto, RecordFailure,
            Record, controlVars, leaseVars, Points, Critical, Writing
<1>1. CASE HeadBatch(t)
  BY <1>1 DEF HeadBatch
<1>2. CASE DeleteConfirmed(t)
  BY <1>2 DEF DeleteConfirmed
<1>3. CASE DeletePartial(t)
  BY <1>3 DEF DeletePartial
<1>4. CASE DeleteLost(t)
  BY <1>4 DEF DeleteLost
<1>5. CASE Postflight(t)
  BY <1>5 DEF Postflight
<1>6. CASE Deadline(t)
  BY <1>6 DEF Deadline
<1> QED
  BY <1>1, <1>2, <1>3, <1>4, <1>5, <1>6

LEMMA ThreadDisciplined ==
    ASSUME ExclusionInv, NEW t \in Appliers, Start(t) \/ Step(t) \/ Abort(t)
    PROVE  Disciplined(t)
<1>1. CASE Start(t)
  BY <1>1, PlanningDisciplined, PreparingDisciplined, ApplyingDisciplined DEF Start
<1>2. CASE Abort(t)
  BY <1>2, PlanningDisciplined
<1>3. CASE Step(t)
  BY <1>3, PlanningDisciplined, RecordingDisciplined, PreparingDisciplined,
     ApplyingDisciplined, RevalidatingDisciplined, DeletingDisciplined
  DEF Step
<1> QED
  BY <1>1, <1>2, <1>3

-----------------------------------------------------------------------------
(* The composition.                                                         *)

\* A lease handler needs the lock to be free before it changes the lease, and
\* never takes it from a request thread.
LEMMA LeaseHandlersExcluded ==
    ASSUME LeaseNext, NEW t \in Appliers, lock = t
    PROVE  lease' = lease /\ lock' = lock
<1>1. t # None /\ t \notin Writers
  BY LeaseAssumption
<1>2. ASSUME NEW w \in Writers PROVE ~LeaseRequest(w)
  BY <1>1 DEF LeaseRequest, Acquire, Heartbeat, Terminal, TerminalAgain, PersistTerminal
<1> QED
  BY <1>2 DEF LeaseNext, Tick, ClockSetBack

LEMMA ExclusionNext ==
    ASSUME ExclusionInv, [Next]_vars
    PROVE  ExclusionInv'
<1>1. CASE LeaseNext /\ UNCHANGED <<storeVars, evidenceVars, threadVars>>
  <2>1. pc' = pc
    BY <1>1 DEF threadVars
  <2>2. ASSUME NEW t \in Appliers PROVE Inside(t)'
    <3>1. CASE pc[t] \in Critical
      <4>1. lock = t
        BY <3>1 DEF ExclusionInv, Inside
      <4>2. lease' = lease /\ lock' = lock
        BY <1>1, <4>1, LeaseHandlersExcluded
      <4> QED
        BY <2>1, <4>1, <4>2 DEF ExclusionInv, Inside, LeaseActive
    <3>2. CASE pc[t] \notin Critical
      BY <2>1, <3>2 DEF Inside, Critical
    <3> QED
      BY <3>1, <3>2
  <2> QED
    BY <2>1, <2>2 DEF ExclusionInv
<1>2. CASE \/ \E w \in Writers, k \in Keys : Write(w, k)
           \/ \E k \in Keys : LateDelete(k)
           \/ UNCHANGED vars
  <2>1. UNCHANGED <<pc, lock, lease>>
    BY <1>2 DEF Write, LateDelete, vars, leaseVars, threadVars
  <2> QED
    BY <2>1 DEF ExclusionInv, Inside, LeaseActive
<1>3. ASSUME NEW t \in Appliers, Start(t) \/ Step(t) \/ Abort(t)
      PROVE  ExclusionInv'
  <2>1. Disciplined(t)
    BY <1>3, ThreadDisciplined
  <2>2. pc' \in [Appliers -> Points]
    BY <2>1 DEF Disciplined, Moves, ExclusionInv
  <2>3. Inside(t)'
    BY <2>1 DEF Disciplined, Inside, LeaseActive
  <2>4. ASSUME NEW u \in Appliers, u # t PROVE Inside(u)'
    <3>1. pc'[u] = pc[u] /\ lease' = lease
      BY <2>1, <2>4 DEF Disciplined, Moves, ExclusionInv
    <3>2. lock = u => lock' = u
      BY <2>1, <2>4, LeaseAssumption DEF Disciplined, LockDiscipline
    <3> QED
      BY <3>1, <3>2 DEF ExclusionInv, Inside, LeaseActive
  <2> QED
    BY <2>2, <2>3, <2>4 DEF ExclusionInv
<1> QED
  BY <1>1, <1>2, <1>3 DEF Next

\* Between the revalidation and the last delete request of an apply no writer
\* holds the lease, for every number of threads, sessions and objects, and
\* whether or not queries outlive their sessions or deletes arrive late
\* (operations.py _apply_locked, leases.py acquire).
THEOREM DeletionIsExclusive == Spec => []DeletionExcludesWriters
<1>1. Init => ExclusionInv
  BY DEF Init, ExclusionInv, Inside, Points, Critical, Writing
<1>2. ExclusionInv /\ [Next]_vars => ExclusionInv'
  BY ExclusionNext
<1>3. ExclusionInv => DeletionExcludesWriters
  BY DEF ExclusionInv, Inside, DeletionExcludesWriters, Critical
<1> QED
  BY <1>1, <1>2, <1>3, PTL DEF Spec

-----------------------------------------------------------------------------
(* The lease protocol inside the composition.                               *)

\* Request threads take and leave the lock of no session.
LEMMA LeaseInvComposed ==
    ASSUME LeaseInv, ExclusionInv, [Next]_vars
    PROVE  LeaseInv'
<1>1. CASE LeaseNext /\ UNCHANGED <<storeVars, evidenceVars, threadVars>>
  BY <1>1, LeaseInvNext
<1>2. CASE \/ \E w \in Writers, k \in Keys : Write(w, k)
           \/ \E k \in Keys : LateDelete(k)
           \/ UNCHANGED vars
  BY <1>2, LeaseInvNext DEF Write, LateDelete, vars
<1>3. ASSUME NEW t \in Appliers, Start(t) \/ Step(t) \/ Abort(t)
      PROVE  LeaseInv'
  <2>1. /\ LockDiscipline(t)
        /\ UNCHANGED <<clock, stepsBack, lease, terminal, pending, epochs, held>>
    BY <1>3, ThreadDisciplined DEF Disciplined
  <2>2. lock' \in Writers => lock' = lock
    BY <2>1, LeaseAssumption DEF LockDiscipline
  <2>3. LeaseTypeOK'
    BY <2>1 DEF LeaseInv, LeaseTypeOK, LockDiscipline
  <2>4. EpochsDrawn' /\ PendingAgrees' /\ TerminalAgreesWithLease'
    BY <2>1, <2>2 DEF LeaseInv, EpochsDrawn, PendingAgrees, TerminalAgreesWithLease
  <2> QED
    BY <2>3, <2>4 DEF LeaseInv
<1> QED
  BY <1>1, <1>2, <1>3 DEF Next

-----------------------------------------------------------------------------
(* Types of the operations' state.                                          *)

\* Where a thread stands says which request it serves.
Located(t) ==
    /\ pc[t] # "idle" => req[t].op \in Ops
    /\ pc[t] \in {"find", "tombstone"} =>
        req[t].kind = "prepare" /\ plan[req[t].op] # None
    /\ pc[t] = "tombstone" => prepared[req[t].op] = None
    /\ pc[t] \in Critical \cup {"early", "enter"} =>
        req[t].kind = "apply" /\ prepared[req[t].op] # None
    /\ pc[t] \in Writing =>
        req[t].kind \in {"prepare", "apply"} /\ prepared[req[t].op] # None
    /\ pc[t] = "repair" => attempts[req[t].op] # {}

\* The service's prepare slot admits one thread.
OnePrepare ==
    \A t, u \in Appliers : req[t].kind = "prepare" /\ req[u].kind = "prepare" => t = u

OpsInv ==
    /\ LeaseInv
    /\ ExclusionInv
    /\ TypeOK
    /\ \A o \in Ops : IsFiniteSet(attempts[o])
    /\ \A t \in Appliers : Located(t)
    /\ OnePrepare

LEMMA NoRequestType == NoRequest \in Request
<1>1. 0 \in Instant /\ 0 \in 0..MaxAttempts
  BY LeaseAssumption, OperationsAssumption DEF Instant
<1>2. NoAttempt \in Attempt
  BY <1>1 DEF NoAttempt, Attempt, States
<1> QED
  BY <1>1, <1>2 DEF NoRequest, Request

\* Tombstones are written once, and nothing recorded is ever removed.
Grows ==
    \A o \in Ops : /\ plan[o] # None => plan'[o] # None
                   /\ prepared[o] # None => prepared'[o] = prepared[o]
                   /\ attempts[o] \subseteq attempts'[o]

\* The type-correct effect of one step of thread t.
WellTyped(t) ==
    /\ store' \in [Keys -> ObjectRecord \cup {None}]
    /\ writes' \in 0..MaxWrites
    /\ inflight' \subseteq Keys
    /\ plan' \in [Ops -> Plan \cup {None}]
    /\ prepared' \in [Ops -> Prepared \cup {None}]
    /\ attempts' \in [Ops -> SUBSET Attempt]
    /\ audits' \in [Ops -> SUBSET Attempt]
    /\ \A o \in Ops : IsFiniteSet(attempts'[o])
    /\ req' = [req EXCEPT ![t] = req'[t]]
    /\ req'[t] \in Request
    /\ Grows
    /\ Located(t)'
    /\ req'[t].kind = "prepare" => req[t].kind = "prepare" \/ PrepareSlotFree
    /\ prepared' # prepared => req[t].kind = "prepare"

\* What a thread may assume when it starts a step.
LEMMA Before ==
    ASSUME OpsInv, NEW t \in Appliers
    PROVE  /\ TypeOK /\ Located(t)
           /\ req[t] \in Request
           /\ clock \in Instant
           /\ \A o \in Ops : IsFiniteSet(attempts[o])
           /\ Inventory \subseteq ObjectRecord
<1>1. TypeOK /\ Located(t) /\ \A o \in Ops : IsFiniteSet(attempts[o])
  BY DEF OpsInv
<1>2. clock \in Instant /\ req[t] \in Request
  BY <1>1 DEF TypeOK, LeaseTypeOK
<1>3. Inventory \subseteq ObjectRecord
  BY <1>1 DEF TypeOK, Inventory
<1> QED
  BY <1>1, <1>2, <1>3

LEMMA PlanningTyped ==
    ASSUME OpsInv, NEW t \in Appliers,
           (\E o \in Ops : PlanInventory(t, o)) \/ PlanLease(t) \/ PlanEvaluate(t) \/ Abort(t)
    PROVE  WellTyped(t)
<1>0. /\ TypeOK /\ Located(t) /\ req[t] \in Request /\ clock \in Instant
      /\ \A o \in Ops : IsFiniteSet(attempts[o])
      /\ Inventory \subseteq ObjectRecord
      /\ pc \in [Appliers -> Points]
  BY Before DEF TypeOK
<1> USE <1>0, NoRequestType DEF WellTyped, Grows, TypeOK, Goto, Return, Located,
            storeVars, evidenceVars
<1>1. CASE \E o \in Ops : PlanInventory(t, o)
  <2>1. PICK o \in Ops : PlanInventory(t, o)
    BY <1>1
  <2>2. req'[t] \in Request /\ req'[t].kind = "plan" /\ req'[t].op = o
    BY <2>1 DEF PlanInventory, Request
  <2>3. pc'[t] = "plan_lease"
    BY <2>1 DEF PlanInventory
  <2> QED
    BY <2>1, <2>2, <2>3 DEF PlanInventory, Critical, Writing
<1>2. CASE PlanLease(t)
  BY <1>2 DEF PlanLease, Request, Critical, Writing, LeaseTypeOK
<1>3. CASE PlanEvaluate(t)
  <2> DEFINE new == [evaluated_at |-> req[t].evaluated_at, records |-> req[t].view]
  <2>1. req[t].op \in Ops
    BY <1>3 DEF PlanEvaluate
  <2>2. new \in Plan /\ new # None
    BY AbsentAssumption DEF Plan, Request
  <2>3. plan' = plan \/ plan' = [plan EXCEPT ![req[t].op] = new]
    BY <1>3 DEF PlanEvaluate
  <2> HIDE DEF new
  <2> QED
    BY <1>3, <2>1, <2>2, <2>3 DEF PlanEvaluate, Critical, Writing, NoRequest
<1>4. CASE Abort(t)
  BY <1>4 DEF Abort, Critical, Writing, NoRequest
<1> QED
  BY <1>1, <1>2, <1>3, <1>4

\* A request that is over leaves nothing behind.
LEMMA ReturnTyped ==
    ASSUME NEW t \in Appliers, pc \in [Appliers -> Points], req \in [Appliers -> Request],
           Return(t)
    PROVE  /\ req' = [req EXCEPT ![t] = req'[t]]
           /\ req'[t] \in Request
           /\ req'[t].kind = "none"
           /\ Located(t)'
<1>1. pc'[t] = "idle" /\ req' = [req EXCEPT ![t] = NoRequest] /\ req'[t] = NoRequest
  BY DEF Return, Goto
<1> QED
  BY <1>1, NoRequestType DEF NoRequest, Located, Critical, Writing

LEMMA OneMoreIsFinite ==
    ASSUME NEW S, NEW x, IsFiniteSet(S)
    PROVE  IsFiniteSet(S \cup {x})
  BY FS_AddElement

\* An attempt is numbered within the listing's bound.
LEMMA RecordingTyped ==
    ASSUME OpsInv, NEW t \in Appliers,
           RecordList(t) \/ RecordCreate(t) \/ RecordAudit(t)
    PROVE  WellTyped(t)
<1>0. /\ TypeOK /\ Located(t) /\ req[t] \in Request /\ clock \in Instant
      /\ \A o \in Ops : IsFiniteSet(attempts[o])
      /\ pc \in [Appliers -> Points]
  BY Before DEF TypeOK
<1> USE <1>0, NoRequestType DEF WellTyped, Grows, TypeOK, Goto, Return, Located,
            storeVars, evidenceVars
<1>1. CASE RecordList(t)
  <2> DEFINE seq == Cardinality(attempts[req[t].op]) + 1
  <2>1. req[t].op \in Ops /\ req[t].kind \in {"prepare", "apply"} /\ prepared[req[t].op] # None
    BY <1>1 DEF RecordList, Writing
  <2>2. seq \in Nat
    BY <2>1, FS_CardinalityType
  <2>3. CASE ~AttemptFits(seq)
    <3> HIDE DEF seq
    <3>1. /\ Return(t)
          /\ UNCHANGED <<store, writes, inflight, plan, prepared, attempts, audits>>
      BY <1>1, <2>3 DEF RecordList, seq
    <3>2. /\ req' = [req EXCEPT ![t] = req'[t]] /\ req'[t] \in Request
          /\ req'[t].kind = "none" /\ Located(t)'
      BY <3>1, ReturnTyped
    <3> QED
      BY <3>1, <3>2
  <2>4. CASE AttemptFits(seq)
    <3> HIDE DEF seq
    <3>1. seq \in 0..MaxAttempts
      BY <2>2, <2>4, OperationsAssumption DEF AttemptFits
    <3>2. /\ pc' = [pc EXCEPT ![t] = "create"]
          /\ req' = [req EXCEPT ![t] = [req[t] EXCEPT
                !.draft.seq = seq,
                !.draft.occurred_at = IF req[t].kind = "prepare" THEN clock ELSE @]]
          /\ UNCHANGED <<store, writes, inflight, plan, prepared, attempts, audits>>
      BY <1>1, <2>4 DEF RecordList, seq
    <3>3. /\ req'[t] \in Request
          /\ req'[t].kind = req[t].kind /\ req'[t].op = req[t].op
      BY <3>1, <3>2 DEF Request, Attempt
    <3> QED
      BY <2>1, <3>2, <3>3 DEF Critical, Writing
  <2> QED
    BY <2>3, <2>4
<1>2. CASE RecordCreate(t)
  <2>1. /\ req[t].op \in Ops /\ req[t].kind \in {"prepare", "apply"}
        /\ prepared[req[t].op] # None /\ req[t].draft \in Attempt
    BY <1>2 DEF RecordCreate, Writing, Request
  <2>2. \A o \in Ops : IsFiniteSet(attempts'[o])
    <3>1. IsFiniteSet(attempts[req[t].op])
      BY <2>1
    <3>2. IsFiniteSet(attempts[req[t].op] \cup {req[t].draft})
      BY <3>1, OneMoreIsFinite
    <3> QED
      BY <1>2, <2>1, <3>2 DEF RecordCreate
  <2>3. attempts' \in [Ops -> SUBSET Attempt]
    BY <1>2, <2>1 DEF RecordCreate
  <2> QED
    BY <1>2, <2>1, <2>2, <2>3 DEF RecordCreate, Critical, Writing
<1>3. CASE RecordAudit(t)
  <2>1. /\ req[t].op \in Ops /\ req[t].kind \in {"prepare", "apply"}
        /\ prepared[req[t].op] # None /\ req[t].draft \in Attempt
    BY <1>3 DEF RecordAudit, Writing, Request
  <2>2. audits' \in [Ops -> SUBSET Attempt]
    BY <1>3, <2>1 DEF RecordAudit
  <2>3. UNCHANGED <<store, writes, inflight, plan, prepared, attempts>>
    BY <1>3 DEF RecordAudit
  <2>4. CASE req[t].kind = "apply" /\ req[t].draft.state = "prepared"
    <3>1. pc'[t] \in {"read", "early"} /\ req' = req
      BY <1>3, <2>4 DEF RecordAudit
    <3> QED
      BY <2>1, <2>2, <2>3, <2>4, <3>1 DEF Critical, Writing
  <2>5. CASE ~(req[t].kind = "apply" /\ req[t].draft.state = "prepared")
    <3>1. Return(t)
      BY <1>3, <2>5 DEF RecordAudit
    <3>2. /\ req' = [req EXCEPT ![t] = req'[t]] /\ req'[t] \in Request
          /\ req'[t].kind = "none" /\ Located(t)'
      BY <3>1, ReturnTyped
    <3> QED
      BY <2>2, <2>3, <3>2
  <2> QED
    BY <2>4, <2>5
<1> QED
  BY <1>1, <1>2, <1>3

\* A drafted attempt of a tombstone's records is an attempt.
LEMMA DraftType ==
    ASSUME NEW state \in States, NEW deleted \in SUBSET ObjectRecord, NEW at \in Instant
    PROVE  Draft(state, deleted, at) \in Attempt
<1>1. 0 \in 0..MaxAttempts
  BY OperationsAssumption
<1> QED
  BY <1>1 DEF Draft, Attempt

\* Starting to record keeps the request and its tombstone.
LEMMA RecordTyped ==
    ASSUME NEW t \in Appliers, NEW locals \in Request, NEW draft \in Attempt,
           pc \in [Appliers -> Points], req \in [Appliers -> Request],
           Record(t, locals, draft)
    PROVE  /\ pc'[t] = "list"
           /\ req' = [req EXCEPT ![t] = req'[t]]
           /\ req'[t] \in Request
           /\ req'[t].kind = locals.kind
           /\ req'[t].op = locals.op
  BY DEF Record, Goto, Request

LEMMA PreparingTyped ==
    ASSUME OpsInv, NEW t \in Appliers,
           (\E o \in Ops : PrepareStart(t, o)) \/ PrepareFind(t) \/ PrepareTombstone(t)
    PROVE  WellTyped(t)
<1>0. /\ TypeOK /\ Located(t) /\ req[t] \in Request /\ clock \in Instant
      /\ \A o \in Ops : IsFiniteSet(attempts[o])
      /\ pc \in [Appliers -> Points]
  BY Before DEF TypeOK
<1>d. Draft("prepared", {}, 0) \in Attempt
  BY DraftType, LeaseAssumption DEF States, Instant
<1> USE <1>0, NoRequestType DEF WellTyped, Grows, TypeOK, Goto, Return, Located,
            storeVars, evidenceVars
<1>1. CASE \E o \in Ops : PrepareStart(t, o)
  <2>1. PICK o \in Ops : PrepareStart(t, o)
    BY <1>1
  <2>2. req'[t] \in Request /\ req'[t].kind = "prepare" /\ req'[t].op = o
    BY <2>1 DEF PrepareStart, Request
  <2> QED
    BY <2>1, <2>2 DEF PrepareStart, Critical, Writing
<1>2. CASE PrepareFind(t)
  <2>1. req[t].op \in Ops /\ req[t].kind = "prepare" /\ plan[req[t].op] # None
    BY <1>2 DEF PrepareFind
  <2>2. audits' \in [Ops -> SUBSET Attempt]
    BY <1>2, <2>1 DEF PrepareFind
  <2>3. CASE prepared[req[t].op] = None
    BY <1>2, <2>1, <2>2, <2>3 DEF PrepareFind, Critical, Writing
  <2>4. CASE /\ prepared[req[t].op] # None /\ attempts[req[t].op] = {}
             /\ TombstoneReads(req[t].op)
    <3>1. Record(t, req[t], Draft("prepared", {}, 0))
      BY <1>2, <2>4 DEF PrepareFind
    <3>2. /\ pc'[t] = "list" /\ req' = [req EXCEPT ![t] = req'[t]] /\ req'[t] \in Request
          /\ req'[t].kind = req[t].kind /\ req'[t].op = req[t].op
      BY <1>d, <3>1, RecordTyped
    <3> QED
      BY <1>2, <2>1, <2>2, <2>4, <3>2 DEF PrepareFind, Critical, Writing
  <2>5. CASE /\ prepared[req[t].op] # None
             /\ attempts[req[t].op] # {} \/ ~TombstoneReads(req[t].op)
    BY <1>2, <2>1, <2>2, <2>5 DEF PrepareFind, Critical, Writing, NoRequest
  <2> QED
    BY <2>3, <2>4, <2>5
<1>3. CASE PrepareTombstone(t)
  <2>1. /\ req[t].op \in Ops /\ req[t].kind = "prepare" /\ plan[req[t].op] # None
        /\ prepared[req[t].op] = None
    BY <1>3 DEF PrepareTombstone
  <2> DEFINE new == [evaluated_at |-> plan[req[t].op].evaluated_at,
                     prepared_at |-> clock, records |-> plan[req[t].op].records]
  <2>2. new \in Prepared /\ new # None
    <3>1. plan[req[t].op] \in Plan
      BY <2>1
    <3> QED
      BY <3>1, AbsentAssumption DEF Prepared, Plan
  <2>3. prepared' = [prepared EXCEPT ![req[t].op] = new]
    BY <1>3 DEF PrepareTombstone
  <2>4. /\ pc'[t] = "list" /\ req' = [req EXCEPT ![t] = req'[t]] /\ req'[t] \in Request
        /\ req'[t].kind = req[t].kind /\ req'[t].op = req[t].op
    BY <1>3, <1>d, RecordTyped DEF PrepareTombstone
  <2>5. UNCHANGED <<store, writes, inflight, plan, attempts, audits>>
    BY <1>3 DEF PrepareTombstone
  <2> HIDE DEF new
  <2> QED
    BY <2>1, <2>2, <2>3, <2>4, <2>5 DEF Critical, Writing
<1> QED
  BY <1>1, <1>2, <1>3

\* A history that is not empty has a latest attempt: numbers are bounded.
LEMMA LatestExists ==
    ASSUME NEW A \in SUBSET Attempt, A # {}
    PROVE  Latest(A) \in A /\ \A b \in A : b.seq <= Latest(A).seq
<1> DEFINE T == {MaxAttempts - a.seq : a \in A}
<1>1. \A a \in A : a.seq \in Nat /\ a.seq <= MaxAttempts
  BY OperationsAssumption DEF Attempt
<1>2. T \subseteq Nat /\ T # {}
  BY <1>1, OperationsAssumption
<1>3. \E x \in T : \A y \in T : ~(<<y, x>> \in OpToRel(<, Nat))
  <2> HIDE DEF T
  <2> QED
    BY <1>2, NatLessThanWellFounded, WFMin
<1>4. PICK x \in T : \A y \in T : ~(y < x)
  BY <1>2, <1>3 DEF OpToRel
<1>5. PICK a \in A : x = MaxAttempts - a.seq
  OBVIOUS
<1>6. \A b \in A : b.seq <= a.seq
  <2> SUFFICES ASSUME NEW b \in A PROVE b.seq <= a.seq
    OBVIOUS
  <2>1. MaxAttempts - b.seq \in T
    OBVIOUS
  <2>2. ~(MaxAttempts - b.seq < MaxAttempts - a.seq)
    BY <1>4, <1>5, <2>1
  <2> QED
    BY <1>1, <2>2, OperationsAssumption
<1> QED
  BY <1>5, <1>6 DEF Latest

\* The tombstone of an apply is well formed, and so is what it has left.
LEMMA TombstoneType ==
    ASSUME TypeOK, NEW t \in Appliers, req[t].op \in Ops, prepared[req[t].op] # None
    PROVE  /\ prepared[req[t].op].prepared_at \in Instant
           /\ prepared[req[t].op].records \in SUBSET ObjectRecord
           /\ Left(t) \in SUBSET ObjectRecord
           /\ Reconstructed(req[t].op) \in Attempt
<1>1. prepared[req[t].op] \in Prepared
  BY DEF TypeOK
<1>2. /\ prepared[req[t].op].prepared_at \in Instant
      /\ prepared[req[t].op].records \in SUBSET ObjectRecord
  BY <1>1 DEF Prepared
<1>3. Reconstructed(req[t].op) \in Attempt
  BY <1>2, DraftType DEF Reconstructed, States
<1> QED
  BY <1>2, <1>3 DEF Left, ManifestOf

LEMMA ApplyingTyped ==
    ASSUME OpsInv, NEW t \in Appliers,
           \/ \E o \in Ops : ApplyStart(t, o)
           \/ ApplyEarly(t) \/ ApplyEnter(t) \/ ApplyRead(t) \/ ApplyRepair(t)
    PROVE  WellTyped(t)
<1>0. /\ TypeOK /\ Located(t) /\ req[t] \in Request /\ clock \in Instant
      /\ \A o \in Ops : IsFiniteSet(attempts[o])
      /\ pc \in [Appliers -> Points]
  BY Before DEF TypeOK
<1>a. ASSUME req[t].op \in Ops, req[t].kind = "apply", prepared[req[t].op] # None,
             UNCHANGED <<store, writes, inflight, plan, prepared, attempts>>,
             audits' \in [Ops -> SUBSET Attempt],
             NEW draft \in Attempt, Record(t, req[t], draft)
      PROVE  WellTyped(t)
  <2>1. /\ pc'[t] = "list" /\ req' = [req EXCEPT ![t] = req'[t]] /\ req'[t] \in Request
        /\ req'[t].kind = req[t].kind /\ req'[t].op = req[t].op
    BY <1>0, <1>a, RecordTyped DEF TypeOK
  <2> QED
    BY <1>0, <1>a, <2>1 DEF WellTyped, Grows, TypeOK, Located, Critical, Writing
<1>b. ASSUME UNCHANGED <<store, writes, inflight, plan, prepared, attempts>>,
             audits' \in [Ops -> SUBSET Attempt], Return(t)
      PROVE  WellTyped(t)
  <2>1. /\ req' = [req EXCEPT ![t] = req'[t]] /\ req'[t] \in Request
        /\ req'[t].kind = "none" /\ Located(t)'
    BY <1>0, <1>b, ReturnTyped DEF TypeOK
  <2> QED
    BY <1>0, <1>b, <2>1 DEF WellTyped, Grows, TypeOK
<1>1. CASE \E o \in Ops : ApplyStart(t, o)
  <2>1. PICK o \in Ops : ApplyStart(t, o)
    BY <1>1
  <2>2. req'[t] \in Request /\ req'[t].kind = "apply" /\ req'[t].op = o
    BY <1>0, <2>1, NoRequestType DEF ApplyStart, Request, Goto, TypeOK
  <2>3. pc'[t] \in {"early", "enter"}
    BY <1>0, <2>1 DEF ApplyStart, Goto
  <2> QED
    BY <1>0, <2>1, <2>2, <2>3
    DEF ApplyStart, WellTyped, Grows, TypeOK, Goto, Located, storeVars, evidenceVars,
        Critical, Writing
<1>2. CASE ApplyEarly(t)
  <2>1. /\ req[t].op \in Ops /\ req[t].kind = "apply" /\ prepared[req[t].op] # None
        /\ UNCHANGED <<store, writes, inflight, plan, prepared, attempts>>
    BY <1>0, <1>2 DEF ApplyEarly, Located, storeVars
  <2>2. audits' \in [Ops -> SUBSET Attempt]
    BY <1>0, <1>2, <2>1 DEF ApplyEarly, TypeOK
  <2>3. Reconstructed(req[t].op) \in Attempt
    BY <1>0, <2>1, TombstoneType
  <2>4. Draft("not_ready", {}, req[t].at) \in Attempt
    BY <1>0, DraftType DEF States, Request
  <2>5. \/ Record(t, req[t], Reconstructed(req[t].op))
        \/ Return(t)
        \/ Record(t, req[t], Draft("not_ready", {}, req[t].at))
    BY <1>2 DEF ApplyEarly
  <2> QED
    BY <1>a, <1>b, <2>1, <2>2, <2>3, <2>4, <2>5
<1>3. CASE ApplyEnter(t)
  BY <1>0, <1>3
  DEF ApplyEnter, WellTyped, Grows, TypeOK, Goto, Located, storeVars, evidenceVars,
      Critical, Writing
<1>4. CASE ApplyRead(t)
  <2>1. /\ req[t].op \in Ops /\ req[t].kind = "apply" /\ prepared[req[t].op] # None
        /\ UNCHANGED <<store, writes, inflight, plan, prepared, attempts>>
    BY <1>0, <1>4 DEF ApplyRead, Located, storeVars, Critical
  <2>2. audits' \in [Ops -> SUBSET Attempt]
    BY <1>0, <1>4, <2>1 DEF ApplyRead, TypeOK
  <2>3. Reconstructed(req[t].op) \in Attempt
    BY <1>0, <2>1, TombstoneType
  <2>4. \/ Record(t, req[t], Reconstructed(req[t].op))
        \/ Return(t)
        \/ attempts[req[t].op] # {} /\ Goto(t, "repair", req[t])
    BY <1>4 DEF ApplyRead
  <2>5. CASE attempts[req[t].op] # {} /\ Goto(t, "repair", req[t])
    BY <1>0, <2>1, <2>2, <2>5
    DEF WellTyped, Grows, TypeOK, Goto, Located, Critical, Writing
  <2> QED
    BY <1>a, <1>b, <2>1, <2>2, <2>3, <2>4, <2>5
<1>5. CASE ApplyRepair(t)
  <2> DEFINE gone == Latest(attempts[req[t].op]).deleted
  <2>1. /\ req[t].op \in Ops /\ req[t].kind = "apply" /\ prepared[req[t].op] # None
        /\ attempts[req[t].op] # {}
        /\ UNCHANGED <<store, writes, inflight, plan, prepared, attempts>>
    BY <1>0, <1>5 DEF ApplyRepair, Located, storeVars, Critical
  <2>2. audits' \in [Ops -> SUBSET Attempt]
    BY <1>0, <1>5, <2>1 DEF ApplyRepair, RepairedAudits, TypeOK
  <2>3. gone \in SUBSET ObjectRecord
    <3>1. Latest(attempts[req[t].op]) \in Attempt
      BY <1>0, <2>1, LatestExists DEF TypeOK
    <3> QED
      BY <3>1 DEF Attempt
  <2>4. \/ Return(t)
        \/ \E point \in {"relist_empty", "relist"} : Goto(t, point, [req[t] EXCEPT !.gone = gone])
    BY <1>5 DEF ApplyRepair
  <2>5. CASE \E point \in {"relist_empty", "relist"} : Goto(t, point, [req[t] EXCEPT !.gone = gone])
    <3> HIDE DEF gone
    <3>1. /\ pc'[t] \in {"relist_empty", "relist"}
          /\ req' = [req EXCEPT ![t] = req'[t]] /\ req'[t] \in Request
          /\ req'[t].kind = req[t].kind /\ req'[t].op = req[t].op
      <4>1. PICK point \in {"relist_empty", "relist"} :
                Goto(t, point, [req[t] EXCEPT !.gone = gone])
        BY <2>5
      <4>2. pc \in [Appliers -> Points] /\ req \in [Appliers -> Request]
        BY <1>0 DEF TypeOK
      <4>3. /\ pc'[t] = point /\ req'[t] = [req[t] EXCEPT !.gone = gone]
            /\ req' = [req EXCEPT ![t] = req'[t]]
        BY <4>1, <4>2 DEF Goto
      <4>4. req[t] \in Request
        BY <4>2
      <4>5. [req[t] EXCEPT !.gone = gone] \in Request
        BY <2>3, <4>4 DEF Request
      <4>6. /\ [req[t] EXCEPT !.gone = gone].kind = req[t].kind
            /\ [req[t] EXCEPT !.gone = gone].op = req[t].op
        BY <4>4 DEF Request
      <4> QED
        BY <4>3, <4>5, <4>6
    <3> QED
      BY <1>0, <2>1, <2>2, <3>1 DEF WellTyped, Grows, TypeOK, Located, Critical, Writing
  <2> QED
    BY <1>b, <2>1, <2>2, <2>4, <2>5
<1> QED
  BY <1>1, <1>2, <1>3, <1>4, <1>5

\* Inside the critical section a thread serves an apply of a tombstone.
LEMMA InsideApply ==
    ASSUME OpsInv, NEW t \in Appliers, pc[t] \in Critical
    PROVE  /\ req[t].op \in Ops
           /\ req[t].kind = "apply"
           /\ prepared[req[t].op] # None
           /\ req[t].at \in Instant
           /\ req[t].gone \in SUBSET ObjectRecord
           /\ req[t].batch \in SUBSET ObjectRecord
           /\ Left(t) \in SUBSET ObjectRecord
<1>1. /\ req[t].op \in Ops /\ req[t].kind = "apply" /\ prepared[req[t].op] # None
      /\ TypeOK /\ req[t] \in Request
  BY Before DEF Located, Critical
<1>2. Left(t) \in SUBSET ObjectRecord
  BY <1>1, TombstoneType
<1> QED
  BY <1>1, <1>2 DEF Request

\* An apply goes on inside the critical section or starts to record, having
\* changed at most the leaf.
LEMMA ApplyGoesOn ==
    ASSUME OpsInv, NEW t \in Appliers, pc[t] \in Critical,
           store' \in [Keys -> ObjectRecord \cup {None}], writes' = writes,
           inflight' \subseteq Keys, UNCHANGED evidenceVars,
           NEW locals \in Request, locals.kind = "apply", locals.op = req[t].op,
           \/ \E point \in Critical \ {"repair"} : Goto(t, point, locals)
           \/ \E draft \in Attempt : Record(t, locals, draft)
    PROVE  WellTyped(t)
<1>0. /\ TypeOK /\ \A o \in Ops : IsFiniteSet(attempts[o])
      /\ req[t].op \in Ops /\ prepared[req[t].op] # None
  BY Before, InsideApply
<1>1. /\ pc'[t] \in Critical \ {"repair"} \/ pc'[t] = "list"
      /\ req' = [req EXCEPT ![t] = req'[t]] /\ req'[t] \in Request
      /\ req'[t].kind = "apply" /\ req'[t].op = req[t].op
  <2>1. CASE \E point \in Critical \ {"repair"} : Goto(t, point, locals)
    BY <1>0, <2>1 DEF Goto, TypeOK
  <2>2. CASE \E draft \in Attempt : Record(t, locals, draft)
    BY <1>0, <2>2, RecordTyped DEF TypeOK
  <2> QED
    BY <2>1, <2>2
<1> QED
  BY <1>0, <1>1 DEF WellTyped, Grows, TypeOK, evidenceVars, Located, Critical, Writing

LEMMA RevalidatingTyped ==
    ASSUME OpsInv, NEW t \in Appliers,
           Relist(t) \/ Reevaluate(t) \/ RelistEmpty(t) \/ RevalidationFails(t)
    PROVE  WellTyped(t)
<1>1. /\ pc[t] \in {"relist", "reevaluate", "relist_empty"}
      /\ UNCHANGED <<storeVars, evidenceVars>>
  BY DEF Relist, Reevaluate, RelistEmpty, RevalidationFails
<1>2. pc[t] \in Critical
  BY <1>1 DEF Critical
<1>3. /\ TypeOK /\ req[t] \in Request /\ clock \in Instant /\ 0 \in Instant
      /\ Inventory \subseteq ObjectRecord
  BY Before, LeaseAssumption DEF Instant
<1>4. /\ store' \in [Keys -> ObjectRecord \cup {None}] /\ writes' = writes
      /\ inflight' \subseteq Keys /\ UNCHANGED evidenceVars
  BY <1>1, <1>3 DEF storeVars, TypeOK
<1>5. Draft("refused", req[t].gone, req[t].at) \in Attempt
  BY <1>2, InsideApply, DraftType DEF States
<1>6. \E locals \in Request :
        /\ locals.kind = "apply" /\ locals.op = req[t].op
        /\ \/ \E point \in Critical \ {"repair"} : Goto(t, point, locals)
           \/ \E draft \in Attempt : Record(t, locals, draft)
  <2>1. CASE Refuse(t)
    BY <1>2, <1>3, <1>5, <2>1, InsideApply DEF Refuse
  <2>2. CASE Goto(t, "reevaluate", [req[t] EXCEPT !.view = Inventory, !.evaluated_at = clock])
    <3>1. /\ [req[t] EXCEPT !.view = Inventory, !.evaluated_at = clock] \in Request
          /\ [req[t] EXCEPT !.view = Inventory, !.evaluated_at = clock].kind = req[t].kind
          /\ [req[t] EXCEPT !.view = Inventory, !.evaluated_at = clock].op = req[t].op
      BY <1>3 DEF Request
    <3> QED
      BY <1>2, <2>2, <3>1, InsideApply DEF Critical
  <2>3. CASE Goto(t, "head", [req[t] EXCEPT !.view = {}, !.evaluated_at = 0])
    <3>1. /\ [req[t] EXCEPT !.view = {}, !.evaluated_at = 0] \in Request
          /\ [req[t] EXCEPT !.view = {}, !.evaluated_at = 0].kind = req[t].kind
          /\ [req[t] EXCEPT !.view = {}, !.evaluated_at = 0].op = req[t].op
      BY <1>3 DEF Request
    <3> QED
      BY <1>2, <2>3, <3>1, InsideApply DEF Critical
  <2>4. CASE Goto(t, "postflight", req[t])
    BY <1>2, <1>3, <2>4, InsideApply DEF Critical
  <2> QED
    BY <2>1, <2>2, <2>3, <2>4 DEF Relist, Reevaluate, RelistEmpty, RevalidationFails
<1> QED
  BY <1>2, <1>4, <1>6, ApplyGoesOn

\* A failure is recorded with what is known to be gone.
LEMMA FailureTyped ==
    ASSUME OpsInv, NEW t \in Appliers, pc[t] \in Critical,
           NEW gone \in SUBSET ObjectRecord, RecordFailure(t, gone)
    PROVE  \E locals \in Request :
            /\ locals.kind = "apply" /\ locals.op = req[t].op
            /\ \E draft \in Attempt : Record(t, locals, draft)
<1> DEFINE locals == [req[t] EXCEPT !.gone = gone, !.batch = {}]
           draft == Draft(IF gone = {} THEN "refused" ELSE "partial", gone, req[t].at)
<1>1. locals \in Request /\ locals.kind = "apply" /\ locals.op = req[t].op
  BY Before, InsideApply DEF Request
<1>2. draft \in Attempt
  BY InsideApply, DraftType DEF States
<1>3. Record(t, locals, draft)
  BY DEF RecordFailure
<1> QED
  BY <1>1, <1>2, <1>3

LEMMA RemoveTyped ==
    ASSUME TypeOK, NEW records, Remove(records)
    PROVE  store' \in [Keys -> ObjectRecord \cup {None}]
  BY DEF TypeOK, Remove

LEMMA DeletingTyped ==
    ASSUME OpsInv, NEW t \in Appliers,
           \/ HeadBatch(t) \/ DeleteConfirmed(t) \/ DeletePartial(t) \/ DeleteLost(t)
           \/ Postflight(t) \/ Deadline(t)
    PROVE  WellTyped(t)
<1>1. pc[t] \in {"head", "delete", "postflight"}
  BY DEF HeadBatch, DeleteConfirmed, DeletePartial, DeleteLost, Postflight, Deadline
<1>2. pc[t] \in Critical
  BY <1>1 DEF Critical
<1>3. TypeOK /\ req[t] \in Request
  BY Before
<1>4. /\ req[t].op \in Ops /\ req[t].kind = "apply" /\ req[t].at \in Instant
      /\ req[t].gone \in SUBSET ObjectRecord /\ req[t].batch \in SUBSET ObjectRecord
      /\ Left(t) \in SUBSET ObjectRecord
  BY <1>2, InsideApply
<1>5. /\ store' \in [Keys -> ObjectRecord \cup {None}] /\ writes' = writes
      /\ inflight' \subseteq Keys /\ UNCHANGED evidenceVars
  <2>1. CASE HeadBatch(t) \/ Postflight(t) \/ Deadline(t)
    BY <1>3, <2>1 DEF HeadBatch, Postflight, Deadline, storeVars, TypeOK
  <2>2. CASE DeleteConfirmed(t) \/ DeletePartial(t)
    BY <1>3, <2>2, RemoveTyped DEF DeleteConfirmed, DeletePartial, TypeOK
  <2>3. CASE DeleteLost(t)
    <3>1. \A r \in ObjectRecord : r.key \in Keys
      BY DEF ObjectRecord
    <3>2. PICK done \in SUBSET req[t].batch :
            /\ Remove(done)
            /\ inflight' = IF LateDeletes
                           THEN inflight \cup KeysOf(req[t].batch \ done) ELSE inflight
      BY <2>3 DEF DeleteLost
    <3>3. KeysOf(req[t].batch \ done) \subseteq Keys
      BY <1>4, <3>1 DEF KeysOf
    <3> QED
      BY <1>3, <2>3, <3>2, <3>3, RemoveTyped DEF DeleteLost, TypeOK
  <2> QED
    BY <2>1, <2>2, <2>3
<1>6. \E locals \in Request :
        /\ locals.kind = "apply" /\ locals.op = req[t].op
        /\ \/ \E point \in Critical \ {"repair"} : Goto(t, point, locals)
           \/ \E draft \in Attempt : Record(t, locals, draft)
  <2>1. CASE \E gone \in SUBSET ObjectRecord : RecordFailure(t, gone)
    BY <1>2, <2>1, FailureTyped
  <2>2. CASE Goto(t, "postflight", req[t])
    BY <1>3, <1>4, <2>2 DEF Critical
  <2>3. CASE Goto(t, "delete", [req[t] EXCEPT !.batch = NextBatch(t)])
    <3>1. NextBatch(t) \in SUBSET ObjectRecord
      BY <1>4 DEF NextBatch
    <3>2. /\ [req[t] EXCEPT !.batch = NextBatch(t)] \in Request
          /\ [req[t] EXCEPT !.batch = NextBatch(t)].kind = req[t].kind
          /\ [req[t] EXCEPT !.batch = NextBatch(t)].op = req[t].op
      BY <1>3, <3>1 DEF Request
    <3> QED
      BY <1>4, <2>3, <3>2 DEF Critical
  <2>4. CASE DeleteConfirmed(t)
    <3> DEFINE locals == [req[t] EXCEPT !.gone = @ \cup req[t].batch, !.batch = {}]
    <3>1. locals \in Request /\ locals.kind = req[t].kind /\ locals.op = req[t].op
      BY <1>3, <1>4 DEF Request
    <3>2. Goto(t, "head", locals)
      BY <2>4 DEF DeleteConfirmed
    <3> HIDE DEF locals
    <3> QED
      BY <1>4, <3>1, <3>2 DEF Critical
  <2>5. CASE Record(t, req[t], Draft("completed", req[t].gone, req[t].at))
    BY <1>3, <1>4, <2>5, DraftType DEF States
  <2>6. CASE DeletePartial(t)
    <3>1. PICK done \in SUBSET req[t].batch : RecordFailure(t, req[t].gone \cup done)
      BY <2>6 DEF DeletePartial
    <3>2. req[t].gone \cup done \in SUBSET ObjectRecord
      BY <1>4
    <3> QED
      BY <2>1, <3>1, <3>2
  <2> QED
    BY <1>4, <2>1, <2>2, <2>3, <2>4, <2>5, <2>6
    DEF HeadBatch, DeleteLost, Postflight, Deadline
<1> QED
  BY <1>2, <1>5, <1>6, ApplyGoesOn

LEMMA ThreadTyped ==
    ASSUME OpsInv, NEW t \in Appliers, Start(t) \/ Step(t) \/ Abort(t)
    PROVE  WellTyped(t)
<1>1. CASE Start(t)
  BY <1>1, PlanningTyped, PreparingTyped, ApplyingTyped DEF Start
<1>2. CASE Abort(t)
  BY <1>2, PlanningTyped
<1>3. CASE Step(t)
  BY <1>3, PlanningTyped, RecordingTyped, PreparingTyped, ApplyingTyped,
     RevalidatingTyped, DeletingTyped
  DEF Step
<1> QED
  BY <1>1, <1>2, <1>3

LEMMA OpsInvNext ==
    ASSUME OpsInv, [Next]_vars
    PROVE  OpsInv'
<1>1. LeaseInv' /\ ExclusionInv'
  BY LeaseInvComposed, ExclusionNext DEF OpsInv
<1>2. LeaseTypeOK' /\ pc' \in [Appliers -> Points]
  BY <1>1 DEF LeaseInv, ExclusionInv
<1>3. ASSUME UNCHANGED <<inflight, evidenceVars, threadVars>>, writes' \in 0..MaxWrites,
             store' \in [Keys -> ObjectRecord \cup {None}]
      PROVE  OpsInv'
  BY <1>1, <1>2, <1>3
  DEF OpsInv, TypeOK, Located, OnePrepare, evidenceVars, threadVars
<1>4. CASE LeaseNext /\ UNCHANGED <<storeVars, evidenceVars, threadVars>>
  BY <1>3, <1>4 DEF OpsInv, TypeOK, storeVars
<1>5. ASSUME NEW w \in Writers, NEW k \in Keys, Write(w, k) PROVE OpsInv'
  <2>1. /\ writes \in 0..MaxWrites /\ clock \in Instant
        /\ store \in [Keys -> ObjectRecord \cup {None}]
    BY DEF OpsInv, TypeOK, LeaseTypeOK
  <2>2. writes' \in 1..MaxWrites
    BY <1>5, <2>1, OperationsAssumption DEF Write
  <2>3. [key |-> k, etag |-> writes', last_modified |-> clock] \in ObjectRecord
    BY <2>1, <2>2 DEF ObjectRecord
  <2> QED
    BY <1>3, <1>5, <2>1, <2>2, <2>3 DEF Write
<1>6. ASSUME NEW k \in Keys, LateDelete(k) PROVE OpsInv'
  BY <1>1, <1>2, <1>6
  DEF LateDelete, OpsInv, TypeOK, Located, OnePrepare, evidenceVars, threadVars
<1>7. ASSUME NEW t \in Appliers, Start(t) \/ Step(t) \/ Abort(t) PROVE OpsInv'
  <2>1. WellTyped(t)
    BY <1>7, ThreadTyped
  <2>2. pc' = [pc EXCEPT ![t] = pc'[t]]
    BY <1>7, ThreadDisciplined DEF OpsInv, Disciplined, Moves
  <2>3. TypeOK /\ OnePrepare /\ \A u \in Appliers : Located(u)
    BY DEF OpsInv
  <2>4. TypeOK'
    BY <1>2, <2>1, <2>3 DEF WellTyped, TypeOK
  <2>5. ASSUME NEW u \in Appliers, u # t
        PROVE  req'[u] = req[u] /\ pc'[u] = pc[u]
    BY <2>1, <2>2, <2>3, <2>5 DEF WellTyped, TypeOK
  <2>6. OnePrepare'
    <3>1. ASSUME NEW u \in Appliers, NEW v \in Appliers,
                 req'[u].kind = "prepare", req'[v].kind = "prepare"
          PROVE  u = v
      BY <2>1, <2>3, <2>5, <3>1 DEF WellTyped, OnePrepare, PrepareSlotFree
    <3> QED
      BY <3>1 DEF OnePrepare
  <2>7. ASSUME NEW u \in Appliers PROVE Located(u)'
    <3>1. CASE u = t
      BY <2>1, <3>1 DEF WellTyped
    <3>2. CASE u # t
      <4>1. Located(u) /\ req'[u] = req[u] /\ pc'[u] = pc[u]
        BY <2>3, <2>5, <3>2
      <4>2. pc[u] = "tombstone" => prepared' = prepared
        BY <2>1, <2>3, <3>2, <4>1 DEF WellTyped, Located, OnePrepare
      <4>3. pc[u] # "idle" => req[u].op \in Ops
        BY <4>1 DEF Located
      <4>4. pc[u] # "idle" =>
              /\ plan[req[u].op] # None => plan'[req[u].op] # None
              /\ prepared[req[u].op] # None => prepared'[req[u].op] # None
              /\ attempts[req[u].op] # {} => attempts'[req[u].op] # {}
        <5>1. Grows
          BY <2>1 DEF WellTyped
        <5>2. ASSUME NEW o \in Ops
              PROVE  /\ plan[o] # None => plan'[o] # None
                     /\ prepared[o] # None => prepared'[o] # None
                     /\ attempts[o] # {} => attempts'[o] # {}
          BY <5>1 DEF Grows
        <5> QED
          BY <4>3, <5>2
      <4> QED
        BY <4>1, <4>2, <4>3, <4>4 DEF Located, Critical, Writing
    <3> QED
      BY <3>1, <3>2
  <2> QED
    BY <1>1, <2>1, <2>4, <2>6, <2>7 DEF OpsInv, WellTyped
<1>8. CASE UNCHANGED vars
  BY <1>3, <1>8 DEF vars, storeVars, OpsInv, TypeOK
<1> QED
  BY <1>4, <1>5, <1>6, <1>7, <1>8 DEF Next

LEMMA OpsInvInit == Init => OpsInv
<1> SUFFICES ASSUME Init PROVE OpsInv
  OBVIOUS
<1>1. LeaseInv
  BY LeaseInvInit DEF Init
<1>2. ExclusionInv
  BY DEF Init, ExclusionInv, Inside, Points, Critical, Writing
<1>3. TypeOK
  BY <1>1, <1>2, NoRequestType, OperationsAssumption
  DEF Init, TypeOK, LeaseInv, ExclusionInv
<1>4. \A o \in Ops : IsFiniteSet(attempts[o])
  BY FS_EmptySet DEF Init
<1>5. OnePrepare /\ \A t \in Appliers : Located(t)
  BY DEF Init, OnePrepare, Located, NoRequest, Critical, Writing
<1> QED
  BY <1>1, <1>2, <1>3, <1>4, <1>5 DEF OpsInv

\* Every value the service, its threads and its store hold keeps its type, and
\* attempts are numbered within the listing's bound (operations.py, all of it).
THEOREM OperationsTypeCorrect == Spec => []TypeOK
<1>1. OpsInv => TypeOK
  BY DEF OpsInv
<1>2. OpsInv /\ [Next]_vars => OpsInv'
  BY OpsInvNext
<1> QED
  BY <1>1, <1>2, OpsInvInit, PTL DEF Spec

-----------------------------------------------------------------------------
(* What is removed, when a session's query stops with it and no delete      *)
(* request outlives its timeout.                                            *)

\* One step of a thread removes only what its checked batch names, and a
\* batch is checked against the leaf when it is chosen.
LeafEffect(t) ==
    /\ inflight' = inflight
    /\ store' # store =>
        pc[t] = "delete" /\ \E done \in SUBSET req[t].batch : Remove(done)
    /\ pc'[t] = "delete" =>
        /\ store' = store
        /\ prepared' = prepared
        /\ req'[t].op = req[t].op
        /\ req'[t].batch \subseteq Left(t)
        /\ req'[t].batch \subseteq Inventory

LEMMA ThreadLeafEffect ==
    ASSUME ~LateDeletes, OpsInv, NEW t \in Appliers, Start(t) \/ Step(t) \/ Abort(t)
    PROVE  LeafEffect(t)
<1>0. pc \in [Appliers -> Points] /\ req \in [Appliers -> Request] /\ req[t] \in Request
  BY Before DEF OpsInv, TypeOK
<1>1. ASSUME UNCHANGED storeVars, pc'[t] # "delete" PROVE LeafEffect(t)
  BY <1>1 DEF storeVars, LeafEffect
<1>2. CASE Start(t)
  BY <1>0, <1>1, <1>2 DEF Start, PlanInventory, PrepareStart, ApplyStart, Goto
<1>3. CASE PlanLease(t) \/ PlanEvaluate(t) \/ Abort(t)
  BY <1>0, <1>1, <1>3 DEF PlanLease, PlanEvaluate, Abort, Return, Goto
<1>4. CASE RecordList(t) \/ RecordCreate(t) \/ RecordAudit(t)
  BY <1>0, <1>1, <1>4 DEF RecordList, RecordCreate, RecordAudit, Return, Goto
<1>5. CASE PrepareFind(t) \/ PrepareTombstone(t)
  BY <1>0, <1>1, <1>5 DEF PrepareFind, PrepareTombstone, Record, Return, Goto
<1>6. CASE ApplyEarly(t) \/ ApplyEnter(t) \/ ApplyRead(t) \/ ApplyRepair(t)
  BY <1>0, <1>1, <1>6 DEF ApplyEarly, ApplyEnter, ApplyRead, ApplyRepair, Record, Return, Goto
<1>7. CASE Relist(t) \/ Reevaluate(t) \/ RelistEmpty(t) \/ RevalidationFails(t)
  BY <1>0, <1>1, <1>7
  DEF Relist, Reevaluate, RelistEmpty, RevalidationFails, Refuse, Record, Goto
<1>8. CASE Postflight(t) \/ Deadline(t)
  BY <1>0, <1>1, <1>8 DEF Postflight, Deadline, RecordFailure, Record, Goto
<1>9. CASE HeadBatch(t)
  <2>1. CASE pc'[t] # "delete"
    BY <1>1, <1>9, <2>1 DEF HeadBatch
  <2>2. CASE pc'[t] = "delete"
    <3>1. /\ NextBatch(t) \subseteq Inventory
          /\ req' = [req EXCEPT ![t] = [req[t] EXCEPT !.batch = NextBatch(t)]]
          /\ UNCHANGED <<store, inflight, prepared>>
      BY <1>0, <1>9, <2>2
      DEF HeadBatch, RecordFailure, Record, Goto, storeVars, evidenceVars
    <3>2. req'[t].batch = NextBatch(t) /\ req'[t].op = req[t].op
      BY <1>0, <3>1 DEF Request
    <3>3. NextBatch(t) \subseteq Left(t)
      BY DEF NextBatch
    <3> QED
      BY <3>1, <3>2, <3>3 DEF LeafEffect
  <2> QED
    BY <2>1, <2>2
<1>10. CASE DeleteConfirmed(t) \/ DeletePartial(t) \/ DeleteLost(t)
  <2>1. pc[t] = "delete" /\ pc'[t] # "delete" /\ inflight' = inflight
    BY <1>0, <1>10
    DEF DeleteConfirmed, DeletePartial, DeleteLost, RecordFailure, Record, Goto
  <2>2. \E done \in SUBSET req[t].batch : Remove(done)
    BY <1>10 DEF DeleteConfirmed, DeletePartial, DeleteLost
  <2> QED
    BY <2>1, <2>2 DEF LeafEffect
<1> QED
  BY <1>2, <1>3, <1>4, <1>5, <1>6, <1>7, <1>8, <1>9, <1>10 DEF Step

\* The batch about to be deleted is in the tombstone and still in the leaf.
ReviewedInv ==
    /\ OpsInv
    /\ inflight = {}
    /\ \A k \in Keys : store[k] # None => store[k].key = k
    /\ \A t \in Appliers : pc[t] = "delete" =>
        /\ req[t].batch \subseteq prepared[req[t].op].records
        /\ req[t].batch \subseteq Inventory

LEMMA ReviewedInvNext ==
    ASSUME ~StopMayFail, ~LateDeletes, ReviewedInv, [Next]_vars
    PROVE  ReviewedInv'
<1>0. OpsInv /\ OpsInv' /\ ExclusionInv /\ store \in [Keys -> ObjectRecord \cup {None}]
  BY OpsInvNext DEF ReviewedInv, OpsInv, TypeOK
<1>1. ASSUME UNCHANGED <<storeVars, evidenceVars, threadVars>> PROVE ReviewedInv'
  BY <1>0, <1>1 DEF ReviewedInv, Inventory, storeVars, evidenceVars, threadVars
<1>2. ASSUME NEW w \in Writers, NEW k \in Keys, Write(w, k) PROVE ReviewedInv'
  <2>1. LeaseActive
    BY <1>2 DEF Write, WritesNow
  <2>2. \A t \in Appliers : pc[t] # "delete"
    BY <1>0, <2>1 DEF ExclusionInv, Inside
  <2>3. \A j \in Keys : store'[j] # None => store'[j].key = j
    BY <1>0, <1>2 DEF Write, ReviewedInv
  <2> QED
    BY <1>0, <1>2, <2>2, <2>3 DEF ReviewedInv, Write, threadVars
<1>3. ASSUME NEW k \in Keys, LateDelete(k) PROVE ReviewedInv'
  BY <1>3 DEF LateDelete, ReviewedInv
<1>4. ASSUME NEW t \in Appliers, Start(t) \/ Step(t) \/ Abort(t) PROVE ReviewedInv'
  <2>1. LeafEffect(t) /\ WellTyped(t)
    BY <1>0, <1>4, ThreadLeafEffect, ThreadTyped
  <2>2. pc' = [pc EXCEPT ![t] = pc'[t]]
    BY <1>0, <1>4, ThreadDisciplined DEF Disciplined, Moves
  <2>3. inflight' = {}
    BY <2>1 DEF LeafEffect, ReviewedInv
  <2>4. \A k \in Keys : store'[k] # None => store'[k].key = k
    BY <1>0, <2>1 DEF LeafEffect, ReviewedInv, Remove
  <2>5. ASSUME NEW u \in Appliers, pc'[u] = "delete"
        PROVE  /\ req'[u].batch \subseteq prepared'[req'[u].op].records
               /\ req'[u].batch \subseteq Inventory'
    <3>1. CASE u = t
      BY <2>1, <2>5, <3>1 DEF LeafEffect, Left, ManifestOf, Inventory
    <3>2. CASE u # t
      <4>1. pc[u] = "delete" /\ req'[u] = req[u]
        BY <1>0, <2>1, <2>2, <2>5, <3>2 DEF ExclusionInv, WellTyped, OpsInv, TypeOK
      <4>2. pc[t] # "delete"
        BY <1>0, <3>2, <4>1 DEF ExclusionInv, Inside, Critical
      <4>3. store' = store
        BY <2>1, <4>2 DEF LeafEffect
      <4>4. prepared'[req[u].op] = prepared[req[u].op]
        <5>1. pc[u] \in Critical
          BY <4>1 DEF Critical
        <5>2. req[u].op \in Ops /\ prepared[req[u].op] # None
          BY <1>0, <5>1, InsideApply
        <5> QED
          BY <2>1, <5>2 DEF WellTyped, Grows
      <4> QED
        BY <4>1, <4>3, <4>4 DEF ReviewedInv, Inventory
    <3> QED
      BY <3>1, <3>2
  <2> QED
    BY <1>0, <2>3, <2>4, <2>5 DEF ReviewedInv
<1> QED
  BY <1>1, <1>2, <1>3, <1>4 DEF Next, vars

\* Every removal, whichever step makes it.
LEMMA RemovalStep ==
    ASSUME ~StopMayFail, ~LateDeletes, ReviewedInv, Next, NEW k \in Keys, Removed(k)
    PROVE  /\ ~LeaseActive
           /\ \E t \in Appliers : pc[t] = "delete" /\ store[k] \in prepared[req[t].op].records
<1>0. OpsInv /\ ExclusionInv /\ TypeOK
  BY DEF ReviewedInv, OpsInv
<1>1. ASSUME NEW w \in Writers, NEW j \in Keys, Write(w, j) PROVE FALSE
  <2>1. /\ writes \in 0..MaxWrites /\ clock \in Instant
        /\ store \in [Keys -> ObjectRecord \cup {None}]
    BY <1>0 DEF TypeOK, LeaseTypeOK
  <2>2. writes' \in 1..MaxWrites
    BY <1>1, <2>1, OperationsAssumption DEF Write
  <2>3. [key |-> j, etag |-> writes', last_modified |-> clock] # None
    BY <2>1, <2>2, AbsentAssumption DEF ObjectRecord
  <2> QED
    BY <1>1, <2>1, <2>3 DEF Write, Removed
<1>2. ASSUME NEW j \in Keys, LateDelete(j) PROVE FALSE
  BY <1>2 DEF LateDelete, ReviewedInv
<1>3. PICK t \in Appliers : Start(t) \/ Step(t) \/ Abort(t)
  BY <1>1, <1>2 DEF Next, storeVars, Removed
<1>4. pc[t] = "delete" /\ \E done \in SUBSET req[t].batch : Remove(done)
  BY <1>0, <1>3, ThreadLeafEffect DEF LeafEffect, Removed
<1>5. PICK r \in req[t].batch : r.key = k
  BY <1>4 DEF Remove, KeysOf, Removed
<1>6. r \in Inventory /\ r \in prepared[req[t].op].records
  BY <1>4, <1>5 DEF ReviewedInv
<1>7. r = store[k]
  BY <1>5, <1>6 DEF ReviewedInv, Inventory
<1> QED
  BY <1>0, <1>4, <1>6, <1>7 DEF ExclusionInv, Inside

\* When a session's query stops with it and no delete outlives its timeout,
\* apply removes exactly reviewed versions and never under an active lease,
\* for every number of threads, sessions, operations and objects
\* (operations.py _apply_locked, s3_gateway.py head_record, delete_records).
THEOREM OnlyReviewedRemoved ==
    ASSUME ~StopMayFail, ~LateDeletes
    PROVE  Spec => OnlyReviewedVersionsRemoved
<1>1. Init => ReviewedInv
  BY OpsInvInit DEF Init, ReviewedInv
<1>2. ReviewedInv /\ [Next]_vars => ReviewedInv'
  BY ReviewedInvNext
<1>3. ReviewedInv /\ [Next]_vars =>
        [\A k \in Keys : Removed(k) =>
            /\ ~LeaseActive
            /\ \E t \in Appliers :
                pc[t] = "delete" /\ store[k] \in prepared[req[t].op].records]_vars
  BY RemovalStep
<1> QED
  BY <1>1, <1>2, <1>3, PTL DEF Spec, OnlyReviewedVersionsRemoved

-----------------------------------------------------------------------------
(* What the evidence says is true.                                          *)

\* Object versions some request has seen; a later write never repeats one.
Known(records) == \A r \in records : r.etag <= writes

\* Versions that existed and will never be in the leaf again.
Dead(records) == Known(records) /\ records \cap Inventory = {}

\* What an attempt of o, stored or still to be stored, may say.
Faithful(o, a) ==
    /\ Dead(a.deleted)
    /\ a.deleted \subseteq prepared[o].records
    /\ a.state = "completed" => a.deleted = prepared[o].records

\* The points at which an apply carries what it knows to be gone.
Carrying == Critical \cup Writing \cup {"early", "enter"}

\* What a thread holds is as true as what it will record.
Honest(t) ==
    /\ Known(req[t].view)
    /\ pc[t] \in {"find", "tombstone"} => req[t].gone = {}
    /\ pc[t] \in Carrying =>
        Dead(req[t].gone) /\ req[t].gone \subseteq prepared[req[t].op].records
    /\ pc[t] \in {"relist_empty", "postflight"} =>
        req[t].gone = prepared[req[t].op].records
    /\ pc[t] = "delete" => req[t].batch \subseteq prepared[req[t].op].records
    /\ pc[t] \in Writing =>
        /\ req[t].draft.deleted \subseteq req[t].gone
        /\ req[t].draft.state = "completed" =>
            req[t].draft.deleted = prepared[req[t].op].records

EvidenceInv ==
    /\ OpsInv
    /\ \A k \in Keys : store[k] # None => store[k].key = k /\ store[k].etag <= writes
    /\ \A o \in Ops : plan[o] # None => Known(plan[o].records)
    /\ \A o \in Ops : prepared[o] # None => Known(prepared[o].records)
    /\ \A o \in Ops : \A a \in attempts[o] : prepared[o] # None /\ Faithful(o, a)
    /\ \A t \in Appliers : Honest(t)

\* What one step of thread t may do to the leaf and to the evidence.
Effect(t) ==
    /\ writes' = writes
    /\ \/ store' = store
       \/ pc[t] = "delete" /\ \E done \in SUBSET req[t].batch : Remove(done)
    /\ \A o \in Ops : plan'[o] = plan[o] \/ plan'[o].records = req[t].view
    /\ \A o \in Ops : \/ prepared'[o] = prepared[o]
                      \/ plan[o] # None /\ prepared'[o].records = plan[o].records
    /\ \A o \in Ops : \/ attempts'[o] = attempts[o]
                      \/ /\ pc[t] = "create" /\ o = req[t].op
                         /\ attempts'[o] = attempts[o] \cup {req[t].draft}

LEMMA ThreadEffect ==
    ASSUME OpsInv, NEW t \in Appliers, Start(t) \/ Step(t) \/ Abort(t)
    PROVE  Effect(t)
<1>0. TypeOK /\ Located(t) /\ req[t] \in Request
  BY Before
<1>1. ASSUME UNCHANGED <<storeVars, evidenceVars>> PROVE Effect(t)
  BY <1>1 DEF Effect, storeVars, evidenceVars
<1>2. ASSUME UNCHANGED <<storeVars, plan, prepared, attempts>> PROVE Effect(t)
  BY <1>2 DEF Effect, storeVars
<1>3. CASE Start(t)
  BY <1>1, <1>3 DEF Start, PlanInventory, PrepareStart, ApplyStart
<1>4. CASE PlanLease(t) \/ Abort(t) \/ RecordList(t) \/ ApplyEnter(t)
  BY <1>1, <1>4 DEF PlanLease, Abort, RecordList, ApplyEnter
<1>5. CASE RecordAudit(t) \/ PrepareFind(t) \/ ApplyEarly(t) \/ ApplyRead(t) \/ ApplyRepair(t)
  BY <1>2, <1>5 DEF RecordAudit, PrepareFind, ApplyEarly, ApplyRead, ApplyRepair
<1>6. CASE Relist(t) \/ Reevaluate(t) \/ RelistEmpty(t) \/ RevalidationFails(t)
  BY <1>1, <1>6 DEF Relist, Reevaluate, RelistEmpty, RevalidationFails
<1>7. CASE HeadBatch(t) \/ Postflight(t) \/ Deadline(t)
  BY <1>1, <1>7 DEF HeadBatch, Postflight, Deadline
<1>8. CASE DeleteConfirmed(t) \/ DeletePartial(t) \/ DeleteLost(t)
  <2>1. pc[t] = "delete" /\ writes' = writes /\ UNCHANGED evidenceVars
    BY <1>8 DEF DeleteConfirmed, DeletePartial, DeleteLost
  <2>2. \E done \in SUBSET req[t].batch : Remove(done)
    BY <1>8 DEF DeleteConfirmed, DeletePartial, DeleteLost
  <2> QED
    BY <2>1, <2>2 DEF Effect, evidenceVars
<1>9. CASE PlanEvaluate(t)
  BY <1>0, <1>9 DEF PlanEvaluate, Effect, storeVars, TypeOK
<1>10. CASE RecordCreate(t)
  BY <1>0, <1>10 DEF RecordCreate, Effect, storeVars, TypeOK
<1>11. CASE PrepareTombstone(t)
  BY <1>0, <1>11 DEF PrepareTombstone, Effect, storeVars, TypeOK, Located
<1> QED
  BY <1>3, <1>4, <1>5, <1>6, <1>7, <1>8, <1>9, <1>10, <1>11 DEF Step

\* Whoever moves, a version that is known and gone does not come back.
Lasting ==
    /\ writes \in Nat /\ writes' \in Nat /\ writes <= writes'
    /\ \A r \in ObjectRecord : r.etag <= writes /\ r \notin Inventory => r \notin Inventory'
    /\ \A k \in Keys : store'[k] # None => store'[k].key = k /\ store'[k].etag <= writes'

LEMMA WriteLasting ==
    ASSUME EvidenceInv, NEW w \in Writers, NEW k \in Keys, Write(w, k)
    PROVE  Lasting
<1>1. /\ store \in [Keys -> ObjectRecord \cup {None}] /\ writes \in 0..MaxWrites
      /\ MaxWrites \in Nat
  BY OperationsAssumption DEF EvidenceInv, OpsInv, TypeOK
<1> DEFINE new == [key |-> k, etag |-> writes', last_modified |-> clock]
<1>2. store' = [store EXCEPT ![k] = new] /\ writes' = writes + 1
  BY DEF Write
<1>3. new.key = k /\ new.etag = writes'
  OBVIOUS
<1> HIDE DEF new
<1>4. \A j \in Keys : store'[j] # None => store'[j].key = j /\ store'[j].etag <= writes'
  <2> SUFFICES ASSUME NEW j \in Keys, store'[j] # None
               PROVE  store'[j].key = j /\ store'[j].etag <= writes'
    OBVIOUS
  <2>1. CASE j = k
    BY <1>1, <1>2, <1>3, <2>1
  <2>2. CASE j # k
    <3>1. store'[j] = store[j] /\ store[j] \in ObjectRecord
      BY <1>1, <1>2, <2>2
    <3>2. store[j].key = j /\ store[j].etag <= writes /\ store[j].etag \in Nat
      BY <1>1, <3>1, OperationsAssumption DEF EvidenceInv, ObjectRecord
    <3> QED
      BY <1>1, <1>2, <3>1, <3>2
  <2> QED
    BY <2>1, <2>2
<1>5. ASSUME NEW r \in ObjectRecord, r.etag <= writes, r \notin Inventory
      PROVE  r \notin Inventory'
  <2>1. r.etag \in Nat
    BY <1>1 DEF ObjectRecord
  <2>2. r # new
    BY <1>1, <1>2, <1>3, <1>5, <2>1
  <2> QED
    BY <1>1, <1>2, <1>5, <2>2 DEF Inventory
<1> QED
  BY <1>1, <1>2, <1>4, <1>5 DEF Lasting

LEMMA LateDeleteLasting ==
    ASSUME EvidenceInv, NEW k \in Keys, LateDelete(k)
    PROVE  Lasting
<1>1. store \in [Keys -> ObjectRecord \cup {None}] /\ writes \in 0..MaxWrites
  BY DEF EvidenceInv, OpsInv, TypeOK
<1>2. store' = [store EXCEPT ![k] = None] /\ writes' = writes
  BY DEF LateDelete
<1> QED
  BY <1>1, <1>2, OperationsAssumption DEF Lasting, EvidenceInv, Inventory

LEMMA SameLeafLasting ==
    ASSUME EvidenceInv, store' = store, writes' = writes
    PROVE  Lasting
<1>1. writes \in 0..MaxWrites
  BY DEF EvidenceInv, OpsInv, TypeOK
<1> QED
  BY <1>1, OperationsAssumption DEF Lasting, EvidenceInv, Inventory

LEMMA EffectLasting ==
    ASSUME EvidenceInv, NEW t \in Appliers, Effect(t)
    PROVE  Lasting
<1>1. CASE store' = store
  BY <1>1, SameLeafLasting DEF Effect
<1>2. CASE \E done \in SUBSET req[t].batch : Remove(done)
  <2>1. store \in [Keys -> ObjectRecord \cup {None}] /\ writes \in 0..MaxWrites /\ writes' = writes
    BY DEF EvidenceInv, OpsInv, TypeOK, Effect
  <2>2. \A k \in Keys : store'[k] = None \/ store'[k] = store[k]
    BY <1>2 DEF Remove
  <2> QED
    BY <2>1, <2>2, OperationsAssumption DEF Lasting, EvidenceInv, Inventory
<1> QED
  BY <1>1, <1>2 DEF Effect

\* Removed records are gone: a key holds its own records only.
LEMMA RemovedAreGone ==
    ASSUME EvidenceInv, NEW done \in SUBSET ObjectRecord, Remove(done)
    PROVE  done \cap Inventory' = {}
<1> SUFFICES ASSUME NEW r \in done, r \in Inventory' PROVE FALSE
  OBVIOUS
<1>1. PICK k \in Keys : store'[k] = r /\ r # None
  BY DEF Inventory
<1>2. store'[k] = store[k] /\ k \notin KeysOf(done)
  BY <1>1 DEF Remove
<1>3. r.key = k
  BY <1>1, <1>2 DEF EvidenceInv
<1> QED
  BY <1>2, <1>3 DEF KeysOf

\* The locals a thread of a tombstone's operation may go on with.
Sound(t, locals) ==
    /\ locals \in Request
    /\ locals.op = req[t].op
    /\ \A r \in locals.view : r.etag <= writes'
    /\ \A r \in locals.gone : /\ r.etag <= writes'
                              /\ r \notin Inventory'
                              /\ r \in prepared[req[t].op].records

\* The locals a thread already has are sound.
LEMMA OwnLocalsSound ==
    ASSUME EvidenceInv, Lasting, NEW t \in Appliers, pc[t] \in Carrying
    PROVE  Sound(t, req[t])
<1>1. /\ req[t] \in Request /\ Honest(t) /\ writes \in 0..MaxWrites
  BY Before DEF EvidenceInv, OpsInv, TypeOK
<1>2. req[t].gone \subseteq ObjectRecord /\ req[t].view \subseteq ObjectRecord
  BY <1>1 DEF Request
<1>3. \A r \in ObjectRecord : r.etag \in Nat
  BY OperationsAssumption DEF ObjectRecord
<1>4. writes \in Nat /\ writes' \in Nat /\ writes <= writes'
  BY DEF Lasting
<1>5. \A r \in ObjectRecord : r.etag <= writes => r.etag <= writes'
  BY <1>3, <1>4
<1>6. /\ \A r \in req[t].view : r.etag <= writes
      /\ \A r \in req[t].gone : r.etag <= writes /\ r \notin Inventory
      /\ req[t].gone \subseteq prepared[req[t].op].records
  BY <1>1 DEF Honest, Known, Dead
<1> QED
  BY <1>1, <1>2, <1>3, <1>4, <1>5, <1>6 DEF Sound, Lasting

\* A thread that goes on with sound locals stays honest.
LEMMA GotoHonest ==
    ASSUME NEW t \in Appliers, pc \in [Appliers -> Points], req \in [Appliers -> Request],
           prepared'[req[t].op] = prepared[req[t].op],
           NEW point \in Carrying, NEW locals, Sound(t, locals), Goto(t, point, locals),
           point \in {"relist_empty", "postflight"} =>
                locals.gone = prepared[req[t].op].records,
           point = "delete" => locals.batch \subseteq prepared[req[t].op].records,
           point \in Writing =>
                /\ locals.draft.deleted \subseteq locals.gone
                /\ locals.draft.state = "completed" =>
                    locals.draft.deleted = prepared[req[t].op].records
    PROVE  Honest(t)'
<1>1. pc'[t] = point /\ req'[t] = locals
  BY DEF Goto
<1>2. locals.op = req[t].op /\ prepared'[locals.op] = prepared[req[t].op]
  BY DEF Sound
<1>3. /\ \A r \in locals.view : r.etag <= writes'
      /\ \A r \in locals.gone : r.etag <= writes'
      /\ locals.gone \cap Inventory' = {}
      /\ locals.gone \subseteq prepared[req[t].op].records
  BY DEF Sound
<1>4. point \notin {"find", "tombstone"}
  BY DEF Carrying, Critical, Writing
<1> QED
  BY <1>1, <1>2, <1>3, <1>4 DEF Honest, Known, Dead

\* The same for a thread that starts to record.
LEMMA RecordHonest ==
    ASSUME NEW t \in Appliers, pc \in [Appliers -> Points], req \in [Appliers -> Request],
           prepared'[req[t].op] = prepared[req[t].op],
           NEW locals, Sound(t, locals), NEW draft \in Attempt, Record(t, locals, draft),
           draft.deleted \subseteq locals.gone,
           draft.state = "completed" => draft.deleted = prepared[req[t].op].records
    PROVE  Honest(t)'
<1> DEFINE new == [locals EXCEPT !.draft = draft]
<1>1. /\ new \in Request /\ new.op = locals.op /\ new.view = locals.view
      /\ new.gone = locals.gone /\ new.draft = draft
  BY DEF Sound, Request
<1>2. Sound(t, new)
  BY <1>1 DEF Sound
<1>3. Goto(t, "list", new)
  BY DEF Record
<1>4. "list" \in Carrying
  BY DEF Carrying, Writing
<1> HIDE DEF new
<1> QED
  BY <1>1, <1>2, <1>3, <1>4, GotoHonest

LEMMA ReturnHonest ==
    ASSUME NEW t \in Appliers, pc \in [Appliers -> Points], req \in [Appliers -> Request],
           Return(t)
    PROVE  Honest(t)'
<1>1. pc'[t] = "idle" /\ req'[t].view = {}
  BY DEF Return, Goto, NoRequest
<1> QED
  BY <1>1 DEF Honest, Known, Carrying, Critical, Writing

LEMMA StartHonest ==
    ASSUME EvidenceInv, NEW t \in Appliers,
           Start(t) \/ PlanLease(t) \/ PlanEvaluate(t) \/ Abort(t)
    PROVE  Honest(t)'
<1>0. /\ pc \in [Appliers -> Points] /\ req \in [Appliers -> Request] /\ req[t] \in Request
      /\ NoRequest \in Request
  BY Before, NoRequestType DEF EvidenceInv, OpsInv, TypeOK
<1>1. CASE PlanEvaluate(t) \/ Abort(t)
  BY <1>0, <1>1, ReturnHonest DEF PlanEvaluate, Abort
<1>2. CASE PlanLease(t)
  <2>1. pc'[t] = "plan_terminal" /\ req'[t].view = req[t].view /\ writes' = writes
    BY <1>0, <1>2 DEF PlanLease, Goto, Request, storeVars
  <2> QED
    BY <2>1 DEF EvidenceInv, Honest, Known, Carrying, Critical, Writing
<1>3. ASSUME NEW o \in Ops, PlanInventory(t, o) PROVE Honest(t)'
  <2>1. pc'[t] = "plan_lease" /\ req'[t].view = Inventory /\ writes' = writes
    BY <1>0, <1>3 DEF PlanInventory, Goto, storeVars, NoRequest
  <2>2. \A r \in Inventory : r.etag <= writes
    BY DEF EvidenceInv, Inventory
  <2> QED
    BY <2>1, <2>2 DEF Honest, Known, Carrying, Critical, Writing
<1>4. ASSUME NEW o \in Ops, PrepareStart(t, o) PROVE Honest(t)'
  <2>1. pc'[t] = "find" /\ req'[t].view = {} /\ req'[t].gone = {}
    BY <1>0, <1>4 DEF PrepareStart, Goto, NoRequest
  <2> QED
    BY <2>1 DEF Honest, Known, Carrying, Critical, Writing
<1>5. ASSUME NEW o \in Ops, ApplyStart(t, o) PROVE Honest(t)'
  <2>1. pc'[t] \in {"enter", "early"} /\ req'[t].view = {} /\ req'[t].gone = {}
    BY <1>0, <1>5 DEF ApplyStart, Goto, NoRequest
  <2> QED
    BY <2>1 DEF Honest, Known, Dead, Critical, Writing
<1> QED
  BY <1>1, <1>2, <1>3, <1>4, <1>5 DEF Start

LEMMA RecordingHonest ==
    ASSUME EvidenceInv, Lasting, NEW t \in Appliers,
           RecordList(t) \/ RecordCreate(t) \/ RecordAudit(t)
    PROVE  Honest(t)'
<1>0. /\ pc \in [Appliers -> Points] /\ req \in [Appliers -> Request] /\ req[t] \in Request
      /\ Honest(t)
  BY Before DEF EvidenceInv, OpsInv, TypeOK
<1>1. pc[t] \in Writing /\ pc[t] \in Carrying /\ prepared' = prepared
  BY DEF RecordList, RecordCreate, RecordAudit, Writing, Carrying, evidenceVars
<1>2. Sound(t, req[t])
  BY <1>1, OwnLocalsSound
<1>3. /\ req[t].draft.deleted \subseteq req[t].gone
      /\ req[t].draft.state = "completed" =>
            req[t].draft.deleted = prepared[req[t].op].records
  BY <1>0, <1>1 DEF Honest
<1>4. CASE Return(t)
  BY <1>0, <1>4, ReturnHonest
<1>5. CASE \E point \in {"audit", "read", "early"} : Goto(t, point, req[t])
  <2>1. PICK point \in {"audit", "read", "early"} : Goto(t, point, req[t])
    BY <1>5
  <2>2. point \in Carrying
    BY DEF Carrying, Writing, Critical
  <2> QED
    BY <1>0, <1>1, <1>2, <1>3, <2>1, <2>2, GotoHonest
<1>6. CASE RecordList(t) /\ ~Return(t)
  <2> DEFINE seq == Cardinality(attempts[req[t].op]) + 1
             new == [req[t] EXCEPT
                !.draft.seq = seq,
                !.draft.occurred_at = IF req[t].kind = "prepare" THEN clock ELSE @]
  <2>1. Goto(t, "create", new)
    BY <1>6 DEF RecordList
  <2>2. /\ new.op = req[t].op /\ new.view = req[t].view /\ new.gone = req[t].gone
        /\ new.draft.deleted = req[t].draft.deleted /\ new.draft.state = req[t].draft.state
    BY <1>0 DEF Request, Attempt
  <2>3. new \in Request
    <3>1. WellTyped(t)
      BY <1>6, RecordingTyped DEF EvidenceInv
    <3>2. req'[t] = new
      BY <1>0, <2>1 DEF Goto
    <3> QED
      BY <3>1, <3>2 DEF WellTyped
  <2>4. Sound(t, new)
    BY <1>2, <2>2, <2>3 DEF Sound
  <2>5. "create" \in Carrying
    BY DEF Carrying, Writing
  <2> HIDE DEF new
  <2> QED
    BY <1>0, <1>1, <1>3, <2>1, <2>2, <2>4, <2>5, GotoHonest
<1> QED
  BY <1>4, <1>5, <1>6 DEF RecordCreate, RecordAudit

LEMMA PreparingHonest ==
    ASSUME EvidenceInv, Lasting, NEW t \in Appliers, PrepareFind(t) \/ PrepareTombstone(t)
    PROVE  Honest(t)'
<1>0. /\ pc \in [Appliers -> Points] /\ req \in [Appliers -> Request] /\ req[t] \in Request
      /\ Honest(t)
  BY Before DEF EvidenceInv, OpsInv, TypeOK
<1>1. req[t].gone = {} /\ \A r \in req[t].view : r.etag <= writes
  BY <1>0 DEF PrepareFind, PrepareTombstone, Honest, Known
<1>2. writes' = writes
  BY DEF PrepareFind, PrepareTombstone, storeVars
<1>3. CASE Return(t)
  BY <1>0, <1>3, ReturnHonest
<1>4. CASE Goto(t, "tombstone", req[t])
  <2>1. pc'[t] = "tombstone" /\ req'[t] = req[t]
    BY <1>0, <1>4 DEF Goto
  <2> QED
    BY <1>1, <1>2, <2>1 DEF Honest, Known, Carrying, Critical, Writing
<1>5. CASE Record(t, req[t], Draft("prepared", {}, 0))
  <2>1. /\ pc'[t] = "list" /\ req'[t].view = req[t].view /\ req'[t].gone = {}
        /\ req'[t].draft = Draft("prepared", {}, 0)
    BY <1>0, <1>1, <1>5 DEF Record, Goto, Request
  <2>2. req'[t].draft.deleted = {} /\ req'[t].draft.state = "prepared"
    BY <2>1 DEF Draft
  <2> QED
    BY <1>1, <1>2, <2>1, <2>2 DEF Honest, Known, Dead, Writing
<1> QED
  BY <1>3, <1>4, <1>5 DEF PrepareFind, PrepareTombstone

LEMMA ApplyingHonest ==
    ASSUME EvidenceInv, Lasting, NEW t \in Appliers,
           ApplyEarly(t) \/ ApplyEnter(t) \/ ApplyRead(t) \/ ApplyRepair(t)
    PROVE  Honest(t)'
<1>0. /\ pc \in [Appliers -> Points] /\ req \in [Appliers -> Request] /\ req[t] \in Request
      /\ TypeOK /\ Located(t)
  BY Before DEF EvidenceInv, OpsInv, TypeOK
<1>1. pc[t] \in Carrying /\ prepared' = prepared /\ writes' = writes
  BY DEF ApplyEarly, ApplyEnter, ApplyRead, ApplyRepair, Critical, Carrying, evidenceVars, storeVars
<1>2. req[t].op \in Ops /\ prepared[req[t].op] # None /\ req[t].at \in Instant
  BY <1>0 DEF Located, Critical, ApplyEarly, ApplyEnter, ApplyRead, ApplyRepair, Request
<1>3. Sound(t, req[t])
  BY <1>1, OwnLocalsSound
<1>4. CASE Return(t)
  BY <1>0, <1>4, ReturnHonest
<1>5. CASE Record(t, req[t], Reconstructed(req[t].op))
  <2>1. /\ Reconstructed(req[t].op) \in Attempt
        /\ Reconstructed(req[t].op).deleted = {} /\ Reconstructed(req[t].op).state = "prepared"
    BY <1>0, <1>2, TombstoneType DEF Reconstructed, Draft
  <2> QED
    BY <1>0, <1>1, <1>3, <1>5, <2>1, RecordHonest
<1>6. CASE Record(t, req[t], Draft("not_ready", {}, req[t].at))
  <2>1. Draft("not_ready", {}, req[t].at) \in Attempt
    BY <1>2, DraftType DEF States
  <2>2. /\ Draft("not_ready", {}, req[t].at).deleted = {}
        /\ Draft("not_ready", {}, req[t].at).state = "not_ready"
    BY DEF Draft
  <2> QED
    BY <1>0, <1>1, <1>3, <1>6, <2>1, <2>2, RecordHonest
<1>7. CASE \E point \in {"read", "repair"} : Goto(t, point, req[t])
  <2>1. PICK point \in {"read", "repair"} : Goto(t, point, req[t])
    BY <1>7
  <2>2. point \in Carrying /\ point \notin Writing
    BY DEF Carrying, Critical, Writing
  <2> QED
    BY <1>0, <1>1, <1>3, <2>1, <2>2, GotoHonest
<1>8. CASE ApplyRepair(t) /\ ~Return(t)
  <2> DEFINE last == Latest(attempts[req[t].op])
             point == IF last.deleted = prepared[req[t].op].records
                      THEN "relist_empty" ELSE "relist"
             new == [req[t] EXCEPT !.gone = last.deleted]
  <2>1. Goto(t, point, new)
    BY <1>8 DEF ApplyRepair, ManifestOf
  <2>2. last \in attempts[req[t].op]
    <3>1. attempts[req[t].op] # {} /\ attempts[req[t].op] \in SUBSET Attempt
      BY <1>0, <1>2, <1>8 DEF ApplyRepair, Located, TypeOK
    <3> QED
      BY <3>1, LatestExists
  <2>3. Faithful(req[t].op, last) /\ last.deleted \in SUBSET ObjectRecord
    BY <1>0, <1>2, <2>2 DEF EvidenceInv, TypeOK, Attempt
  <2> HIDE DEF last
  <2>4. /\ new \in Request /\ new.op = req[t].op /\ new.view = req[t].view
        /\ new.gone = last.deleted
    BY <1>0, <2>3 DEF Request
  <2>5. Sound(t, new)
    BY <1>1, <1>3, <2>3, <2>4 DEF Sound, Faithful, Dead, Known, Lasting
  <2>6. /\ point \in Carrying /\ point \notin Writing /\ point # "delete" /\ point # "postflight"
        /\ point = "relist_empty" => new.gone = prepared[req[t].op].records
    BY <2>4 DEF Carrying, Critical, Writing
  <2> HIDE DEF new, point
  <2> QED
    BY <1>0, <1>1, <2>1, <2>5, <2>6, GotoHonest
<1> QED
  BY <1>4, <1>5, <1>6, <1>7, <1>8 DEF ApplyEarly, ApplyEnter, ApplyRead

LEMMA RevalidatingHonest ==
    ASSUME EvidenceInv, Lasting, NEW t \in Appliers,
           Relist(t) \/ Reevaluate(t) \/ RelistEmpty(t) \/ RevalidationFails(t)
    PROVE  Honest(t)'
<1>0. /\ pc \in [Appliers -> Points] /\ req \in [Appliers -> Request] /\ req[t] \in Request
      /\ clock \in Instant /\ 0 \in Instant /\ Inventory \subseteq ObjectRecord /\ Honest(t)
  BY Before, LeaseAssumption DEF EvidenceInv, OpsInv, TypeOK, Instant
<1>1. /\ pc[t] \in Critical /\ pc[t] \in Carrying /\ prepared' = prepared
      /\ writes' = writes /\ store' = store
  BY DEF Relist, Reevaluate, RelistEmpty, RevalidationFails, Critical, Carrying,
         evidenceVars, storeVars
<1>2. Sound(t, req[t])
  BY <1>1, OwnLocalsSound
<1>3. CASE Refuse(t)
  <2>1. Draft("refused", req[t].gone, req[t].at) \in Attempt
    BY <1>1, InsideApply, DraftType DEF EvidenceInv, States
  <2>2. /\ Draft("refused", req[t].gone, req[t].at).deleted = req[t].gone
        /\ Draft("refused", req[t].gone, req[t].at).state = "refused"
    BY DEF Draft
  <2>3. Record(t, req[t], Draft("refused", req[t].gone, req[t].at))
    BY <1>3 DEF Refuse
  <2> QED
    BY <1>0, <1>1, <1>2, <2>1, <2>2, <2>3, RecordHonest
<1>4. CASE pc[t] = "relist_empty" /\ Goto(t, "postflight", req[t])
  <2>1. req[t].gone = prepared[req[t].op].records
    BY <1>0, <1>4 DEF Honest
  <2>2. "postflight" \in Carrying /\ "postflight" \notin Writing
    BY DEF Carrying, Critical, Writing
  <2> QED
    BY <1>0, <1>1, <1>2, <1>4, <2>1, <2>2, GotoHonest
<1>5. CASE Goto(t, "reevaluate", [req[t] EXCEPT !.view = Inventory, !.evaluated_at = clock])
  <2> DEFINE new == [req[t] EXCEPT !.view = Inventory, !.evaluated_at = clock]
  <2>1. new \in Request /\ new.op = req[t].op /\ new.view = Inventory /\ new.gone = req[t].gone
    BY <1>0 DEF Request
  <2>2. \A r \in Inventory : r.etag <= writes
    BY DEF EvidenceInv, Inventory
  <2>3. Sound(t, new)
    BY <1>1, <1>2, <2>1, <2>2 DEF Sound
  <2>4. "reevaluate" \in Carrying /\ "reevaluate" \notin Writing
    BY DEF Carrying, Critical, Writing
  <2>5. Goto(t, "reevaluate", new)
    BY <1>5
  <2> HIDE DEF new
  <2> QED
    BY <1>0, <1>1, <2>3, <2>4, <2>5, GotoHonest
<1>6. CASE Goto(t, "head", [req[t] EXCEPT !.view = {}, !.evaluated_at = 0])
  <2> DEFINE new == [req[t] EXCEPT !.view = {}, !.evaluated_at = 0]
  <2>1. new \in Request /\ new.op = req[t].op /\ new.view = {} /\ new.gone = req[t].gone
    BY <1>0 DEF Request
  <2>2. Sound(t, new)
    BY <1>2, <2>1 DEF Sound
  <2>3. "head" \in Carrying /\ "head" \notin Writing
    BY DEF Carrying, Critical, Writing
  <2>4. Goto(t, "head", new)
    BY <1>6
  <2> HIDE DEF new
  <2> QED
    BY <1>0, <1>1, <2>2, <2>3, <2>4, GotoHonest
<1> QED
  BY <1>3, <1>4, <1>5, <1>6 DEF Relist, Reevaluate, RelistEmpty, RevalidationFails

\* A failure of the delete loop is recorded with exactly what is gone.
LEMMA FailureHonest ==
    ASSUME EvidenceInv, NEW t \in Appliers, pc[t] \in Critical, prepared' = prepared,
           Sound(t, req[t]), NEW gone \in SUBSET ObjectRecord, RecordFailure(t, gone),
           \A r \in gone : /\ r.etag <= writes' /\ r \notin Inventory'
                           /\ r \in prepared[req[t].op].records
    PROVE  Honest(t)'
<1>0. /\ pc \in [Appliers -> Points] /\ req \in [Appliers -> Request] /\ req[t] \in Request
  BY Before DEF EvidenceInv, OpsInv, TypeOK
<1> DEFINE locals == [req[t] EXCEPT !.gone = gone, !.batch = {}]
           state == IF gone = {} THEN "refused" ELSE "partial"
           draft == Draft(state, gone, req[t].at)
<1>1. /\ locals \in Request /\ locals.op = req[t].op /\ locals.view = req[t].view
      /\ locals.gone = gone
  BY <1>0 DEF Request
<1>2. Sound(t, locals)
  BY <1>1 DEF Sound
<1>3. draft \in Attempt
  BY InsideApply, DraftType DEF EvidenceInv, States
<1>4. draft.deleted = gone /\ draft.state # "completed"
  BY DEF Draft
<1>5. Record(t, locals, draft)
  BY DEF RecordFailure
<1> HIDE DEF locals, draft
<1> QED
  BY <1>0, <1>1, <1>2, <1>3, <1>4, <1>5, RecordHonest

LEMMA DeletingHonest ==
    ASSUME EvidenceInv, Lasting, NEW t \in Appliers,
           \/ HeadBatch(t) \/ DeleteConfirmed(t) \/ DeletePartial(t) \/ DeleteLost(t)
           \/ Postflight(t) \/ Deadline(t)
    PROVE  Honest(t)'
<1>0. /\ pc \in [Appliers -> Points] /\ req \in [Appliers -> Request] /\ req[t] \in Request
      /\ Honest(t)
  BY Before DEF EvidenceInv, OpsInv, TypeOK
<1>1. /\ pc[t] \in {"head", "delete", "postflight"} /\ pc[t] \in Critical /\ pc[t] \in Carrying
      /\ prepared' = prepared /\ writes' = writes
  BY DEF HeadBatch, DeleteConfirmed, DeletePartial, DeleteLost, Postflight, Deadline,
         Critical, Carrying, evidenceVars, storeVars
<1>2. Sound(t, req[t])
  BY <1>1, OwnLocalsSound
<1>3. /\ req[t].op \in Ops /\ prepared[req[t].op] # None
      /\ req[t].gone \in SUBSET ObjectRecord /\ req[t].batch \in SUBSET ObjectRecord
      /\ req[t].at \in Instant
  BY <1>1, InsideApply DEF EvidenceInv
<1>4. \A r \in prepared[req[t].op].records : r.etag <= writes'
  BY <1>1, <1>3 DEF EvidenceInv, Known
<1>5. ASSUME NEW done \in SUBSET req[t].batch, pc[t] = "delete", Remove(done)
      PROVE  \A r \in req[t].gone \cup done : /\ r.etag <= writes' /\ r \notin Inventory'
                                              /\ r \in prepared[req[t].op].records
  <2>1. done \cap Inventory' = {}
    BY <1>3, <1>5, RemovedAreGone
  <2>2. done \subseteq prepared[req[t].op].records
    BY <1>0, <1>5 DEF Honest
  <2> QED
    BY <1>2, <1>4, <2>1, <2>2 DEF Sound
<1>6. CASE RecordFailure(t, req[t].gone)
  <2>1. \A r \in req[t].gone : /\ r.etag <= writes' /\ r \notin Inventory'
                               /\ r \in prepared[req[t].op].records
    BY <1>2 DEF Sound
  <2> QED
    BY <1>1, <1>2, <1>3, <1>6, <2>1, FailureHonest
<1>7. CASE DeletePartial(t)
  <2>1. PICK done \in SUBSET req[t].batch :
            pc[t] = "delete" /\ Remove(done) /\ RecordFailure(t, req[t].gone \cup done)
    BY <1>7 DEF DeletePartial
  <2>2. req[t].gone \cup done \in SUBSET ObjectRecord
    BY <1>3
  <2> QED
    BY <1>1, <1>2, <1>5, <2>1, <2>2, FailureHonest
<1>8. CASE DeleteConfirmed(t)
  <2> DEFINE new == [req[t] EXCEPT !.gone = @ \cup req[t].batch, !.batch = {}]
  <2>1. pc[t] = "delete" /\ Remove(req[t].batch) /\ Goto(t, "head", new)
    BY <1>8 DEF DeleteConfirmed
  <2>2. /\ new \in Request /\ new.op = req[t].op /\ new.view = req[t].view
        /\ new.gone = req[t].gone \cup req[t].batch
    BY <1>0, <1>3 DEF Request
  <2>3. Sound(t, new)
    BY <1>2, <1>5, <2>1, <2>2 DEF Sound
  <2>4. "head" \in Carrying /\ "head" \notin Writing
    BY DEF Carrying, Critical, Writing
  <2> HIDE DEF new
  <2> QED
    BY <1>0, <1>1, <2>1, <2>3, <2>4, GotoHonest
<1>9. CASE Left(t) = {} /\ Goto(t, "postflight", req[t])
  <2>1. req[t].gone = prepared[req[t].op].records
    BY <1>2, <1>9 DEF Left, ManifestOf, Sound
  <2>2. "postflight" \in Carrying /\ "postflight" \notin Writing
    BY DEF Carrying, Critical, Writing
  <2> QED
    BY <1>0, <1>1, <1>2, <1>9, <2>1, <2>2, GotoHonest
<1>10. CASE Goto(t, "delete", [req[t] EXCEPT !.batch = NextBatch(t)])
  <2> DEFINE new == [req[t] EXCEPT !.batch = NextBatch(t)]
  <2>1. NextBatch(t) \subseteq prepared[req[t].op].records
    BY DEF NextBatch, Left, ManifestOf
  <2>2. Left(t) \in SUBSET ObjectRecord
    BY <1>1, InsideApply DEF EvidenceInv
  <2>3. NextBatch(t) \in SUBSET ObjectRecord
    BY <2>2 DEF NextBatch
  <2>4. /\ new \in Request /\ new.op = req[t].op /\ new.view = req[t].view
        /\ new.gone = req[t].gone /\ new.batch = NextBatch(t)
    BY <1>0, <2>3 DEF Request
  <2>5. Sound(t, new)
    BY <1>2, <2>4 DEF Sound
  <2>6. "delete" \in Carrying /\ "delete" \notin Writing
    BY DEF Carrying, Critical, Writing
  <2>7. Goto(t, "delete", new)
    BY <1>10
  <2> HIDE DEF new
  <2> QED
    BY <1>0, <1>1, <2>1, <2>4, <2>5, <2>6, <2>7, GotoHonest
<1>11. CASE pc[t] = "postflight" /\ Record(t, req[t], Draft("completed", req[t].gone, req[t].at))
  <2>1. Draft("completed", req[t].gone, req[t].at) \in Attempt
    BY <1>3, DraftType DEF States
  <2>2. Draft("completed", req[t].gone, req[t].at).deleted = req[t].gone
    BY DEF Draft
  <2>3. req[t].gone = prepared[req[t].op].records
    BY <1>0, <1>11 DEF Honest
  <2> QED
    BY <1>0, <1>1, <1>2, <1>11, <2>1, <2>2, <2>3, RecordHonest
<1> QED
  BY <1>6, <1>7, <1>8, <1>9, <1>10, <1>11 DEF HeadBatch, DeleteLost, Postflight, Deadline

LEMMA ThreadHonest ==
    ASSUME EvidenceInv, NEW t \in Appliers, Start(t) \/ Step(t) \/ Abort(t)
    PROVE  Honest(t)'
<1>1. Lasting
  BY ThreadEffect, EffectLasting DEF EvidenceInv
<1> QED
  BY <1>1, StartHonest, RecordingHonest, PreparingHonest, ApplyingHonest,
     RevalidatingHonest, DeletingHonest
  DEF Step

\* What nobody touched stays true, because gone versions stay gone.
LEMMA EvidenceLasts ==
    ASSUME EvidenceInv, Lasting, Grows
    PROVE  /\ \A o \in Ops : plan[o] # None => \A r \in plan[o].records : r.etag <= writes'
           /\ \A o \in Ops : prepared[o] # None =>
                \A r \in prepared[o].records : r.etag <= writes'
           /\ \A o \in Ops : \A a \in attempts[o] : prepared'[o] # None /\ Faithful(o, a)'
           /\ \A u \in Appliers : pc'[u] = pc[u] /\ req'[u] = req[u] => Honest(u)'
<1>0. TypeOK /\ \A u \in Appliers : req[u] \in Request /\ Located(u)
  BY Before DEF EvidenceInv, OpsInv
<1>1. \A r \in ObjectRecord :
        /\ r.etag <= writes => r.etag <= writes'
        /\ r.etag <= writes /\ r \notin Inventory => r \notin Inventory'
  <2>1. \A r \in ObjectRecord : r.etag \in Nat
    BY OperationsAssumption DEF ObjectRecord
  <2> QED
    BY <2>1 DEF Lasting
<1>2. \A S \in SUBSET ObjectRecord :
        /\ (\A r \in S : r.etag <= writes) => \A r \in S : r.etag <= writes'
        /\ (\A r \in S : r.etag <= writes) /\ S \cap Inventory = {} => S \cap Inventory' = {}
  BY <1>1
<1>3. ASSUME NEW o \in Ops, plan[o] # None
      PROVE  \A r \in plan[o].records : r.etag <= writes'
  <2>1. plan[o].records \in SUBSET ObjectRecord
    BY <1>0, <1>3 DEF TypeOK, Plan
  <2> QED
    BY <1>2, <1>3, <2>1 DEF EvidenceInv, Known
<1>4. ASSUME NEW o \in Ops, prepared[o] # None
      PROVE  \A r \in prepared[o].records : r.etag <= writes'
  <2>1. prepared[o].records \in SUBSET ObjectRecord
    BY <1>0, <1>4 DEF TypeOK, Prepared
  <2> QED
    BY <1>2, <1>4, <2>1 DEF EvidenceInv, Known
<1>5. ASSUME NEW o \in Ops, NEW a \in attempts[o]
      PROVE  prepared'[o] # None /\ Faithful(o, a)'
  <2>1. prepared[o] # None /\ Faithful(o, a) /\ a.deleted \in SUBSET ObjectRecord
    BY <1>0 DEF EvidenceInv, TypeOK, Attempt
  <2>2. prepared'[o] = prepared[o]
    BY <2>1 DEF Grows
  <2> QED
    BY <1>2, <2>1, <2>2 DEF Faithful, Dead, Known
<1>6. ASSUME NEW u \in Appliers, pc'[u] = pc[u], req'[u] = req[u] PROVE Honest(u)'
  <2>1. /\ Honest(u) /\ req[u].view \in SUBSET ObjectRecord
        /\ req[u].gone \in SUBSET ObjectRecord
    BY <1>0 DEF EvidenceInv, Request
  <2>2. pc[u] \in Carrying => prepared'[req[u].op] = prepared[req[u].op]
    <3>1. pc[u] \in Carrying => req[u].op \in Ops /\ prepared[req[u].op] # None
      BY <1>0 DEF Located, Carrying, Critical, Writing
    <3> QED
      BY <3>1 DEF Grows
  <2>3. \A r \in req[u].view : r.etag <= writes'
    BY <1>2, <2>1 DEF Honest, Known
  <2>4. pc[u] \in Carrying =>
            /\ \A r \in req[u].gone : r.etag <= writes'
            /\ req[u].gone \cap Inventory' = {}
            /\ req[u].gone \subseteq prepared'[req[u].op].records
    BY <1>2, <2>1, <2>2 DEF Honest, Known, Dead
  <2> QED
    BY <1>6, <2>1, <2>2, <2>3, <2>4 DEF Honest, Known, Dead, Carrying, Critical, Writing
<1> QED
  BY <1>3, <1>4, <1>5, <1>6

LEMMA EvidenceInvNext ==
    ASSUME EvidenceInv, [Next]_vars
    PROVE  EvidenceInv'
<1>0. OpsInv /\ OpsInv'
  BY OpsInvNext DEF EvidenceInv
<1>1. ASSUME Lasting, UNCHANGED <<evidenceVars, threadVars>> PROVE EvidenceInv'
  <2>1. Grows
    BY <1>1 DEF Grows, evidenceVars
  <2>2. UNCHANGED <<plan, prepared, attempts, pc, req>>
    BY <1>1 DEF evidenceVars, threadVars
  <2> QED
    BY <1>0, <1>1, <2>1, <2>2, EvidenceLasts DEF EvidenceInv, Lasting, Known
<1>2. CASE \/ LeaseNext /\ UNCHANGED <<storeVars, evidenceVars, threadVars>>
           \/ UNCHANGED vars
  BY <1>1, <1>2, SameLeafLasting DEF storeVars, vars
<1>3. ASSUME NEW w \in Writers, NEW k \in Keys, Write(w, k) PROVE EvidenceInv'
  BY <1>1, <1>3, WriteLasting DEF Write
<1>4. ASSUME NEW k \in Keys, LateDelete(k) PROVE EvidenceInv'
  BY <1>1, <1>4, LateDeleteLasting DEF LateDelete
<1>5. ASSUME NEW t \in Appliers, Start(t) \/ Step(t) \/ Abort(t) PROVE EvidenceInv'
  <2>1. WellTyped(t) /\ Effect(t) /\ Honest(t)'
    BY <1>0, <1>5, ThreadTyped, ThreadEffect, ThreadHonest
  <2>2. Lasting /\ Grows
    BY <2>1, EffectLasting DEF WellTyped
  <2>3. pc' = [pc EXCEPT ![t] = pc'[t]] /\ req' = [req EXCEPT ![t] = req'[t]]
    BY <1>0, <1>5, <2>1, ThreadDisciplined DEF OpsInv, Disciplined, Moves, WellTyped
  <2>4. TypeOK /\ Located(t) /\ Honest(t) /\ req[t] \in Request
    BY <1>0, Before DEF EvidenceInv
  <2>5. \A u \in Appliers : Honest(u)'
    BY <2>1, <2>2, <2>3, <2>4, EvidenceLasts DEF TypeOK
  <2>6. \A r \in req[t].view : r.etag <= writes'
    BY <2>1, <2>4 DEF Effect, Honest, Known
  <2>7. \A o \in Ops : plan'[o] # None => Known(plan[o].records)'
    BY <2>1, <2>2, <2>6, EvidenceLasts DEF Effect, Known
  <2>8. \A o \in Ops : prepared'[o] # None => Known(prepared[o].records)'
    BY <2>1, <2>2, EvidenceLasts DEF Effect, Known
  <2>9. ASSUME NEW o \in Ops, NEW a \in attempts'[o]
        PROVE  prepared'[o] # None /\ Faithful(o, a)'
    <3>1. CASE a \in attempts[o]
      BY <2>2, <3>1, EvidenceLasts
    <3>2. CASE a \notin attempts[o]
      <4>1. pc[t] = "create" /\ o = req[t].op /\ a = req[t].draft
        BY <2>1, <3>2 DEF Effect
      <4>2. prepared[o] # None /\ prepared'[o] = prepared[o]
        BY <2>2, <2>4, <4>1 DEF Located, Writing, Grows
      <4>3. pc[t] \in Carrying /\ pc[t] \in Writing
        BY <4>1 DEF Carrying, Writing
      <4>4. /\ a.deleted \subseteq req[t].gone
            /\ a.state = "completed" => a.deleted = prepared[o].records
        BY <2>4, <4>1, <4>3 DEF Honest
      <4>5. Sound(t, req[t])
        BY <2>2, <4>3, OwnLocalsSound
      <4> QED
        BY <4>1, <4>2, <4>4, <4>5 DEF Sound, Faithful, Dead, Known
    <3> QED
      BY <3>1, <3>2
  <2> QED
    BY <1>0, <2>2, <2>5, <2>7, <2>8, <2>9 DEF EvidenceInv, Lasting
<1> QED
  BY <1>2, <1>3, <1>4, <1>5 DEF Next

LEMMA EvidenceInvInit == Init => EvidenceInv
<1> SUFFICES ASSUME Init PROVE EvidenceInv
  OBVIOUS
<1>1. \A t \in Appliers : Honest(t)
  BY DEF Init, Honest, Known, NoRequest, Carrying, Critical, Writing
<1> QED
  BY <1>1, OpsInvInit DEF Init, EvidenceInv

\* Every recorded deletion is real and within the reviewed manifest, and a
\* completed operation accounts for all of it, for every number of threads,
\* sessions and objects, whether or not queries outlive their sessions,
\* deletes arrive late or the clock is set back (operations.py _apply_locked,
\* _record_status).
THEOREM EvidenceIsTrue == Spec => []RecordedDeletionsAreReal
<1>1. EvidenceInv /\ [Next]_vars => EvidenceInv'
  BY EvidenceInvNext
<1>2. EvidenceInv => RecordedDeletionsAreReal
  BY DEF EvidenceInv, Faithful, Dead, RecordedDeletionsAreReal
<1> QED
  BY <1>1, <1>2, EvidenceInvInit, PTL DEF Spec

-----------------------------------------------------------------------------
(* Age and quiescence, as long as the clock is never set back.              *)

Aged(records) == \A r \in records : clock >= r.last_modified + Retention

\* k is a key of a tombstone that may be deleted from by now.
Deletable(k) ==
    \E o \in Ops : /\ prepared[o] # None
                   /\ k \in KeysOf(prepared[o].records)
                   /\ Quiet(o)

\* A thread has the lock only for an apply whose quiescence has passed.
Timely(t) ==
    /\ pc[t] \in {"plan_lease", "plan_terminal"} => req[t].evaluated_at <= clock
    /\ pc[t] = "enter" => Quiet(req[t].op)
    /\ lock = t => pc[t] \in Critical \cup Writing /\ Quiet(req[t].op)
    /\ pc[t] = "delete" => req[t].batch \subseteq prepared[req[t].op].records

AgedInv ==
    /\ OpsInv
    /\ \A o \in Ops : plan[o] # None => Aged(plan[o].records)
    /\ \A o \in Ops : prepared[o] # None => Aged(prepared[o].records)
    /\ \A k \in inflight : Deletable(k)
    /\ \A t \in Appliers : Timely(t)

\* A revalidation is refused, or goes on with the same operation and instant.
LEMMA RevalidationMoves ==
    ASSUME pc \in [Appliers -> Points], req \in [Appliers -> Request], NEW t \in Appliers,
           Relist(t) \/ Reevaluate(t) \/ RelistEmpty(t) \/ RevalidationFails(t)
    PROVE  \/ Refuse(t)
           \/ /\ pc'[t] \in {"reevaluate", "head", "postflight"}
              /\ req'[t].op = req[t].op /\ req'[t].at = req[t].at /\ req'[t].gone = req[t].gone
<1>0. req[t] \in Request
  OBVIOUS
<1>1. SUFFICES ASSUME ~Refuse(t)
               PROVE  /\ pc'[t] \in {"reevaluate", "head", "postflight"}
                      /\ req'[t].op = req[t].op /\ req'[t].at = req[t].at /\ req'[t].gone = req[t].gone
  OBVIOUS
<1>2. CASE Relist(t)
  <2>1. Goto(t, "reevaluate", [req[t] EXCEPT !.view = Inventory, !.evaluated_at = clock])
    BY <1>1, <1>2 DEF Relist
  <2>2. /\ pc'[t] = "reevaluate"
        /\ req'[t] = [req[t] EXCEPT !.view = Inventory, !.evaluated_at = clock]
    BY <1>0, <2>1 DEF Goto
  <2> QED
    BY <1>0, <2>2 DEF Request
<1>3. CASE Reevaluate(t)
  <2>1. Goto(t, "head", [req[t] EXCEPT !.view = {}, !.evaluated_at = 0])
    BY <1>1, <1>3 DEF Reevaluate
  <2>2. pc'[t] = "head" /\ req'[t] = [req[t] EXCEPT !.view = {}, !.evaluated_at = 0]
    BY <1>0, <2>1 DEF Goto
  <2> QED
    BY <1>0, <2>2 DEF Request
<1>4. CASE RelistEmpty(t)
  <2>1. Goto(t, "postflight", req[t])
    BY <1>1, <1>4 DEF RelistEmpty
  <2> QED
    BY <1>0, <2>1 DEF Goto
<1> QED
  BY <1>1, <1>2, <1>3, <1>4 DEF RevalidationFails

\* A thread that goes on with its own operation, and takes the lock at most
\* when its quiescence has passed, stays timely.
LEMMA OnwardTimely ==
    ASSUME AgedInv, NEW t \in Appliers, Grows, clock' = clock,
           req'[t].op = req[t].op, pc'[t] \notin {"plan_lease", "plan_terminal", "enter"},
           lock' = t => /\ lock = t \/ pc[t] = "enter"
                        /\ pc'[t] \in Critical \cup Writing,
           pc'[t] = "delete" => /\ pc[t] = "head"
                               /\ req'[t].batch \subseteq prepared[req[t].op].records
    PROVE  Timely(t)'
<1>1. Timely(t) /\ Located(t)
  BY Before DEF AgedInv
<1>2. ASSUME pc[t] \in Critical \cup Writing \cup {"enter"}
      PROVE  prepared'[req'[t].op] = prepared[req[t].op]
  BY <1>1, <1>2 DEF Located, Grows, Critical, Writing
<1>3. lock' = t => Quiet(req[t].op)'
  BY <1>1, <1>2 DEF Timely, Quiet
<1>4. pc'[t] = "delete" => req'[t].batch \subseteq prepared'[req'[t].op].records
  BY <1>2 DEF Critical
<1> QED
  BY <1>3, <1>4 DEF Timely

\* A request that ended has nothing to be late with.
LEMMA ReturnTimely ==
    ASSUME NEW t \in Appliers, pc \in [Appliers -> Points], req \in [Appliers -> Request],
           Return(t)
    PROVE  Timely(t)'
<1>1. pc'[t] = "idle" /\ lock' # t
  BY LeaseAssumption DEF Return, Goto
<1> QED
  BY <1>1 DEF Timely

\* An attempt that can be numbered keeps everything else of its draft.
LEMMA ListRoute ==
    ASSUME NEW t \in Appliers, pc \in [Appliers -> Points], req \in [Appliers -> Request],
           RecordList(t), ~Return(t)
    PROVE  /\ pc'[t] = "create" /\ lock' = lock
           /\ req'[t].op = req[t].op /\ req'[t].kind = req[t].kind
           /\ AttemptFits(Cardinality(attempts[req[t].op]) + 1)
           /\ req'[t].draft.seq = Cardinality(attempts[req[t].op]) + 1
           /\ req'[t].draft.state = req[t].draft.state
           /\ req'[t].draft.deleted = req[t].draft.deleted
           /\ req'[t].draft.occurred_at =
                IF req[t].kind = "prepare" THEN clock ELSE req[t].draft.occurred_at
<1> DEFINE seq == Cardinality(attempts[req[t].op]) + 1
           new == [req[t] EXCEPT
                !.draft.seq = seq,
                !.draft.occurred_at = IF req[t].kind = "prepare" THEN clock ELSE @]
<1>1. AttemptFits(seq) /\ Goto(t, "create", new) /\ lock' = lock
  BY DEF RecordList
<1>2. req[t] \in Request
  OBVIOUS
<1>3. /\ new.op = req[t].op /\ new.kind = req[t].kind /\ new.draft.seq = seq
      /\ new.draft.state = req[t].draft.state
      /\ new.draft.deleted = req[t].draft.deleted
      /\ new.draft.occurred_at =
            IF req[t].kind = "prepare" THEN clock ELSE req[t].draft.occurred_at
  <2> HIDE DEF seq
  <2> QED
    BY <1>2 DEF Request, Attempt
<1> HIDE DEF seq, new
<1>4. pc'[t] = "create" /\ req'[t] = new
  BY <1>1 DEF Goto
<1> QED
  BY <1>1, <1>3, <1>4 DEF seq

\* A failure goes on to be recorded, for the same operation.
LEMMA FailureRoute ==
    ASSUME NEW t \in Appliers, pc \in [Appliers -> Points], req \in [Appliers -> Request],
           NEW gone, RecordFailure(t, gone)
    PROVE  pc'[t] = "list" /\ req'[t].op = req[t].op
BY DEF RecordFailure, Record, Goto, Request

LEMMA ThreadTimely ==
    ASSUME AgedInv, NEW t \in Appliers, Start(t) \/ Step(t) \/ Abort(t)
    PROVE  Timely(t)'
<1>0. /\ pc \in [Appliers -> Points] /\ req \in [Appliers -> Request] /\ req[t] \in Request
      /\ clock \in Instant /\ Timely(t) /\ Located(t) /\ Instant \subseteq Nat
  BY Before, LeaseAssumption DEF AgedInv, OpsInv, TypeOK, Instant
<1>1. Grows /\ clock' = clock
  BY ThreadTyped, ThreadDisciplined DEF AgedInv, OpsInv, WellTyped, Disciplined
<1>2. ASSUME Return(t) PROVE Timely(t)'
  BY <1>0, <1>2, ReturnTimely
<1>3. CASE Start(t)
  <2>1. PICK o \in Ops : PlanInventory(t, o) \/ PrepareStart(t, o) \/ ApplyStart(t, o)
    BY <1>3 DEF Start
  <2>2. pc[t] = "idle" /\ lock # t /\ lock' = lock
    BY <1>0, <2>1 DEF PlanInventory, PrepareStart, ApplyStart, leaseVars, Timely, Critical, Writing
  <2>3. CASE PlanInventory(t, o)
    BY <1>0, <1>1, <2>2, <2>3 DEF PlanInventory, Goto, NoRequest, Timely
  <2>4. CASE PrepareStart(t, o)
    BY <1>0, <2>2, <2>4 DEF PrepareStart, Goto, Timely
  <2>5. CASE ApplyStart(t, o)
    BY <1>0, <1>1, <2>2, <2>5 DEF ApplyStart, Goto, NoRequest, Timely, Quiet, evidenceVars
  <2> QED
    BY <2>1, <2>3, <2>4, <2>5
<1>4. CASE PlanEvaluate(t) \/ Abort(t)
  BY <1>2, <1>4 DEF PlanEvaluate, Abort
<1>5. CASE PlanLease(t)
  <2>1. lock # t /\ lock' = lock
    BY <1>0, <1>5 DEF PlanLease, leaseVars, Timely, Critical, Writing
  <2>2. pc'[t] = "plan_terminal" /\ req'[t].evaluated_at = req[t].evaluated_at
    BY <1>0, <1>5 DEF PlanLease, Goto, Request
  <2> QED
    BY <1>0, <1>1, <1>5, <2>1, <2>2 DEF PlanLease, Timely
<1>6. CASE RecordList(t) \/ RecordCreate(t) \/ RecordAudit(t)
  <2>1. CASE pc'[t] = "idle"
    BY <1>0, <1>2, <1>6, <2>1 DEF RecordList, RecordCreate, RecordAudit, Goto
  <2>2. CASE pc'[t] # "idle"
    <3>1. /\ lock' = lock
          /\ pc'[t] \in {"create", "audit", "read", "early"}
          /\ pc'[t] = "early" => lock # t
      BY <1>0, <1>6, <2>2 DEF RecordList, RecordCreate, RecordAudit, Return, Goto, leaseVars
    <3>2. req'[t].op = req[t].op
      <4>1. CASE RecordCreate(t) \/ RecordAudit(t)
        BY <1>0, <2>2, <4>1 DEF RecordCreate, RecordAudit, Return, Goto
      <4>2. CASE RecordList(t)
        BY <1>0, <2>2, <4>2, ListRoute DEF Return, Goto
      <4> QED
        BY <1>6, <4>1, <4>2
    <3> QED
      BY <1>1, <3>1, <3>2, OnwardTimely DEF Critical, Writing
  <2> QED
    BY <2>1, <2>2
<1>7. CASE PrepareFind(t) \/ PrepareTombstone(t)
  <2>1. lock # t
    BY <1>0, <1>7 DEF PrepareFind, PrepareTombstone, Timely, Critical, Writing
  <2>2. CASE Return(t)
    BY <1>2, <2>2
  <2>3. CASE ~Return(t)
    <3>1. /\ req'[t].op = req[t].op /\ lock' = lock
          /\ pc'[t] \in {"tombstone", "list"}
      BY <1>0, <1>7, <2>3 DEF PrepareFind, PrepareTombstone, Record, Goto, Request, leaseVars
    <3> QED
      BY <1>1, <2>1, <3>1, OnwardTimely
  <2> QED
    BY <2>2, <2>3
<1>8. CASE ApplyEarly(t) \/ ApplyEnter(t) \/ ApplyRead(t) \/ ApplyRepair(t)
  <2>1. CASE Return(t)
    BY <1>2, <2>1
  <2>2. CASE ~Return(t)
    <3>1. /\ req'[t].op = req[t].op
          /\ pc'[t] \in {"list", "read", "repair", "relist", "relist_empty"}
          /\ lock' = t => lock = t \/ pc[t] = "enter"
      BY <1>0, <1>8, <2>2
      DEF ApplyEarly, ApplyEnter, ApplyRead, ApplyRepair, Record, Goto, Request
    <3> QED
      BY <1>1, <3>1, OnwardTimely DEF Critical, Writing
  <2> QED
    BY <2>1, <2>2
<1>9. CASE Relist(t) \/ Reevaluate(t) \/ RelistEmpty(t) \/ RevalidationFails(t)
  <2>1. /\ req'[t].op = req[t].op /\ lock' = lock
        /\ pc'[t] \in {"list", "reevaluate", "head", "postflight"}
    <3>1. lock' = lock
      BY <1>9 DEF Relist, Reevaluate, RelistEmpty, RevalidationFails, leaseVars, Refuse, Record, Goto
    <3>2. CASE Refuse(t)
      BY <1>0, <3>1, <3>2 DEF Refuse, Record, Goto, Request
    <3> QED
      BY <1>0, <1>9, <3>1, <3>2, RevalidationMoves
  <2> QED
    BY <1>1, <2>1, OnwardTimely DEF Critical, Writing
<1>10. CASE HeadBatch(t)
  <2>1. /\ req'[t].op = req[t].op /\ lock' = lock
        /\ pc'[t] \in {"list", "delete", "postflight"}
        /\ pc'[t] = "delete" => pc[t] = "head" /\ req'[t].batch = NextBatch(t)
    <3>1. CASE Goto(t, "postflight", req[t])
      BY <1>0, <1>10, <3>1 DEF HeadBatch, Goto, leaseVars
    <3>2. CASE Goto(t, "delete", [req[t] EXCEPT !.batch = NextBatch(t)])
      BY <1>0, <1>10, <3>2 DEF HeadBatch, Goto, Request, leaseVars
    <3>3. CASE RecordFailure(t, req[t].gone)
      BY <1>0, <1>10, <3>3, FailureRoute DEF HeadBatch, leaseVars
    <3> QED
      BY <1>10, <3>1, <3>2, <3>3 DEF HeadBatch
  <2>2. NextBatch(t) \subseteq prepared[req[t].op].records
    BY DEF NextBatch, Left, ManifestOf
  <2> QED
    BY <1>1, <2>1, <2>2, OnwardTimely DEF Critical, Writing
<1>11. CASE \/ DeleteConfirmed(t) \/ DeletePartial(t) \/ DeleteLost(t)
            \/ Postflight(t) \/ Deadline(t)
  <2>1. /\ req'[t].op = req[t].op /\ lock' = lock
        /\ pc'[t] \in {"list", "head"}
    <3>1. CASE \E gone : RecordFailure(t, gone)
      BY <1>0, <1>11, <3>1, FailureRoute
      DEF DeleteConfirmed, DeletePartial, DeleteLost, Postflight, Deadline, leaseVars
    <3>2. CASE DeleteConfirmed(t)
      BY <1>0, <3>2 DEF DeleteConfirmed, Goto, Request, leaseVars
    <3>3. CASE Postflight(t) /\ Record(t, req[t], Draft("completed", req[t].gone, req[t].at))
      BY <1>0, <3>3 DEF Postflight, Record, Goto, Request, leaseVars
    <3> QED
      BY <1>11, <3>1, <3>2, <3>3 DEF DeletePartial, DeleteLost, Postflight, Deadline
  <2> QED
    BY <1>1, <2>1, OnwardTimely DEF Critical, Writing
<1> QED
  BY <1>3, <1>4, <1>5, <1>6, <1>7, <1>8, <1>9, <1>10, <1>11 DEF Step

\* What one step of thread t adds to the plans and to the late deletes.
AgeEffect(t) ==
    /\ \A o \in Ops : \/ plan'[o] = plan[o]
                      \/ plan'[o].records = req[t].view /\ Aged(req[t].view)
    /\ \/ inflight' = inflight
       \/ /\ pc[t] = "delete"
          /\ inflight' \subseteq inflight \cup KeysOf(req[t].batch)

LEMMA ThreadAgeEffect ==
    ASSUME AgedInv, NEW t \in Appliers, Start(t) \/ Step(t) \/ Abort(t)
    PROVE  AgeEffect(t)
<1>0. TypeOK /\ req[t] \in Request /\ Timely(t) /\ clock \in Instant /\ Instant \subseteq Nat
  BY Before, LeaseAssumption DEF AgedInv, Instant
<1>1. CASE PlanEvaluate(t)
  <2>1. ASSUME PlanEligible(Target, req[t].evaluated_at, req[t].seen, terminal, req[t].view),
               NEW r \in req[t].view
        PROVE  clock >= r.last_modified + Retention
    <3>1. ~(req[t].evaluated_at < r.last_modified + Retention)
      BY <2>1 DEF PlanEligible, Eligible, Quarantined, AnchorClocks
    <3>2. req[t].evaluated_at \in Nat /\ r.last_modified \in Nat /\ Retention \in Nat
      BY <1>0, PolicyAssumption DEF Request, ObjectRecord, EntryParses
    <3>3. req[t].evaluated_at <= clock
      BY <1>0, <1>1 DEF PlanEvaluate, Timely
    <3> QED
      BY <1>0, <3>1, <3>2, <3>3
  <2> QED
    BY <1>0, <1>1, <2>1 DEF PlanEvaluate, AgeEffect, Aged, storeVars, TypeOK
<1>2. CASE DeleteConfirmed(t) \/ DeletePartial(t) \/ DeleteLost(t)
  <2>1. pc[t] = "delete" /\ plan' = plan
    BY <1>2 DEF DeleteConfirmed, DeletePartial, DeleteLost, evidenceVars
  <2>2. inflight' \subseteq inflight \cup KeysOf(req[t].batch)
    BY <1>2 DEF DeleteConfirmed, DeletePartial, DeleteLost, KeysOf
  <2> QED
    BY <2>1, <2>2 DEF AgeEffect
<1>3. ASSUME UNCHANGED <<inflight, plan>> PROVE AgeEffect(t)
  BY <1>3 DEF AgeEffect
<1>4. CASE Start(t) \/ PlanLease(t) \/ Abort(t)
  BY <1>3, <1>4
  DEF Start, PlanInventory, PrepareStart, ApplyStart, PlanLease, Abort, storeVars, evidenceVars
<1>5. CASE \/ RecordList(t) \/ RecordCreate(t) \/ RecordAudit(t)
           \/ PrepareFind(t) \/ PrepareTombstone(t)
  BY <1>3, <1>5
  DEF RecordList, RecordCreate, RecordAudit, PrepareFind, PrepareTombstone, storeVars,
      evidenceVars
<1>6. CASE ApplyEarly(t) \/ ApplyEnter(t) \/ ApplyRead(t) \/ ApplyRepair(t)
  BY <1>3, <1>6 DEF ApplyEarly, ApplyEnter, ApplyRead, ApplyRepair, storeVars, evidenceVars
<1>7. CASE \/ Relist(t) \/ Reevaluate(t) \/ RelistEmpty(t) \/ RevalidationFails(t)
           \/ HeadBatch(t) \/ Postflight(t) \/ Deadline(t)
  BY <1>3, <1>7
  DEF Relist, Reevaluate, RelistEmpty, RevalidationFails, HeadBatch, Postflight, Deadline,
      storeVars, evidenceVars
<1> QED
  BY <1>1, <1>2, <1>4, <1>5, <1>6, <1>7 DEF Step

\* What has aged stays aged and what is quiet stays quiet while the clock runs.
LEMMA AgeLasts ==
    ASSUME AgedInv, Grows, clock' \in Instant, clock <= clock'
    PROVE  /\ \A records \in SUBSET ObjectRecord : Aged(records) => Aged(records)'
           /\ \A o \in Ops : prepared[o] # None =>
                prepared'[o] = prepared[o] /\ (Quiet(o) => Quiet(o)')
           /\ \A k \in Keys : Deletable(k) => Deletable(k)'
           /\ \A u \in Appliers :
                pc'[u] = pc[u] /\ req'[u] = req[u] /\ (lock' = u => lock = u) => Timely(u)'
<1>0. /\ TypeOK /\ clock \in Nat /\ clock' \in Nat /\ Instant \subseteq Nat
      /\ Retention \in Nat /\ Quiescence \in Nat
  BY PolicyAssumption, OperationsAssumption, LeaseAssumption
  DEF AgedInv, OpsInv, TypeOK, LeaseTypeOK, Instant, EntryParses
<1>1. ASSUME NEW records \in SUBSET ObjectRecord, Aged(records) PROVE Aged(records)'
  <2> SUFFICES ASSUME NEW r \in records PROVE clock' >= r.last_modified + Retention
    BY DEF Aged
  <2>1. r.last_modified \in Nat /\ clock >= r.last_modified + Retention
    BY <1>0, <1>1 DEF Aged, ObjectRecord
  <2> QED
    BY <1>0, <2>1
<1>2. ASSUME NEW o \in Ops, prepared[o] # None
      PROVE  prepared'[o] = prepared[o] /\ (Quiet(o) => Quiet(o)')
  <2>1. prepared'[o] = prepared[o] /\ prepared[o].prepared_at \in Nat
    BY <1>0, <1>2 DEF Grows, TypeOK, Prepared
  <2> QED
    BY <1>0, <2>1 DEF Quiet
<1>3. \A k \in Keys : Deletable(k) => Deletable(k)'
  BY <1>2 DEF Deletable
<1>4. ASSUME NEW u \in Appliers, pc'[u] = pc[u], req'[u] = req[u], lock' = u => lock = u
      PROVE  Timely(u)'
  <2>1. Timely(u) /\ Located(u) /\ req[u].evaluated_at \in Nat
    BY <1>0, Before DEF AgedInv, Request
  <2>2. ASSUME pc[u] \in Critical \cup Writing \cup {"enter"}
        PROVE  req[u].op \in Ops /\ prepared[req[u].op] # None
    BY <2>1, <2>2 DEF Located, Critical, Writing
  <2>3. pc[u] = "enter" \/ lock = u => Quiet(req[u].op)'
    BY <1>2, <1>4, <2>1, <2>2 DEF Timely, Quiet
  <2>4. pc[u] = "delete" => req[u].batch \subseteq prepared'[req[u].op].records
    BY <1>2, <2>1, <2>2 DEF Timely, Critical
  <2>5. pc[u] \in {"plan_lease", "plan_terminal"} => req[u].evaluated_at <= clock'
    BY <1>0, <2>1 DEF Timely
  <2> QED
    BY <1>4, <2>1, <2>3, <2>4, <2>5 DEF Timely
<1> QED
  BY <1>1, <1>2, <1>3, <1>4

\* Lease requests never give a service thread the lock, and without clock
\* corrections time goes forward.
LEMMA LeaseStepForward ==
    ASSUME MaxStepsBack = 0, LeaseTypeOK, LeaseNext
    PROVE  clock <= clock' /\ \A u \in Appliers : lock' = u => lock = u
<1>0. clock \in Nat /\ stepsBack = 0
  BY LeaseAssumption DEF LeaseTypeOK, Instant
<1>1. CASE Tick
  BY <1>0, <1>1 DEF Tick
<1>2. CASE ClockSetBack
  BY <1>0, <1>2 DEF ClockSetBack
<1>3. ASSUME NEW w \in Writers, LeaseRequest(w)
      PROVE  clock' = clock /\ \A u \in Appliers : lock' = u => lock = u
  <2> USE LeaseAssumption
  <2>1. CASE Acquire(w)
    BY <2>1 DEF Acquire
  <2>2. CASE Heartbeat(w)
    BY <2>2 DEF Heartbeat
  <2>3. ASSUME NEW s, NEW e \in Evidence, Terminal(w, s, e) \/ TerminalAgain(w, s, e)
        PROVE  clock' = clock /\ \A u \in Appliers : lock' = u => lock = u
    BY <2>3 DEF Terminal, TerminalAgain
  <2>4. CASE PersistTerminal(w)
    BY <2>4 DEF PersistTerminal
  <2> QED
    BY <1>3, <2>1, <2>2, <2>3, <2>4 DEF LeaseRequest
<1> QED
  BY <1>0, <1>1, <1>2, <1>3 DEF LeaseNext

LEMMA AgedInvNext ==
    ASSUME MaxStepsBack = 0, AgedInv, [Next]_vars
    PROVE  AgedInv'
<1>0. OpsInv /\ OpsInv' /\ TypeOK /\ TypeOK'
  BY OpsInvNext DEF AgedInv, OpsInv
<1>1. clock \in Instant /\ clock' \in Instant /\ clock <= clock
  BY <1>0, LeaseAssumption DEF TypeOK, LeaseTypeOK, Instant
<1>2. ASSUME clock <= clock', inflight' \subseteq inflight, UNCHANGED <<evidenceVars, threadVars>>,
             \A u \in Appliers : lock' = u => lock = u
      PROVE  AgedInv'
  <2>1. Grows /\ UNCHANGED <<plan, prepared, pc, req>>
    BY <1>2 DEF Grows, evidenceVars, threadVars
  <2>2. /\ \A o \in Ops : plan[o] # None => plan[o].records \in SUBSET ObjectRecord
        /\ \A o \in Ops : prepared[o] # None => prepared[o].records \in SUBSET ObjectRecord
    BY <1>0 DEF TypeOK, Prepared, Plan
  <2>3. inflight' \subseteq Keys
    BY <1>0 DEF TypeOK
  <2>4. \A k \in inflight' : Deletable(k)'
    BY <1>1, <1>2, <2>1, <2>3, AgeLasts DEF AgedInv
  <2>5. \A u \in Appliers : Timely(u)'
    BY <1>1, <1>2, <2>1, AgeLasts
  <2>6. \A o \in Ops : plan'[o] # None => Aged(plan[o].records)'
    BY <1>1, <1>2, <2>1, <2>2, AgeLasts DEF AgedInv, Aged
  <2>7. \A o \in Ops : prepared'[o] # None => Aged(prepared[o].records)'
    BY <1>1, <1>2, <2>1, <2>2, AgeLasts DEF AgedInv, Aged
  <2> QED
    BY <1>0, <2>4, <2>5, <2>6, <2>7 DEF AgedInv
<1>3. CASE LeaseNext /\ UNCHANGED <<storeVars, evidenceVars, threadVars>>
  BY <1>0, <1>2, <1>3, LeaseStepForward DEF TypeOK, storeVars
<1>4. CASE UNCHANGED vars \/ (\E w \in Writers, k \in Keys : Write(w, k))
  BY <1>1, <1>2, <1>4 DEF vars, Write, leaseVars, storeVars
<1>5. CASE \E k \in Keys : LateDelete(k)
  BY <1>1, <1>2, <1>5 DEF LateDelete, leaseVars
<1>6. ASSUME NEW t \in Appliers, Start(t) \/ Step(t) \/ Abort(t) PROVE AgedInv'
  <2>1. WellTyped(t) /\ Effect(t) /\ AgeEffect(t) /\ Timely(t)'
    BY <1>0, <1>6, ThreadTyped, ThreadEffect, ThreadAgeEffect, ThreadTimely
  <2>2. Grows /\ clock' = clock /\ LockDiscipline(t)
    BY <1>0, <1>6, <2>1, ThreadDisciplined DEF OpsInv, Disciplined, WellTyped
  <2>3. pc' = [pc EXCEPT ![t] = pc'[t]] /\ req' = [req EXCEPT ![t] = req'[t]]
    BY <1>0, <1>6, <2>1, ThreadDisciplined DEF OpsInv, Disciplined, Moves, WellTyped
  <2>4. Timely(t) /\ Located(t)
    BY <1>0, Before DEF AgedInv
  <2>5. ASSUME NEW u \in Appliers PROVE Timely(u)'
    <3>1. CASE u = t
      BY <2>1, <3>1
    <3>2. CASE u # t
      <4>1. pc'[u] = pc[u] /\ req'[u] = req[u]
        BY <1>0, <2>3, <3>2 DEF TypeOK
      <4>2. lock' = u => lock = u
        BY <2>2, <3>2, LeaseAssumption DEF LockDiscipline
      <4> QED
        BY <1>1, <2>2, <4>1, <4>2, AgeLasts
    <3> QED
      BY <3>1, <3>2
  <2>7. \A o \in Ops : plan'[o] # None => Aged(plan[o].records)'
    BY <1>0, <2>1, <2>2 DEF AgeEffect, AgedInv, Aged
  <2>8. \A o \in Ops : prepared'[o] # None => Aged(prepared[o].records)'
    BY <1>0, <2>1, <2>2 DEF Effect, AgedInv, Aged
  <2>9. ASSUME NEW k \in inflight' PROVE Deletable(k)'
    <3>1. k \in Keys
      BY <1>0 DEF TypeOK
    <3>2. Deletable(k)
      <4>1. CASE k \in inflight
        BY <4>1 DEF AgedInv
      <4>2. CASE k \notin inflight
        <5>1. pc[t] = "delete" /\ k \in KeysOf(req[t].batch)
          BY <2>1, <4>2 DEF AgeEffect
        <5>2. lock = t
          BY <1>0, <5>1 DEF OpsInv, ExclusionInv, Inside, Critical
        <5>3. req[t].op \in Ops /\ prepared[req[t].op] # None
          BY <2>4, <5>1 DEF Located, Critical
        <5>4. k \in KeysOf(prepared[req[t].op].records)
          BY <2>4, <5>1 DEF Timely, KeysOf
        <5> QED
          BY <2>4, <5>2, <5>3, <5>4 DEF Timely, Deletable
      <4> QED
        BY <4>1, <4>2
    <3> QED
      BY <1>1, <2>2, <3>1, <3>2, AgeLasts
  <2> QED
    BY <1>0, <2>5, <2>7, <2>8, <2>9 DEF AgedInv
<1> QED
  BY <1>3, <1>4, <1>5, <1>6 DEF Next

\* Whatever removes an object, the key was deletable.
LEMMA RemovalIsDeletable ==
    ASSUME AgedInv, Next, NEW k \in Keys, Removed(k)
    PROVE  Deletable(k)
<1>0. OpsInv /\ TypeOK
  BY DEF AgedInv, OpsInv
<1>1. ASSUME NEW w \in Writers, NEW j \in Keys, Write(w, j) PROVE FALSE
  <2>1. /\ writes \in 0..MaxWrites /\ clock \in Instant
        /\ store \in [Keys -> ObjectRecord \cup {None}]
    BY <1>0 DEF TypeOK, LeaseTypeOK
  <2>2. writes' \in 1..MaxWrites
    BY <1>1, <2>1, OperationsAssumption DEF Write
  <2>3. [key |-> j, etag |-> writes', last_modified |-> clock] # None
    BY <2>1, <2>2, AbsentAssumption DEF ObjectRecord
  <2> QED
    BY <1>1, <2>1, <2>3 DEF Write, Removed
<1>2. ASSUME NEW j \in Keys, LateDelete(j) PROVE Deletable(k)
  BY <1>0, <1>2 DEF LateDelete, Removed, AgedInv, TypeOK
<1>3. ASSUME NEW t \in Appliers, Start(t) \/ Step(t) \/ Abort(t) PROVE Deletable(k)
  <2>1. pc[t] = "delete" /\ \E done \in SUBSET req[t].batch : Remove(done)
    BY <1>0, <1>3, ThreadEffect DEF Effect, Removed
  <2>2. PICK r \in req[t].batch : r.key = k
    BY <2>1 DEF Remove, KeysOf, Removed
  <2>3. Timely(t) /\ Located(t) /\ lock = t
    BY <1>0, <2>1, Before DEF AgedInv, OpsInv, ExclusionInv, Inside, Critical
  <2>4. req[t].op \in Ops /\ prepared[req[t].op] # None
    BY <2>1, <2>3 DEF Located, Critical
  <2>5. r \in prepared[req[t].op].records
    BY <2>1, <2>2, <2>3 DEF Timely
  <2> QED
    BY <2>2, <2>3, <2>4, <2>5 DEF Timely, Deletable, KeysOf
<1> QED
  BY <1>1, <1>2, <1>3 DEF Next, storeVars, Removed

\* As long as the clock is not set back, whatever a query that outlived its
\* session writes and however late a delete is executed, an object is removed
\* only from the keys of a tombstone past its quiescence whose objects have
\* all outlived their retention (operations.py apply, planner.py plan).
THEOREM RemovalsAged ==
    ASSUME MaxStepsBack = 0
    PROVE  Spec => RemovalsConfinedAndAged
<1>1. Init => AgedInv
  <2> SUFFICES ASSUME Init PROVE AgedInv
    OBVIOUS
  <2>1. \A t \in Appliers : pc[t] = "idle" /\ lock # t
    BY LeaseAssumption DEF Init, LeaseInit
  <2> QED
    BY <2>1, OpsInvInit DEF Init, AgedInv, Timely
<1>2. AgedInv /\ [Next]_vars => AgedInv'
  BY AgedInvNext
<1>3. ASSUME AgedInv, Next, NEW k \in Keys, Removed(k)
      PROVE  \E o \in Ops :
                /\ prepared[o] # None
                /\ k \in KeysOf(prepared[o].records)
                /\ clock >= prepared[o].prepared_at + Quiescence
                /\ \A r \in prepared[o].records : clock >= r.last_modified + Retention
  BY <1>3, RemovalIsDeletable DEF AgedInv, Deletable, Quiet, Aged
<1>4. AgedInv /\ [Next]_vars =>
        [\A k \in Keys : Removed(k) =>
            \E o \in Ops :
                /\ prepared[o] # None
                /\ k \in KeysOf(prepared[o].records)
                /\ clock >= prepared[o].prepared_at + Quiescence
                /\ \A r \in prepared[o].records : clock >= r.last_modified + Retention]_vars
  BY <1>3
<1> QED
  BY <1>1, <1>2, <1>4, PTL DEF Spec, RemovalsConfinedAndAged

-----------------------------------------------------------------------------
(* The attempt history when requests come one at a time.                    *)

\* a may follow every attempt of A.
Follows(A, a) ==
    /\ A = {} <=> a.state = "prepared"
    /\ \A b \in A : /\ Rank(b.state) <= Rank(a.state)
                    /\ b.deleted \subseteq a.deleted
                    /\ b.state # "completed"

\* What the state of an attempt says by itself about its deletions.
Plausible(a) ==
    /\ a.state \in {"prepared", "not_ready"} => a.deleted = {}
    /\ a.state = "partial" => a.deleted # {}

\* Every attempt has its own number, and before a deletion nothing is deleted.
Numbered(A) ==
    /\ InSequence(A)
    /\ \A a \in A : a.seq \in 1..Cardinality(A)
    /\ \A a, b \in A : a.seq = b.seq => a = b
    /\ \A a \in A : Plausible(a)

\* An apply past the audits' repair: it knows all that was ever recorded.
Resumed == {"relist", "reevaluate", "relist_empty", "head", "delete", "postflight"}

UpToDate(t) ==
    LET A == attempts[req[t].op]
        d == req[t].draft IN
    /\ pc[t] \in Resumed \cup {"repair"} =>
        \A a \in A : a.occurred_at <= req[t].at /\ a.state # "completed"
    /\ pc[t] \in Resumed =>
        /\ A # {}
        /\ \A a \in A : a.deleted \subseteq req[t].gone
        /\ audits[req[t].op] = A
    /\ pc[t] \in {"list", "create"} =>
        /\ Follows(A, d)
        /\ \A a \in A : a.occurred_at <= d.occurred_at
        /\ Plausible(d)
        /\ req[t].kind = "prepare" => A = {}
    /\ pc[t] = "create" => d.seq = Cardinality(A) + 1

HistoryInv ==
    /\ EvidenceInv
    /\ \A o \in Ops : Numbered(attempts[o])
    /\ \A t \in Appliers : UpToDate(t)

LEMMA NumberedGrows ==
    ASSUME NEW A \in SUBSET Attempt, IsFiniteSet(A), Numbered(A), NEW d \in Attempt,
           d.seq = Cardinality(A) + 1, Follows(A, d),
           \A b \in A : b.occurred_at <= d.occurred_at,
           Plausible(d)
    PROVE  Numbered(A \cup {d})
<1> DEFINE n == Cardinality(A)
           B == A \cup {d}
<1>1. n \in Nat
  BY FS_CardinalityType
<1>2. \A a \in A : a.seq \in 1..n
  BY DEF Numbered
<1>3. d \notin A
  BY <1>1, <1>2
<1>4. Cardinality(B) = n + 1
  BY <1>3, FS_AddElement
<1>5. A = {} <=> n = 0
  BY FS_EmptySet
<1>6. /\ \A i \in 1..n : \E a \in A : a.seq = i
      /\ \A a \in A : a.seq = 1 <=> a.state = "prepared"
      /\ \A a, b \in A : a.seq < b.seq =>
            /\ Rank(a.state) <= Rank(b.state)
            /\ a.deleted \subseteq b.deleted
            /\ a.occurred_at <= b.occurred_at
            /\ a.state # "completed"
      /\ \A a, b \in A : a.seq = b.seq => a = b
      /\ \A a \in A : Plausible(a)
  BY DEF Numbered, InSequence
<1> HIDE DEF n
<1>7. d.seq = n + 1
  BY DEF n
<1>8. \A i \in 1..(n + 1) : \E a \in B : a.seq = i
  <2> SUFFICES ASSUME NEW i \in 1..(n + 1) PROVE \E a \in B : a.seq = i
    OBVIOUS
  <2>1. CASE i \in 1..n
    BY <1>6, <2>1
  <2>2. CASE i = n + 1
    BY <1>7, <2>2
  <2> QED
    BY <1>1, <2>1, <2>2
<1>9. \A a \in B : a.seq = 1 <=> a.state = "prepared"
  <2>1. d.seq = 1 <=> d.state = "prepared"
    BY <1>1, <1>5, <1>7 DEF Follows
  <2> QED
    BY <1>6, <2>1
<1>10. ASSUME NEW a \in B, NEW b \in B, a.seq < b.seq
       PROVE  /\ Rank(a.state) <= Rank(b.state)
              /\ a.deleted \subseteq b.deleted
              /\ a.occurred_at <= b.occurred_at
              /\ a.state # "completed"
  <2>1. a # d
    BY <1>1, <1>2, <1>7, <1>10
  <2>2. CASE b = d
    BY <2>1, <2>2 DEF Follows
  <2>3. CASE b # d
    BY <1>6, <1>10, <2>1, <2>3
  <2> QED
    BY <2>2, <2>3
<1>11. \A a, b \in B : a.seq = b.seq => a = b
  BY <1>1, <1>2, <1>6, <1>7
<1>12. \A a \in B : a.seq \in 1..(n + 1)
  BY <1>1, <1>2, <1>7
<1>13. \A a \in B : Plausible(a)
  BY <1>6
<1>14. InSequence(B)
  BY <1>4, <1>8, <1>9, <1>10 DEF InSequence
<1> HIDE DEF B
<1>15. Numbered(B)
  BY <1>4, <1>11, <1>12, <1>13, <1>14 DEF Numbered
<1> QED
  BY <1>15 DEF B

\* The latest attempt of a readable history bounds every other one.
LEMMA LatestBounds ==
    ASSUME NEW A \in SUBSET Attempt, Numbered(A), A # {}, NEW b \in A
    PROVE  /\ Latest(A) \in A
           /\ Rank(b.state) <= Rank(Latest(A).state)
           /\ b.deleted \subseteq Latest(A).deleted
           /\ b.occurred_at <= Latest(A).occurred_at
           /\ b.state = "completed" => Latest(A).state = "completed"
<1>1. Latest(A) \in A /\ b.seq <= Latest(A).seq
  BY LatestExists
<1>2. \A a \in A : a.seq \in Nat /\ a.occurred_at \in Nat /\ Rank(a.state) \in Nat
  BY OperationsAssumption, LeaseAssumption DEF Attempt, Instant, States, Rank
<1>3. CASE b.seq = Latest(A).seq
  <2>1. b = Latest(A)
    BY <1>1, <1>3 DEF Numbered
  <2> QED
    BY <1>1, <1>2, <2>1
<1>4. CASE b.seq < Latest(A).seq
  BY <1>1, <1>4 DEF Numbered, InSequence
<1> QED
  BY <1>1, <1>2, <1>3, <1>4

\* The first attempt of an operation, by prepare or reconstructed by apply.
LEMMA FirstUpToDate ==
    ASSUME NEW t \in Appliers, pc \in [Appliers -> Points], req \in [Appliers -> Request],
           attempts' = attempts, attempts[req[t].op] = {}, NEW at,
           Record(t, req[t], Draft("prepared", {}, at))
    PROVE  UpToDate(t)'
<1>1. pc'[t] = "list" /\ req'[t] = [req[t] EXCEPT !.draft = Draft("prepared", {}, at)]
  BY DEF Record, Goto
<1>2. req'[t].op = req[t].op /\ req'[t].draft = Draft("prepared", {}, at)
  BY <1>1 DEF Request
<1>3. attempts'[req'[t].op] = {} /\ req'[t].draft.state = "prepared" /\ req'[t].draft.deleted = {}
  BY <1>2 DEF Draft
<1> QED
  BY <1>1, <1>3 DEF UpToDate, Follows, Plausible, Resumed

\* A thread at a point that says nothing of the history.
LEMMA ElsewhereUpToDate ==
    ASSUME NEW t \in Appliers, pc'[t] \notin Resumed \cup {"repair", "list", "create"}
    PROVE  UpToDate(t)'
BY DEF UpToDate

\* A resumed apply goes on, knowing no less.
LEMMA ResumedGoesOn ==
    ASSUME HistoryInv, NEW t \in Appliers, pc[t] \in Resumed, pc'[t] \in Resumed,
           UNCHANGED evidenceVars, req'[t].op = req[t].op, req'[t].at = req[t].at,
           req[t].gone \subseteq req'[t].gone
    PROVE  UpToDate(t)'
<1>1. UpToDate(t)
  BY DEF HistoryInv
<1> QED
  BY <1>1 DEF UpToDate, Resumed, evidenceVars

\* A resumed apply records how it ended.
LEMMA ResumedRecords ==
    ASSUME HistoryInv, NEW t \in Appliers, pc[t] \in Resumed, UNCHANGED evidenceVars,
           NEW locals \in Request, locals.op = req[t].op, locals.kind = "apply",
           NEW state \in {"refused", "partial", "completed"},
           NEW gone, req[t].gone \subseteq gone, state = "partial" => gone # {},
           Record(t, locals, Draft(state, gone, req[t].at))
    PROVE  UpToDate(t)'
<1>0. /\ pc \in [Appliers -> Points] /\ req \in [Appliers -> Request]
      /\ UpToDate(t) /\ TypeOK
  BY Before DEF HistoryInv, EvidenceInv, OpsInv, TypeOK
<1> DEFINE A == attempts[req[t].op]
           d == Draft(state, gone, req[t].at)
<1>1. pc'[t] = "list" /\ req'[t] = [locals EXCEPT !.draft = d]
  BY <1>0 DEF Record, Goto
<1>2. req'[t].op = req[t].op /\ req'[t].draft = d /\ req'[t].kind = "apply"
  BY <1>1 DEF Request
<1>3. d.state = state /\ d.deleted = gone /\ d.occurred_at = req[t].at
  BY DEF Draft
<1>4. /\ \A a \in A : a.occurred_at <= req[t].at /\ a.state # "completed"
      /\ A # {} /\ \A a \in A : a.deleted \subseteq req[t].gone
  BY <1>0 DEF UpToDate
<1>5. req[t].op \in Ops
  BY Before DEF HistoryInv, EvidenceInv, Located, Resumed
<1>6. \A a \in A : a.state \in States
  BY <1>0, <1>5 DEF TypeOK, Attempt
<1>7. \A a \in A : Rank(a.state) <= Rank(state)
  BY <1>4, <1>6 DEF Rank, States
<1>8. Follows(A, d)
  BY <1>3, <1>4, <1>7 DEF Follows
<1>9. attempts'[req'[t].op] = A
  BY <1>2 DEF evidenceVars
<1> HIDE DEF A, d
<1> QED
  BY <1>1, <1>2, <1>3, <1>4, <1>8, <1>9 DEF UpToDate, Plausible, Resumed

LEMMA RecordingUpToDate ==
    ASSUME HistoryInv, NEW t \in Appliers, RecordList(t) \/ RecordCreate(t) \/ RecordAudit(t)
    PROVE  UpToDate(t)'
<1>0. /\ pc \in [Appliers -> Points] /\ req \in [Appliers -> Request] /\ UpToDate(t)
  BY DEF HistoryInv, EvidenceInv, OpsInv, TypeOK
<1>1. CASE RecordCreate(t) \/ RecordAudit(t) \/ Return(t)
  <2>1. pc'[t] \in {"audit", "read", "early", "idle"}
    BY <1>0, <1>1 DEF RecordCreate, RecordAudit, Return, Goto
  <2> QED
    BY <2>1, ElsewhereUpToDate DEF Resumed
<1>2. CASE RecordList(t) /\ ~Return(t)
  <2> DEFINE A == attempts[req[t].op]
  <2>1. /\ pc'[t] = "create" /\ req'[t].op = req[t].op /\ req'[t].kind = req[t].kind
        /\ req'[t].draft.seq = Cardinality(A) + 1
        /\ req'[t].draft.state = req[t].draft.state
        /\ req'[t].draft.deleted = req[t].draft.deleted
        /\ req'[t].draft.occurred_at =
                IF req[t].kind = "prepare" THEN clock ELSE req[t].draft.occurred_at
    BY <1>0, <1>2, ListRoute
  <2>2. attempts'[req'[t].op] = A
    BY <1>2, <2>1 DEF RecordList, evidenceVars
  <2>3. /\ Follows(A, req[t].draft)
        /\ \A a \in A : a.occurred_at <= req[t].draft.occurred_at
        /\ Plausible(req[t].draft)
        /\ req[t].kind = "prepare" => A = {}
    BY <1>0, <1>2 DEF RecordList, UpToDate
  <2> HIDE DEF A
  <2>4. Follows(A, req'[t].draft)
    BY <2>1, <2>3 DEF Follows
  <2>5. \A a \in A : a.occurred_at <= req'[t].draft.occurred_at
    BY <2>1, <2>3
  <2> QED
    BY <2>1, <2>2, <2>3, <2>4, <2>5 DEF UpToDate, Plausible, Resumed
<1> QED
  BY <1>1, <1>2

LEMMA PreparingUpToDate ==
    ASSUME HistoryInv, NEW t \in Appliers, PrepareFind(t) \/ PrepareTombstone(t)
    PROVE  UpToDate(t)'
<1>0. /\ pc \in [Appliers -> Points] /\ req \in [Appliers -> Request] /\ Located(t)
      /\ EvidenceInv
  BY Before DEF HistoryInv, EvidenceInv, OpsInv, TypeOK
<1>1. CASE PrepareFind(t)
  <2>1. CASE Goto(t, "tombstone", req[t]) \/ Return(t)
    <3>1. pc'[t] \in {"tombstone", "idle"}
      BY <1>0, <2>1 DEF Goto, Return
    <3> QED
      BY <3>1, ElsewhereUpToDate DEF Resumed
  <2>2. CASE attempts[req[t].op] = {} /\ Record(t, req[t], Draft("prepared", {}, 0))
    BY <1>0, <1>1, <2>2, FirstUpToDate DEF PrepareFind
  <2> QED
    BY <1>1, <2>1, <2>2 DEF PrepareFind
<1>2. CASE PrepareTombstone(t)
  <2>1. req[t].op \in Ops /\ prepared[req[t].op] = None
    BY <1>0, <1>2 DEF PrepareTombstone, Located
  <2>2. attempts[req[t].op] = {}
    BY <1>0, <2>1 DEF EvidenceInv
  <2> QED
    BY <1>0, <1>2, <2>2, FirstUpToDate DEF PrepareTombstone
<1> QED
  BY <1>1, <1>2

LEMMA ApplyingUpToDate ==
    ASSUME HistoryInv, NEW t \in Appliers,
           ApplyEarly(t) \/ ApplyEnter(t) \/ ApplyRead(t) \/ ApplyRepair(t)
    PROVE  UpToDate(t)'
<1> DEFINE A == attempts[req[t].op]
<1>0. /\ pc \in [Appliers -> Points] /\ req \in [Appliers -> Request] /\ Located(t)
      /\ UpToDate(t) /\ TypeOK /\ req[t] \in Request
  BY Before DEF HistoryInv, EvidenceInv, OpsInv, TypeOK
<1>1. req[t].op \in Ops /\ req[t].kind = "apply" /\ attempts' = attempts
  BY <1>0 DEF ApplyEarly, ApplyEnter, ApplyRead, ApplyRepair, Located, Critical, evidenceVars
<1>2. A \in SUBSET Attempt /\ Numbered(A) /\ req[t].at \in Nat
  BY <1>0, <1>1, LeaseAssumption DEF TypeOK, HistoryInv, Request, Instant
<1>3. \A a \in A : a.occurred_at \in Nat /\ a.state \in States
  BY <1>2, LeaseAssumption DEF Attempt, Instant
<1>4. CASE ApplyEnter(t) \/ Return(t)
  <2>1. pc'[t] \in {"read", "idle"}
    BY <1>0, <1>4 DEF ApplyEnter, Return, Goto
  <2> QED
    BY <2>1, ElsewhereUpToDate DEF Resumed
<1>5. CASE A = {} /\ Record(t, req[t], Reconstructed(req[t].op))
  BY <1>0, <1>1, <1>5, FirstUpToDate DEF Reconstructed
<1>6. ASSUME A # {}, ~BehindHistory(t, A), NEW a \in A PROVE a.occurred_at <= req[t].at
  BY <1>2, <1>3, <1>6, LatestBounds DEF BehindHistory
<1>7. CASE /\ pc[t] = "early" /\ A # {} /\ ~BehindHistory(t, A)
           /\ Latest(A).state \notin {"refused", "partial", "completed"}
           /\ Record(t, req[t], Draft("not_ready", {}, req[t].at))
  <2> DEFINE d == Draft("not_ready", {}, req[t].at)
  <2>1. pc'[t] = "list" /\ req'[t] = [req[t] EXCEPT !.draft = d]
    BY <1>0, <1>7 DEF Record, Goto
  <2>2. req'[t].op = req[t].op /\ req'[t].draft = d /\ req'[t].kind = "apply"
    BY <1>0, <1>1, <2>1 DEF Request
  <2>3. d.state = "not_ready" /\ d.deleted = {} /\ d.occurred_at = req[t].at
    BY DEF Draft
  <2>4. Latest(A).state \in {"prepared", "not_ready"}
    BY <1>2, <1>3, <1>7, LatestExists DEF States
  <2>5. Latest(A).deleted = {}
    BY <1>2, <1>7, <2>4, LatestExists DEF Numbered, Plausible
  <2>6. ASSUME NEW b \in A
        PROVE  Rank(b.state) <= Rank("not_ready") /\ b.deleted = {} /\ b.state # "completed"
    <3>1. /\ Rank(b.state) <= Rank(Latest(A).state) /\ b.deleted \subseteq Latest(A).deleted
          /\ b.state = "completed" => Latest(A).state = "completed"
      BY <1>2, <1>7, LatestBounds
    <3>2. b.state \in States
      BY <1>3
    <3> QED
      BY <2>4, <2>5, <3>1, <3>2 DEF Rank, States
  <2>7. Follows(A, d)
    BY <1>7, <2>3, <2>6 DEF Follows
  <2>8. \A a \in A : a.occurred_at <= d.occurred_at
    BY <1>6, <1>7, <2>3
  <2>9. attempts'[req'[t].op] = A
    BY <1>1, <2>2
  <2> HIDE DEF A, d
  <2> QED
    BY <2>1, <2>2, <2>3, <2>7, <2>8, <2>9 DEF UpToDate, Plausible, Resumed
<1>8. CASE /\ pc[t] = "read" /\ A # {} /\ ~BehindHistory(t, A) /\ Latest(A).state # "completed"
           /\ Goto(t, "repair", req[t])
  <2>1. pc'[t] = "repair" /\ req'[t] = req[t]
    BY <1>0, <1>8 DEF Goto
  <2>2. \A a \in A : a.state # "completed"
    BY <1>2, <1>8, LatestBounds
  <2> QED
    BY <1>1, <1>6, <1>8, <2>1, <2>2 DEF UpToDate, Resumed
<1>9. CASE ApplyRepair(t) /\ ~Return(t)
  <2> DEFINE gone == Latest(A).deleted
             new == [req[t] EXCEPT !.gone = gone]
  <2>1. PICK point \in {"relist", "relist_empty"} : Goto(t, point, new)
    BY <1>9 DEF ApplyRepair
  <2>2. pc'[t] = point /\ req'[t] = new
    BY <1>0, <2>1 DEF Goto
  <2>3. req'[t].op = req[t].op /\ req'[t].gone = gone /\ req'[t].at = req[t].at
    BY <1>0, <2>2 DEF Request
  <2>4. pc[t] = "repair" /\ A # {}
    BY <1>0, <1>9 DEF ApplyRepair, Located
  <2>5. \A a \in A : a.deleted \subseteq gone
    BY <1>2, <2>4, LatestBounds
  <2>6. \A a \in A : a.occurred_at <= req[t].at /\ a.state # "completed"
    BY <1>0, <2>4 DEF UpToDate
  <2>7. audits'[req'[t].op] = A /\ attempts'[req'[t].op] = A
    BY <1>0, <1>1, <1>9, <2>3 DEF ApplyRepair, RepairedAudits, TypeOK, Return
  <2> HIDE DEF A, gone, new
  <2> QED
    BY <2>2, <2>3, <2>4, <2>5, <2>6, <2>7 DEF UpToDate, Resumed
<1> QED
  BY <1>4, <1>5, <1>7, <1>8, <1>9 DEF ApplyEarly, ApplyRead

\* A resumed apply goes on with no less gone, or starts to record a result.
LEMMA ResumedMoves ==
    ASSUME OpsInv, NEW t \in Appliers, pc[t] \in Resumed, Step(t)
    PROVE  /\ UNCHANGED evidenceVars /\ lock' = lock
           /\ \/ /\ pc'[t] \in Resumed
                 /\ req'[t].op = req[t].op /\ req'[t].at = req[t].at
                 /\ req[t].gone \subseteq req'[t].gone
              \/ \E locals \in Request, gone \in SUBSET ObjectRecord,
                    state \in {"refused", "partial", "completed"} :
                    /\ locals.op = req[t].op /\ locals.kind = "apply"
                    /\ req[t].gone \subseteq gone
                    /\ state = "partial" => gone # {}
                    /\ Record(t, locals, Draft(state, gone, req[t].at))
<1> DEFINE Recorded ==
        \E locals \in Request, gone \in SUBSET ObjectRecord,
           state \in {"refused", "partial", "completed"} :
              /\ locals.op = req[t].op /\ locals.kind = "apply"
              /\ req[t].gone \subseteq gone
              /\ state = "partial" => gone # {}
              /\ Record(t, locals, Draft(state, gone, req[t].at))
           Onward == /\ pc'[t] \in Resumed
                     /\ req'[t].op = req[t].op /\ req'[t].at = req[t].at
                     /\ req[t].gone \subseteq req'[t].gone
<1>0. /\ pc \in [Appliers -> Points] /\ req \in [Appliers -> Request] /\ req[t] \in Request
      /\ pc[t] \in Critical
  BY Before DEF OpsInv, TypeOK, Resumed, Critical
<1>1. /\ req[t].kind = "apply" /\ req[t].gone \in SUBSET ObjectRecord
      /\ req[t].batch \in SUBSET ObjectRecord
  BY <1>0, InsideApply
<1>2. ASSUME NEW gone \in SUBSET ObjectRecord, req[t].gone \subseteq gone, RecordFailure(t, gone)
      PROVE  Recorded
  <2> DEFINE locals == [req[t] EXCEPT !.gone = gone, !.batch = {}]
             state == IF gone = {} THEN "refused" ELSE "partial"
  <2>1. locals \in Request /\ locals.op = req[t].op /\ locals.kind = "apply"
    BY <1>0, <1>1 DEF Request
  <2>2. Record(t, locals, Draft(state, gone, req[t].at))
    BY <1>2 DEF RecordFailure
  <2>3. state \in {"refused", "partial", "completed"} /\ (state = "partial" => gone # {})
    OBVIOUS
  <2> HIDE DEF locals, state
  <2> QED
    BY <1>2, <2>1, <2>2, <2>3
<1>3. ASSUME Record(t, req[t], Draft("completed", req[t].gone, req[t].at)) PROVE Recorded
  BY <1>0, <1>1, <1>3
<1>4. ASSUME Refuse(t) PROVE Recorded
  BY <1>0, <1>1, <1>4 DEF Refuse
<1>5. CASE Relist(t) \/ Reevaluate(t) \/ RelistEmpty(t) \/ RevalidationFails(t)
  <2>1. UNCHANGED evidenceVars /\ lock' = lock
    BY <1>5 DEF Relist, Reevaluate, RelistEmpty, RevalidationFails, leaseVars
  <2>2. CASE ~Refuse(t)
    <3>1. /\ pc'[t] \in {"reevaluate", "head", "postflight"}
          /\ req'[t].op = req[t].op /\ req'[t].at = req[t].at /\ req'[t].gone = req[t].gone
      BY <1>0, <1>5, <2>2, RevalidationMoves
    <3>2. Onward
      BY <3>1 DEF Resumed
    <3> QED
      BY <2>1, <3>2
  <2> QED
    BY <1>4, <2>1, <2>2
<1>6. CASE \/ HeadBatch(t) \/ DeleteConfirmed(t) \/ DeletePartial(t) \/ DeleteLost(t)
           \/ Postflight(t) \/ Deadline(t)
  <2>1. UNCHANGED evidenceVars /\ lock' = lock
    BY <1>6
    DEF HeadBatch, DeleteConfirmed, DeletePartial, DeleteLost, Postflight, Deadline, leaseVars
  <2>2. CASE RecordFailure(t, req[t].gone)
    BY <1>1, <1>2, <2>1, <2>2
  <2>3. CASE DeletePartial(t)
    <3>1. PICK done \in SUBSET req[t].batch : RecordFailure(t, req[t].gone \cup done)
      BY <2>3 DEF DeletePartial
    <3> QED
      BY <1>1, <1>2, <2>1, <3>1
  <2>4. CASE DeleteConfirmed(t)
    <3>1. /\ pc'[t] = "head" /\ req'[t].op = req[t].op /\ req'[t].at = req[t].at
          /\ req'[t].gone = req[t].gone \cup req[t].batch
      BY <1>0, <2>4 DEF DeleteConfirmed, Goto, Request
    <3>2. Onward
      BY <3>1 DEF Resumed
    <3> QED
      BY <2>1, <3>2
  <2>5. CASE HeadBatch(t) /\ ~RecordFailure(t, req[t].gone)
    <3>1. /\ pc'[t] \in {"postflight", "delete"} /\ req'[t].op = req[t].op
          /\ req'[t].at = req[t].at /\ req'[t].gone = req[t].gone
      <4>1. CASE Goto(t, "postflight", req[t])
        BY <1>0, <4>1 DEF Goto
      <4>2. CASE Goto(t, "delete", [req[t] EXCEPT !.batch = NextBatch(t)])
        BY <1>0, <4>2 DEF Goto, Request
      <4> QED
        BY <2>5, <4>1, <4>2 DEF HeadBatch
    <3>2. Onward
      BY <3>1 DEF Resumed
    <3> QED
      BY <2>1, <3>2
  <2>6. CASE Postflight(t) /\ ~RecordFailure(t, req[t].gone)
    BY <1>3, <2>1, <2>6 DEF Postflight
  <2> QED
    BY <1>6, <2>2, <2>3, <2>4, <2>5, <2>6 DEF DeleteLost, Deadline
<1>7. /\ ~(PlanLease(t) \/ PlanEvaluate(t) \/ RecordList(t) \/ RecordCreate(t) \/ RecordAudit(t))
      /\ ~(PrepareFind(t) \/ PrepareTombstone(t))
      /\ ~(ApplyEarly(t) \/ ApplyEnter(t) \/ ApplyRead(t) \/ ApplyRepair(t))
  BY DEF Resumed, PlanLease, PlanEvaluate, RecordList, RecordCreate, RecordAudit, PrepareFind,
         PrepareTombstone, ApplyEarly, ApplyEnter, ApplyRead, ApplyRepair
<1> QED
  BY <1>5, <1>6, <1>7 DEF Step

LEMMA ResumedUpToDate ==
    ASSUME HistoryInv, NEW t \in Appliers, pc[t] \in Resumed, Step(t)
    PROVE  UpToDate(t)'
<1>0. OpsInv
  BY DEF HistoryInv, EvidenceInv
<1>1. CASE /\ pc'[t] \in Resumed
           /\ req'[t].op = req[t].op /\ req'[t].at = req[t].at
           /\ req[t].gone \subseteq req'[t].gone
  BY <1>0, <1>1, ResumedMoves, ResumedGoesOn
<1>2. CASE ~(/\ pc'[t] \in Resumed
             /\ req'[t].op = req[t].op /\ req'[t].at = req[t].at
             /\ req[t].gone \subseteq req'[t].gone)
  BY <1>0, <1>2, ResumedMoves, ResumedRecords
<1> QED
  BY <1>1, <1>2

\* A request that starts, plans or is aborted is not at the history.
LEMMA OutsidePoints ==
    ASSUME NEW t \in Appliers, pc \in [Appliers -> Points],
           Start(t) \/ PlanLease(t) \/ PlanEvaluate(t) \/ Abort(t)
    PROVE  pc'[t] \in {"plan_lease", "plan_terminal", "find", "enter", "early", "idle"}
<1>1. CASE Start(t)
  <2>1. PICK o \in Ops : PlanInventory(t, o) \/ PrepareStart(t, o) \/ ApplyStart(t, o)
    BY <1>1 DEF Start
  <2> QED
    BY <2>1 DEF PlanInventory, PrepareStart, ApplyStart, Goto
<1>2. CASE PlanLease(t) \/ PlanEvaluate(t) \/ Abort(t)
  BY <1>2 DEF PlanLease, PlanEvaluate, Abort, Return, Goto
<1> QED
  BY <1>1, <1>2

LEMMA ThreadUpToDate ==
    ASSUME HistoryInv, NEW t \in Appliers, Start(t) \/ Step(t) \/ Abort(t)
    PROVE  UpToDate(t)'
<1>0. pc \in [Appliers -> Points]
  BY DEF HistoryInv, EvidenceInv, OpsInv, TypeOK
<1>1. CASE Start(t) \/ PlanLease(t) \/ PlanEvaluate(t) \/ Abort(t)
  BY <1>0, <1>1, OutsidePoints, ElsewhereUpToDate DEF Resumed
<1>2. CASE Step(t) /\ pc[t] \in Resumed
  BY <1>2, ResumedUpToDate
<1> QED
  BY <1>1, <1>2, RecordingUpToDate, PreparingUpToDate, ApplyingUpToDate
  DEF Step, Resumed, Relist, Reevaluate, RelistEmpty, RevalidationFails, HeadBatch,
      DeleteConfirmed, DeletePartial, DeleteLost, Postflight, Deadline

LEMMA HistoryInvNext ==
    ASSUME \A t, u \in Appliers : t = u, HistoryInv, [Next]_vars
    PROVE  HistoryInv'
<1>0. EvidenceInv /\ EvidenceInv' /\ OpsInv /\ TypeOK
  BY EvidenceInvNext DEF HistoryInv, EvidenceInv, OpsInv
<1>1. ASSUME UNCHANGED <<evidenceVars, threadVars>> PROVE HistoryInv'
  <2>1. UNCHANGED <<attempts, audits, pc, req>>
    BY <1>1 DEF evidenceVars, threadVars
  <2>2. \A t \in Appliers : UpToDate(t)'
    BY <2>1 DEF HistoryInv, UpToDate
  <2> QED
    BY <1>0, <2>1, <2>2 DEF HistoryInv
<1>2. CASE \/ LeaseNext /\ UNCHANGED <<storeVars, evidenceVars, threadVars>>
           \/ \E w \in Writers, k \in Keys : Write(w, k)
           \/ \E k \in Keys : LateDelete(k)
           \/ UNCHANGED vars
  BY <1>1, <1>2 DEF Write, LateDelete, vars
<1>3. ASSUME NEW t \in Appliers, Start(t) \/ Step(t) \/ Abort(t) PROVE HistoryInv'
  <2>1. \A u \in Appliers : UpToDate(u)'
    BY <1>3, ThreadUpToDate
  <2>2. Effect(t)
    BY <1>0, <1>3, ThreadEffect
  <2>3. ASSUME NEW o \in Ops PROVE Numbered(attempts'[o])
    <3>1. CASE attempts'[o] = attempts[o]
      BY <3>1 DEF HistoryInv
    <3>2. CASE /\ pc[t] = "create" /\ o = req[t].op
               /\ attempts'[o] = attempts[o] \cup {req[t].draft}
      <4>1. UpToDate(t) /\ req[t].draft \in Attempt
        BY <1>0, Before DEF HistoryInv, Request
      <4>2. attempts[o] \in SUBSET Attempt /\ IsFiniteSet(attempts[o]) /\ Numbered(attempts[o])
        BY <1>0 DEF HistoryInv, OpsInv, TypeOK
      <4> QED
        BY <3>2, <4>1, <4>2, NumberedGrows DEF UpToDate
    <3> QED
      BY <2>2, <3>1, <3>2 DEF Effect
  <2> QED
    BY <1>0, <2>1, <2>3 DEF HistoryInv
<1> QED
  BY <1>2, <1>3 DEF Next

LEMMA HistoryInvInit == Init => HistoryInv
<1> SUFFICES ASSUME Init PROVE HistoryInv
  OBVIOUS
<1>1. EvidenceInv
  BY EvidenceInvInit
<1>2. Numbered({})
  BY FS_EmptySet DEF Numbered, InSequence
<1> QED
  BY <1>1, <1>2 DEF Init, HistoryInv, UpToDate, Resumed

\* Whoever applies an operation has read its tombstone, and only an apply records
\* more than that the operation is prepared.
Acting(t) ==
    /\ pc[t] \in Carrying /\ req[t].kind = "apply" => TombstoneReads(req[t].op)
    /\ pc[t] \in {"list", "create"} /\ req[t].draft.state # "prepared" => req[t].kind = "apply"

ActingInv ==
    /\ EvidenceInv
    /\ \A o \in Ops : \A a \in attempts[o] : a.state # "prepared" => TombstoneReads(o)
    /\ \A t \in Appliers : Acting(t)

\* A recording thread keeps its request.
LEMMA RecordKeeps ==
    ASSUME NEW t \in Appliers, pc \in [Appliers -> Points], req \in [Appliers -> Request],
           NEW locals \in Request, NEW draft, Record(t, locals, draft)
    PROVE  /\ pc'[t] = "list" /\ req'[t].op = locals.op /\ req'[t].kind = locals.kind
           /\ req'[t].at = locals.at /\ req'[t].draft = draft
BY DEF Record, Goto, Request

LEMMA PreparingKeeps ==
    ASSUME NEW t \in Appliers, pc \in [Appliers -> Points], req \in [Appliers -> Request],
           PrepareFind(t) \/ PrepareTombstone(t)
    PROVE  \/ pc'[t] \in {"idle", "tombstone"}
           \/ /\ pc'[t] = "list" /\ req'[t].op = req[t].op /\ req'[t].kind = req[t].kind
              /\ req'[t].draft.state = "prepared"
<1>1. Draft("prepared", {}, 0).state = "prepared"
  BY DEF Draft
<1>2. CASE Record(t, req[t], Draft("prepared", {}, 0))
  BY <1>1, <1>2, RecordKeeps
<1>3. CASE ~Record(t, req[t], Draft("prepared", {}, 0))
  BY <1>3 DEF PrepareFind, PrepareTombstone, Return, Goto
<1> QED
  BY <1>2, <1>3

LEMMA ApplyingKeeps ==
    ASSUME NEW t \in Appliers, pc \in [Appliers -> Points], req \in [Appliers -> Request],
           ApplyEarly(t) \/ ApplyEnter(t) \/ ApplyRead(t) \/ ApplyRepair(t)
    PROVE  \/ pc'[t] = "idle"
           \/ /\ pc'[t] \in {"read", "repair", "relist", "relist_empty", "list"}
              /\ req'[t].op = req[t].op /\ req'[t].kind = req[t].kind
              /\ req'[t].at = req[t].at
              /\ pc'[t] = "list" => req'[t].draft.state \in {"prepared", "not_ready"}
<1>0. req[t] \in Request
  OBVIOUS
<1>1. ASSUME NEW draft, draft.state \in {"prepared", "not_ready"}, Record(t, req[t], draft)
      PROVE  /\ pc'[t] = "list" /\ req'[t].op = req[t].op /\ req'[t].kind = req[t].kind
             /\ req'[t].at = req[t].at /\ req'[t].draft.state \in {"prepared", "not_ready"}
  BY <1>0, <1>1, RecordKeeps
<1>2. /\ Reconstructed(req[t].op).state = "prepared"
      /\ Draft("not_ready", {}, req[t].at).state = "not_ready"
  BY DEF Reconstructed, Draft
<1>3. CASE ApplyEarly(t)
  <2>1. \/ Record(t, req[t], Reconstructed(req[t].op))
        \/ Return(t)
        \/ Record(t, req[t], Draft("not_ready", {}, req[t].at))
    BY <1>3 DEF ApplyEarly
  <2>2. Return(t) => pc'[t] = "idle"
    BY DEF Return, Goto
  <2> QED
    BY <1>1, <1>2, <2>1, <2>2
<1>4. CASE ApplyEnter(t)
  BY <1>4 DEF ApplyEnter, Goto
<1>5. CASE ApplyRead(t)
  <2>1. \/ Record(t, req[t], Reconstructed(req[t].op))
        \/ Return(t)
        \/ Goto(t, "repair", req[t])
    BY <1>5 DEF ApplyRead
  <2>2. /\ Return(t) => pc'[t] = "idle"
        /\ Goto(t, "repair", req[t]) => pc'[t] = "repair" /\ req'[t] = req[t]
    BY DEF Return, Goto
  <2> QED
    BY <1>1, <1>2, <2>1, <2>2
<1>6. CASE ApplyRepair(t)
  <2> DEFINE new == [req[t] EXCEPT !.gone = Latest(attempts[req[t].op]).deleted]
  <2>1. new.op = req[t].op /\ new.kind = req[t].kind /\ new.at = req[t].at
    BY <1>0 DEF Request
  <2>2. Return(t) \/ \E point \in {"relist", "relist_empty"} : Goto(t, point, new)
    BY <1>6 DEF ApplyRepair
  <2> HIDE DEF new
  <2> QED
    BY <2>1, <2>2 DEF Return, Goto
<1> QED
  BY <1>3, <1>4, <1>5, <1>6

\* A resumed apply stays one.
LEMMA ResumedKeeps ==
    ASSUME OpsInv, NEW t \in Appliers, pc[t] \in Resumed, Step(t)
    PROVE  req'[t].op = req[t].op /\ req'[t].kind = "apply" /\ req[t].kind = "apply"
<1>0. /\ pc \in [Appliers -> Points] /\ req \in [Appliers -> Request] /\ req[t] \in Request
      /\ pc[t] \in Critical /\ req[t].kind = "apply"
  BY Before, InsideApply DEF OpsInv, TypeOK, Resumed, Critical
<1>1. WellTyped(t)
  BY ThreadTyped
<1>2. CASE pc'[t] \in Resumed /\ req'[t].op = req[t].op
  BY <1>0, <1>1, <1>2 DEF WellTyped, Located, Resumed, Critical
<1>3. CASE ~(pc'[t] \in Resumed /\ req'[t].op = req[t].op)
  BY <1>0, <1>3, ResumedMoves, RecordKeeps
<1> QED
  BY <1>2, <1>3

LEMMA ThreadActing ==
    ASSUME OpsInv, NEW t \in Appliers, Acting(t), Start(t) \/ Step(t) \/ Abort(t)
    PROVE  Acting(t)'
<1>0. /\ pc \in [Appliers -> Points] /\ req \in [Appliers -> Request] /\ req[t] \in Request
      /\ Located(t) /\ Grows
  BY Before, ThreadTyped DEF OpsInv, TypeOK, WellTyped
<1>1. ASSUME pc'[t] \notin Carrying PROVE Acting(t)'
  BY <1>1 DEF Acting, Carrying, Writing
<1>2. ASSUME pc[t] \in Carrying \cup {"find", "tombstone"},
             req'[t].op = req[t].op, req'[t].kind = req[t].kind
      PROVE  pc'[t] \in Carrying /\ req'[t].kind = "apply" => TombstoneReads(req[t].op)'
  <2>1. req[t].kind = "apply" =>
            /\ pc[t] \in Carrying /\ req[t].op \in Ops /\ prepared[req[t].op] # None
    BY <1>0, <1>2 DEF Located, Carrying, Critical, Writing
  <2> QED
    BY <1>0, <1>2, <2>1 DEF Acting, TombstoneReads, Grows
<1>3. CASE Start(t)
  <2>1. PICK o \in Ops : PlanInventory(t, o) \/ PrepareStart(t, o) \/ ApplyStart(t, o)
    BY <1>3 DEF Start
  <2>2. CASE PlanInventory(t, o) \/ PrepareStart(t, o)
    BY <1>0, <1>1, <2>2 DEF PlanInventory, PrepareStart, Goto, Carrying, Critical, Writing
  <2>3. CASE ApplyStart(t, o)
    <3>1. pc'[t] \in {"enter", "early"} /\ req'[t].op = o
      BY <1>0, <2>3, NoRequestType DEF ApplyStart, Goto, Request
    <3>2. TombstoneReads(o) /\ prepared' = prepared
      BY <2>3 DEF ApplyStart, evidenceVars
    <3> QED
      BY <3>1, <3>2 DEF Acting, TombstoneReads
  <2> QED
    BY <2>1, <2>2, <2>3
<1>4. CASE PlanLease(t) \/ PlanEvaluate(t) \/ Abort(t)
  <2>1. pc'[t] \in {"plan_terminal", "idle"}
    BY <1>0, <1>4 DEF PlanLease, PlanEvaluate, Abort, Return, Goto
  <2> QED
    BY <1>1, <2>1 DEF Carrying, Critical, Writing
<1>5. CASE PrepareFind(t) \/ PrepareTombstone(t)
  <2>1. pc[t] \in {"find", "tombstone"}
    BY <1>5 DEF PrepareFind, PrepareTombstone
  <2>2. CASE pc'[t] \in {"idle", "tombstone"}
    BY <1>1, <2>2 DEF Carrying, Critical, Writing
  <2>3. CASE ~(pc'[t] \in {"idle", "tombstone"})
    BY <1>0, <1>2, <1>5, <2>1, <2>3, PreparingKeeps DEF Acting
  <2> QED
    BY <2>2, <2>3
<1>6. CASE ApplyEarly(t) \/ ApplyEnter(t) \/ ApplyRead(t) \/ ApplyRepair(t)
  <2>1. pc[t] \in Carrying /\ req[t].kind = "apply"
    BY <1>0, <1>6
    DEF ApplyEarly, ApplyEnter, ApplyRead, ApplyRepair, Located, Carrying, Critical
  <2>2. CASE pc'[t] = "idle"
    BY <1>1, <2>2 DEF Carrying, Critical, Writing
  <2>3. CASE ~(pc'[t] = "idle")
    BY <1>0, <1>2, <1>6, <2>1, <2>3, ApplyingKeeps DEF Acting
  <2> QED
    BY <2>2, <2>3
<1>7. CASE Step(t) /\ pc[t] \in Resumed
  BY <1>2, <1>7, ResumedKeeps DEF Acting, Resumed, Carrying, Critical
<1>8. CASE RecordList(t) \/ RecordCreate(t) \/ RecordAudit(t)
  <2>1. CASE Return(t)
    BY <1>0, <1>1, <2>1 DEF Return, Goto, Carrying, Critical, Writing
  <2>2. CASE RecordList(t) /\ ~Return(t)
    <3>1. /\ pc'[t] = "create" /\ req'[t].op = req[t].op /\ req'[t].kind = req[t].kind
          /\ req'[t].draft.state = req[t].draft.state
      BY <1>0, <2>2, ListRoute
    <3>2. pc[t] = "list"
      BY <2>2 DEF RecordList
    <3> QED
      BY <1>2, <3>1, <3>2 DEF Acting, Carrying, Writing
  <2>3. CASE (RecordCreate(t) \/ RecordAudit(t)) /\ ~Return(t)
    <3>1. pc'[t] \in {"audit", "read", "early"} /\ req'[t] = req[t] /\ pc[t] \in Writing
      BY <1>0, <2>3 DEF RecordCreate, RecordAudit, Goto, Writing
    <3> QED
      BY <1>2, <3>1 DEF Acting, Carrying
  <2> QED
    BY <1>8, <2>1, <2>2, <2>3
<1> QED
  BY <1>3, <1>4, <1>5, <1>6, <1>7, <1>8
  DEF Step, Resumed, Relist, Reevaluate, RelistEmpty, RevalidationFails, HeadBatch,
      DeleteConfirmed, DeletePartial, DeleteLost, Postflight, Deadline

LEMMA ActingInvNext ==
    ASSUME ActingInv, [Next]_vars
    PROVE  ActingInv'
<1>0. EvidenceInv /\ EvidenceInv' /\ OpsInv /\ TypeOK
  BY EvidenceInvNext DEF ActingInv, EvidenceInv, OpsInv
<1>1. ASSUME UNCHANGED <<evidenceVars, threadVars>> PROVE ActingInv'
  BY <1>0, <1>1 DEF ActingInv, Acting, TombstoneReads, evidenceVars, threadVars
<1>2. CASE \/ LeaseNext /\ UNCHANGED <<storeVars, evidenceVars, threadVars>>
           \/ \E w \in Writers, k \in Keys : Write(w, k)
           \/ \E k \in Keys : LateDelete(k)
           \/ UNCHANGED vars
  BY <1>1, <1>2 DEF Write, LateDelete, vars
<1>3. ASSUME NEW t \in Appliers, Start(t) \/ Step(t) \/ Abort(t) PROVE ActingInv'
  <2>1. Effect(t) /\ Grows /\ Acting(t)' /\ Acting(t)
    BY <1>0, <1>3, ThreadEffect, ThreadTyped, ThreadActing DEF ActingInv, WellTyped
  <2>2. pc' = [pc EXCEPT ![t] = pc'[t]] /\ req' = [req EXCEPT ![t] = req'[t]]
    BY <1>0, <1>3, ThreadTyped, ThreadDisciplined DEF OpsInv, Disciplined, Moves, WellTyped
  <2>3. ASSUME NEW o \in Ops, prepared[o] # None, TombstoneReads(o) PROVE TombstoneReads(o)'
    BY <2>1, <2>3 DEF Grows, TombstoneReads
  <2>4. ASSUME NEW u \in Appliers PROVE Acting(u)'
    <3>1. CASE u = t
      BY <2>1, <3>1
    <3>2. CASE u # t
      <4>1. pc'[u] = pc[u] /\ req'[u] = req[u] /\ Acting(u) /\ Located(u)
        BY <1>0, <2>2, <3>2 DEF TypeOK, ActingInv, OpsInv
      <4>2. pc[u] \in Carrying /\ req[u].kind = "apply" =>
                req[u].op \in Ops /\ prepared[req[u].op] # None
        BY <4>1 DEF Located, Carrying, Critical, Writing
      <4> QED
        BY <2>3, <4>1, <4>2 DEF Acting
    <3> QED
      BY <3>1, <3>2
  <2>5. ASSUME NEW o \in Ops, NEW a \in attempts'[o], a.state # "prepared"
        PROVE  TombstoneReads(o)'
    <3>1. CASE a \in attempts[o]
      BY <1>0, <2>3, <2>5, <3>1 DEF ActingInv, EvidenceInv
    <3>2. CASE a \notin attempts[o]
      <4>1. pc[t] = "create" /\ o = req[t].op /\ a = req[t].draft
        BY <2>1, <2>5, <3>2 DEF Effect
      <4>2. TombstoneReads(o)
        BY <2>1, <2>5, <4>1 DEF Acting, Carrying, Writing
      <4>3. prepared[o] # None
        BY <1>0, <4>1, Before DEF Located, Writing
      <4> QED
        BY <2>3, <4>2, <4>3
    <3> QED
      BY <3>1, <3>2
  <2> QED
    BY <1>0, <2>4, <2>5 DEF ActingInv
<1> QED
  BY <1>2, <1>3 DEF Next

LEMMA ActingInvInit == Init => ActingInv
<1> SUFFICES ASSUME Init PROVE ActingInv
  OBVIOUS
<1>1. EvidenceInv
  BY EvidenceInvInit
<1> QED
  BY <1>1 DEF Init, ActingInv, Acting, Carrying, Critical, Writing

\* When an operation's requests come one at a time, its append-only history
\* can be read back whatever crashes, retries, lost deletes or clock corrections
\* come in between (operations.py _latest_status, _record_status), and so can the
\* tombstone of every operation on which more than its preparation was recorded
\* (_decode_prepared): one that was prepared behind its plan's time never acts.
THEOREM HistoryReadable ==
    ASSUME \A t, u \in Appliers : t = u
    PROVE  Spec => []HistoryStaysReadable
<1>1. HistoryInv /\ [Next]_vars => HistoryInv'
  BY HistoryInvNext
<1>2. ActingInv /\ [Next]_vars => ActingInv'
  BY ActingInvNext
<1>3. HistoryInv /\ ActingInv => HistoryStaysReadable
  BY DEF HistoryInv, ActingInv, EvidenceInv, Faithful, Numbered, Plausible, AttemptReads,
         HistoryReads, HistoryStaysReadable
<1> QED
  BY <1>1, <1>2, <1>3, HistoryInvInit, ActingInvInit, PTL DEF Spec

\* Under the same condition no object is deleted before every attempt of the
\* operation has its audit (operations.py _ensure_audit, _apply_locked).
THEOREM AuditsFirst ==
    ASSUME \A t, u \in Appliers : t = u
    PROVE  Spec => []AuditsPrecedeDeletion
<1>1. HistoryInv /\ [Next]_vars => HistoryInv'
  BY HistoryInvNext
<1>2. HistoryInv => AuditsPrecedeDeletion
  BY DEF HistoryInv, UpToDate, Resumed, AuditsPrecedeDeletion
<1> QED
  BY <1>1, <1>2, HistoryInvInit, PTL DEF Spec

-----------------------------------------------------------------------------
(* The results of an operation however many of its requests overlap.        *)

Outcomes == {"refused", "partial", "completed"}

\* What a thread inside the lock knows of the results, and what it is about to
\* record if it records one; a number is never above the next free one.
Ordered(t) ==
    LET R == Results(req[t].op)
        A == attempts[req[t].op]
        d == req[t].draft IN
    /\ pc[t] \in Resumed \cup {"repair"} =>
        \A a \in R : a.occurred_at <= req[t].at /\ a.state # "completed"
    /\ pc[t] \in Resumed => \A a \in R : a.deleted \subseteq req[t].gone
    /\ pc[t] = "create" => d.seq \in 1..(Cardinality(A) + 1)
    /\ pc[t] \in {"list", "create"} /\ d.state \in Outcomes =>
        /\ lock = t /\ req[t].kind = "apply"
        /\ \A a \in R : /\ a.deleted \subseteq d.deleted
                        /\ a.occurred_at <= d.occurred_at
                        /\ a.state # "completed"
                        /\ pc[t] = "create" => a.seq < d.seq

OrderInv ==
    /\ OpsInv
    /\ \A o \in Ops : \A a \in attempts[o] : a.seq \in 1..Cardinality(attempts[o])
    /\ ResultsInOrder
    /\ \A t \in Appliers : Ordered(t)

\* A history that reads has no two attempts of one number: it has as many
\* attempts as numbers, and every number.
LEMMA ReadableIsNumbered ==
    ASSUME NEW o \in Ops, attempts[o] \in SUBSET Attempt, IsFiniteSet(attempts[o]),
           \A a \in attempts[o] : a.seq \in 1..Cardinality(attempts[o]), HistoryReads(o)
    PROVE  Numbered(attempts[o])
<1> DEFINE A == attempts[o]
           n == Cardinality(A)
           f == [a \in A |-> a.seq]
<1>1. n \in Nat
  BY FS_CardinalityType
<1>2. f \in Surjection(A, 1..n)
  BY DEF HistoryReads, InSequence, Surjection
<1>3. Cardinality(1..n) = n
  <2> HIDE DEF n
  <2> QED
    BY <1>1, FS_Interval
<1>4. f \in Injection(A, 1..n)
  <2> HIDE DEF f
  <2> QED
    BY <1>2, <1>3, FS_SurjSameCardinalityImpliesInj
<1>5. \A a, b \in A : a.seq = b.seq => a = b
  BY <1>4 DEF Injection, IsInjective
<1> QED
  BY <1>5 DEF Numbered, HistoryReads, AttemptReads, Plausible

\* A thread at a point that says nothing of the results.
LEMMA ElsewhereOrdered ==
    ASSUME NEW t \in Appliers, pc'[t] \notin Resumed \cup {"repair", "list", "create"}
    PROVE  Ordered(t)'
BY DEF Ordered

\* A thread that is to record no result.
LEMMA NoOutcomeOrdered ==
    ASSUME NEW t \in Appliers, pc'[t] = "list", req'[t].draft.state \in {"prepared", "not_ready"}
    PROVE  Ordered(t)'
BY DEF Ordered, Resumed, Outcomes

LEMMA ResumedOrdered ==
    ASSUME OrderInv, NEW t \in Appliers, pc[t] \in Resumed, Step(t)
    PROVE  Ordered(t)'
<1>0. /\ OpsInv /\ Ordered(t) /\ UNCHANGED evidenceVars /\ lock' = lock
      /\ pc \in [Appliers -> Points] /\ req \in [Appliers -> Request]
  BY ResumedMoves DEF OrderInv, OpsInv, TypeOK
<1>1. lock = t
  BY <1>0 DEF OpsInv, ExclusionInv, Inside, Resumed, Critical
<1>2. \A a \in Results(req[t].op) :
            /\ a.occurred_at <= req[t].at /\ a.state # "completed"
            /\ a.deleted \subseteq req[t].gone
  BY <1>0 DEF Ordered
<1>3. CASE /\ pc'[t] \in Resumed
           /\ req'[t].op = req[t].op /\ req'[t].at = req[t].at
           /\ req[t].gone \subseteq req'[t].gone
  <2>1. Results(req[t].op)' = Results(req[t].op)
    BY <1>0, <1>3 DEF Results, evidenceVars
  <2> QED
    BY <1>2, <1>3, <2>1 DEF Ordered, Resumed
<1>4. CASE ~(/\ pc'[t] \in Resumed
             /\ req'[t].op = req[t].op /\ req'[t].at = req[t].at
             /\ req[t].gone \subseteq req'[t].gone)
  <2>1. PICK locals \in Request, gone \in SUBSET ObjectRecord, state \in Outcomes :
            /\ locals.op = req[t].op /\ locals.kind = "apply"
            /\ req[t].gone \subseteq gone
            /\ Record(t, locals, Draft(state, gone, req[t].at))
    BY <1>0, <1>4, ResumedMoves DEF Outcomes
  <2> DEFINE d == Draft(state, gone, req[t].at)
  <2>2. /\ pc'[t] = "list" /\ req'[t].op = req[t].op /\ req'[t].kind = "apply"
        /\ req'[t].draft = d
    BY <1>0, <2>1, RecordKeeps
  <2>3. d.deleted = gone /\ d.occurred_at = req[t].at
    BY DEF Draft
  <2>4. Results(req[t].op)' = Results(req[t].op)
    BY <1>0, <2>2 DEF Results, evidenceVars
  <2> HIDE DEF d
  <2> QED
    BY <1>0, <1>1, <1>2, <2>1, <2>2, <2>3, <2>4 DEF Ordered, Resumed
<1> QED
  BY <1>3, <1>4

LEMMA ApplyingOrdered ==
    ASSUME OrderInv, NEW t \in Appliers,
           ApplyEarly(t) \/ ApplyEnter(t) \/ ApplyRead(t) \/ ApplyRepair(t)
    PROVE  Ordered(t)'
<1> DEFINE A == attempts[req[t].op]
<1>0. /\ pc \in [Appliers -> Points] /\ req \in [Appliers -> Request] /\ Located(t)
      /\ Ordered(t) /\ OpsInv /\ TypeOK /\ req[t] \in Request
      /\ \A o \in Ops : IsFiniteSet(attempts[o])
  BY Before DEF OrderInv, OpsInv, TypeOK
<1>1. req[t].op \in Ops /\ attempts' = attempts
  BY <1>0 DEF ApplyEarly, ApplyEnter, ApplyRead, ApplyRepair, Located, Critical, evidenceVars
<1>2. A \in SUBSET Attempt /\ req[t].at \in Nat /\ \A a \in A : a.occurred_at \in Nat
  BY <1>0, <1>1, LeaseAssumption DEF TypeOK, Request, Instant, Attempt
<1>3. HistoryReads(req[t].op) => Numbered(A)
  BY <1>0, <1>1, <1>2, ReadableIsNumbered DEF OrderInv
<1>4. CASE pc'[t] \in {"idle", "read"}
  BY <1>4, ElsewhereOrdered DEF Resumed
<1>5. CASE pc'[t] = "list"
  BY <1>0, <1>5, ApplyingKeeps, NoOutcomeOrdered
<1>6. CASE pc'[t] = "repair"
  <2>1. ApplyRead(t) /\ Goto(t, "repair", req[t])
    BY <1>0, <1>6
    DEF ApplyEarly, ApplyEnter, ApplyRead, ApplyRepair, Record, Return, Goto
  <2>2. /\ A # {} /\ HistoryReads(req[t].op)
        /\ Latest(A).state # "completed" /\ ~BehindHistory(t, A)
    BY <1>0, <1>6, <2>1 DEF ApplyRead, Record, Return, Goto
  <2>3. req'[t] = req[t]
    BY <1>0, <2>1 DEF Goto
  <2>4. ASSUME NEW a \in A PROVE a.occurred_at <= req[t].at /\ a.state # "completed"
    BY <1>2, <1>3, <2>2, LatestBounds DEF BehindHistory
  <2>5. Results(req[t].op)' \subseteq A
    BY <1>1, <2>3 DEF Results
  <2> QED
    BY <1>6, <2>3, <2>4, <2>5 DEF Ordered, Resumed
<1>7. CASE pc'[t] \in {"relist", "relist_empty"}
  <2> DEFINE gone == Latest(A).deleted
             new == [req[t] EXCEPT !.gone = gone]
  <2>1. ApplyRepair(t) /\ ~Return(t)
    BY <1>0, <1>7
    DEF ApplyEarly, ApplyEnter, ApplyRead, ApplyRepair, Record, Return, Goto
  <2>2. pc[t] = "repair" /\ HistoryReads(req[t].op)
    BY <2>1 DEF ApplyRepair
  <2>3. req'[t] = new
    BY <1>0, <2>1 DEF ApplyRepair, Goto
  <2>4. req'[t].op = req[t].op /\ req'[t].gone = gone /\ req'[t].at = req[t].at
    BY <1>0, <2>3 DEF Request
  <2>5. A # {}
    BY <1>0, <2>2 DEF Located
  <2>6. \A a \in A : a.deleted \subseteq gone
    BY <1>2, <1>3, <2>2, <2>5, LatestBounds
  <2>7. \A a \in Results(req[t].op) : a.occurred_at <= req[t].at /\ a.state # "completed"
    BY <1>0, <2>2 DEF Ordered
  <2>8. Results(req[t].op)' = Results(req[t].op) /\ Results(req[t].op) \subseteq A
    BY <1>1, <2>4 DEF Results
  <2> HIDE DEF A, gone, new
  <2> QED
    BY <1>7, <2>4, <2>6, <2>7, <2>8 DEF Ordered, Resumed
<1> QED
  BY <1>0, <1>4, <1>5, <1>6, <1>7, ApplyingKeeps

LEMMA RecordingOrdered ==
    ASSUME OrderInv, NEW t \in Appliers, RecordList(t) \/ RecordCreate(t) \/ RecordAudit(t)
    PROVE  Ordered(t)'
<1>0. /\ pc \in [Appliers -> Points] /\ req \in [Appliers -> Request] /\ Ordered(t)
      /\ Located(t) /\ \A o \in Ops : IsFiniteSet(attempts[o])
  BY DEF OrderInv, OpsInv, TypeOK
<1>1. CASE RecordCreate(t) \/ RecordAudit(t) \/ Return(t)
  <2>1. pc'[t] \in {"audit", "read", "early", "idle"}
    BY <1>0, <1>1 DEF RecordCreate, RecordAudit, Return, Goto
  <2> QED
    BY <2>1, ElsewhereOrdered DEF Resumed
<1>2. CASE RecordList(t) /\ ~Return(t)
  <2> DEFINE o == req[t].op
             n == Cardinality(attempts[o])
             d == req[t].draft
  <2>1. /\ pc'[t] = "create" /\ lock' = lock
        /\ req'[t].op = o /\ req'[t].kind = req[t].kind
        /\ req'[t].draft.seq = n + 1
        /\ req'[t].draft.state = d.state
        /\ req'[t].draft.deleted = d.deleted
        /\ req[t].kind = "apply" => req'[t].draft.occurred_at = d.occurred_at
    BY <1>0, <1>2, ListRoute
  <2>2. o \in Ops /\ pc[t] = "list" /\ attempts' = attempts
    BY <1>0, <1>2 DEF RecordList, Located, evidenceVars
  <2>3. n \in Nat
    BY <1>0, <2>2, FS_CardinalityType
  <2>4. Results(req[t].op)' = Results(o) /\ Cardinality(attempts[req[t].op])' = n
    BY <2>1, <2>2 DEF Results
  <2>5. \A a \in Results(o) : a.seq \in 1..n
    BY <2>2 DEF Results, OrderInv
  <2>6. d.state \in Outcomes =>
            /\ lock = t /\ req[t].kind = "apply"
            /\ \A a \in Results(o) : /\ a.deleted \subseteq d.deleted
                                     /\ a.occurred_at <= d.occurred_at
                                     /\ a.state # "completed"
    BY <1>0, <2>2 DEF Ordered
  <2> HIDE DEF o, n, d
  <2>7. n + 1 \in 1..(n + 1) /\ \A a \in Results(o) : a.seq < n + 1
    BY <2>3, <2>5
  <2> QED
    BY <2>1, <2>4, <2>6, <2>7 DEF Ordered, Resumed
<1> QED
  BY <1>1, <1>2

LEMMA ThreadOrdered ==
    ASSUME OrderInv, NEW t \in Appliers, Start(t) \/ Step(t) \/ Abort(t)
    PROVE  Ordered(t)'
<1>0. pc \in [Appliers -> Points] /\ req \in [Appliers -> Request]
  BY DEF OrderInv, OpsInv, TypeOK
<1>1. CASE Start(t) \/ PlanLease(t) \/ PlanEvaluate(t) \/ Abort(t)
  BY <1>0, <1>1, OutsidePoints, ElsewhereOrdered DEF Resumed
<1>2. CASE PrepareFind(t) \/ PrepareTombstone(t)
  <2>1. CASE pc'[t] \in {"idle", "tombstone"}
    BY <2>1, ElsewhereOrdered DEF Resumed
  <2>2. CASE pc'[t] \notin {"idle", "tombstone"}
    <3>1. pc'[t] = "list" /\ req'[t].draft.state = "prepared"
      BY <1>0, <1>2, <2>2, PreparingKeeps
    <3> QED
      BY <3>1, NoOutcomeOrdered
  <2> QED
    BY <2>1, <2>2
<1>3. CASE Step(t) /\ pc[t] \in Resumed
  BY <1>3, ResumedOrdered
<1>4. CASE \/ Relist(t) \/ Reevaluate(t) \/ RelistEmpty(t) \/ RevalidationFails(t)
           \/ HeadBatch(t) \/ DeleteConfirmed(t) \/ DeletePartial(t) \/ DeleteLost(t)
           \/ Postflight(t) \/ Deadline(t)
  <2>1. pc[t] \in Resumed
    BY <1>4
    DEF Resumed, Relist, Reevaluate, RelistEmpty, RevalidationFails, HeadBatch,
        DeleteConfirmed, DeletePartial, DeleteLost, Postflight, Deadline
  <2>2. Step(t)
    BY <1>4 DEF Step
  <2> QED
    BY <1>3, <2>1, <2>2
<1> QED
  BY <1>1, <1>2, <1>4, RecordingOrdered, ApplyingOrdered DEF Step

\* A step of one thread leaves what another one knows in order: a result is
\* only recorded by the holder of the lock.
LEMMA OthersOrdered ==
    ASSUME OrderInv, NEW t \in Appliers, NEW u \in Appliers, u # t, Effect(t),
           LockDiscipline(t), pc'[u] = pc[u], req'[u] = req[u]
    PROVE  Ordered(u)'
<1> DEFINE o == req[u].op
<1>0. /\ Ordered(t) /\ Ordered(u) /\ Located(u) /\ Inside(u)
      /\ \A q \in Ops : IsFiniteSet(attempts[q])
  BY DEF OrderInv, OpsInv, ExclusionInv
<1>1. lock = u => lock' = u
  BY LeaseAssumption DEF LockDiscipline
<1>2. CASE pc[u] \notin Resumed \cup {"repair", "list", "create"}
  BY <1>2, ElsewhereOrdered
<1>3. CASE pc[u] \in Resumed \cup {"repair", "list", "create"}
  <2>1. o \in Ops
    BY <1>0, <1>3 DEF Located, Resumed
  <2>2. pc[u] = "create" => req[u].draft.seq \in 1..(Cardinality(attempts'[o]) + 1)
    <3>1. CASE attempts'[o] = attempts[o]
      BY <1>0, <3>1 DEF Ordered
    <3>2. CASE attempts'[o] = attempts[o] \cup {req[t].draft}
      <4>1. Cardinality(attempts[o]) \in Nat
        BY <1>0, <2>1, FS_CardinalityType
      <4>2. \/ Cardinality(attempts'[o]) = Cardinality(attempts[o])
            \/ Cardinality(attempts'[o]) = Cardinality(attempts[o]) + 1
        BY <1>0, <2>1, <3>2, FS_AddElement
      <4> QED
        BY <1>0, <4>1, <4>2 DEF Ordered
    <3> QED
      BY <2>1, <3>1, <3>2 DEF Effect
  <2>3. CASE Results(o)' = Results(o)
    BY <1>0, <1>1, <2>2, <2>3 DEF Ordered
  <2>4. CASE Results(o)' # Results(o)
    <3>1. /\ pc[t] = "create" /\ attempts'[o] = attempts[o] \cup {req[t].draft}
          /\ req[t].draft.state \in Outcomes
      BY <2>1, <2>4 DEF Effect, Results, Outcomes
    <3>2. lock = t
      BY <1>0, <3>1 DEF Ordered
    <3>3. pc[u] \notin Critical /\ lock # u
      BY <1>0, <3>2 DEF Inside
    <3>4. pc[u] \in {"list", "create"} /\ req[u].draft.state \notin Outcomes
      BY <1>0, <1>3, <3>3 DEF Ordered, Resumed, Critical
    <3> QED
      BY <2>2, <3>4 DEF Ordered, Resumed
  <2> QED
    BY <2>3, <2>4
<1> QED
  BY <1>2, <1>3

LEMMA OrderInvNext ==
    ASSUME OrderInv, [Next]_vars
    PROVE  OrderInv'
<1>0. OpsInv /\ OpsInv' /\ TypeOK
  BY OpsInvNext DEF OrderInv, OpsInv
<1>1. ASSUME UNCHANGED <<evidenceVars, threadVars>>,
             \A t \in Appliers : lock = t => lock' = t
      PROVE  OrderInv'
  <2>1. UNCHANGED <<attempts, pc, req>>
    BY <1>1 DEF evidenceVars, threadVars
  <2>2. ResultsInOrder'
    BY <2>1 DEF OrderInv, ResultsInOrder, Results
  <2>3. \A t \in Appliers : Ordered(t)'
    BY <1>1, <2>1 DEF OrderInv, Ordered, Results
  <2> QED
    BY <1>0, <2>1, <2>2, <2>3 DEF OrderInv
<1>2. CASE LeaseNext /\ UNCHANGED <<storeVars, evidenceVars, threadVars>>
  BY <1>1, <1>2, LeaseHandlersExcluded
<1>3. CASE \/ \E w \in Writers, k \in Keys : Write(w, k)
           \/ \E k \in Keys : LateDelete(k)
           \/ UNCHANGED vars
  BY <1>1, <1>3 DEF Write, LateDelete, vars, leaseVars
<1>4. ASSUME NEW t \in Appliers, Start(t) \/ Step(t) \/ Abort(t) PROVE OrderInv'
  <2>1. Effect(t) /\ WellTyped(t) /\ LockDiscipline(t)
    BY <1>0, <1>4, ThreadEffect, ThreadTyped, ThreadDisciplined DEF OpsInv, Disciplined
  <2>2. pc' = [pc EXCEPT ![t] = pc'[t]] /\ req' = [req EXCEPT ![t] = req'[t]]
    BY <1>0, <1>4, <2>1, ThreadDisciplined DEF OpsInv, Disciplined, Moves, WellTyped
  <2>3. ASSUME NEW u \in Appliers PROVE Ordered(u)'
    <3>1. CASE u = t
      BY <1>4, <3>1, ThreadOrdered
    <3>2. CASE u # t
      BY <1>0, <2>1, <2>2, <3>2, OthersOrdered DEF TypeOK
    <3> QED
      BY <3>1, <3>2
  <2>4. Ordered(t) /\ req[t].draft \in Attempt
    BY <1>0, Before DEF OrderInv, Request
  <2>5. ASSUME NEW o \in Ops
        PROVE  \A a \in attempts'[o] : a.seq \in 1..Cardinality(attempts'[o])
    <3>0. /\ IsFiniteSet(attempts[o]) /\ Cardinality(attempts[o]) \in Nat
          /\ \A a \in attempts[o] : a.seq \in 1..Cardinality(attempts[o])
      BY <1>0, FS_CardinalityType DEF OpsInv, OrderInv
    <3>1. CASE attempts'[o] = attempts[o]
      BY <3>0, <3>1
    <3>2. CASE /\ pc[t] = "create" /\ o = req[t].op
               /\ attempts'[o] = attempts[o] \cup {req[t].draft}
               /\ req[t].draft \notin attempts[o]
      <4>1. req[t].draft.seq \in 1..(Cardinality(attempts[o]) + 1)
        BY <2>4, <3>2 DEF Ordered
      <4>2. Cardinality(attempts'[o]) = Cardinality(attempts[o]) + 1
        BY <3>0, <3>2, FS_AddElement
      <4> QED
        BY <3>0, <3>2, <4>1, <4>2
    <3> QED
      BY <2>1, <3>1, <3>2 DEF Effect
  <2>6. ASSUME NEW o \in Ops, NEW a \in Results(o)', NEW b \in Results(o)'
        PROVE  /\ a.seq = b.seq => a = b
               /\ a.seq < b.seq => /\ a.deleted \subseteq b.deleted
                                   /\ a.occurred_at <= b.occurred_at
                                   /\ a.state # "completed"
    <3>1. CASE a \in Results(o) /\ b \in Results(o)
      BY <3>1 DEF OrderInv, ResultsInOrder
    <3>2. CASE ~(a \in Results(o) /\ b \in Results(o))
      <4> DEFINE d == req[t].draft
      <4>1. /\ pc[t] = "create" /\ o = req[t].op /\ d.state \in Outcomes
            /\ a \in Results(o) \cup {d} /\ b \in Results(o) \cup {d}
        BY <2>1, <3>2 DEF Effect, Results, Outcomes
      <4>2. \A c \in Results(o) : /\ c.deleted \subseteq d.deleted
                                  /\ c.occurred_at <= d.occurred_at
                                  /\ c.state # "completed"
                                  /\ c.seq < d.seq
        BY <2>4, <4>1 DEF Ordered
      <4>3. d.seq \in Nat /\ \A c \in Results(o) : c.seq \in Nat
        BY <1>0, <2>4 DEF Attempt, Results, TypeOK
      <4> HIDE DEF d
      <4> QED
        BY <3>2, <4>1, <4>2, <4>3
    <3> QED
      BY <3>1, <3>2
  <2> QED
    BY <1>0, <2>3, <2>5, <2>6 DEF OrderInv, ResultsInOrder
<1> QED
  BY <1>2, <1>3, <1>4 DEF Next

LEMMA OrderInvInit == Init => OrderInv
<1> SUFFICES ASSUME Init PROVE OrderInv
  OBVIOUS
<1>1. OpsInv
  BY OpsInvInit
<1> QED
  BY <1>1 DEF Init, OrderInv, ResultsInOrder, Results, Ordered, Resumed

\* However many requests for one operation overlap, on clocks that may disagree,
\* its results are numbered apart, in the order of time, account for ever more
\* deletions and end with the completed one (operations.py _apply_locked under
\* the checkpoint's lock, _record_status).
THEOREM ResultsOrdered == Spec => []ResultsInOrder
<1>1. OrderInv /\ [Next]_vars => OrderInv'
  BY OrderInvNext
<1>2. OrderInv => ResultsInOrder
  BY DEF OrderInv
<1> QED
  BY <1>1, <1>2, OrderInvInit, PTL DEF Spec

-----------------------------------------------------------------------------
(* What is seen from outside: the journal of OperationJournal.              *)

\* A delete that may still arrive was sent by an operation on record.
JournalInv ==
    /\ HistoryInv
    /\ \A k \in inflight : \E o \in Ops :
        attempts[o] # {} /\ k \in KeysOf(prepared[o].records)

JournalStep == [Journal!JournalNext]_(Journal!journalVars)

\* The attempts of a history in the order of their numbers.
LEMMA HistoryInOrder ==
    ASSUME NEW A \in SUBSET Attempt, IsFiniteSet(A), Numbered(A)
    PROVE  /\ Cardinality(A) \in Nat
           /\ InOrder(A) \in [1..Cardinality(A) -> A]
           /\ \A a \in A : a.seq \in 1..Cardinality(A) /\ InOrder(A)[a.seq] = a
<1> DEFINE n == Cardinality(A)
<1>1. n \in Nat
  BY FS_CardinalityType
<1>2. \A i \in 1..n : (CHOOSE a \in A : a.seq = i) \in A
  BY DEF Numbered, InSequence
<1>3. \A a \in A : a.seq \in 1..n /\ (CHOOSE b \in A : b.seq = a.seq) = a
  BY DEF Numbered
<1> HIDE DEF n
<1>4. InOrder(A) = [i \in 1..n |-> CHOOSE a \in A : a.seq = i]
  BY DEF InOrder, n
<1>5. InOrder(A) \in [1..n -> A] /\ \A a \in A : a.seq \in 1..n /\ InOrder(A)[a.seq] = a
  BY <1>2, <1>3, <1>4
<1> QED
  BY <1>1, <1>5 DEF n

\* Seen as a sequence, its entries are its attempts and its last is the latest.
LEMMA JournalOf ==
    ASSUME HistoryInv, NEW o \in Ops
    PROVE  /\ History[o] = InOrder(attempts[o])
           /\ History[o] \in Seq(Attempt)
           /\ DOMAIN History[o] = 1..Cardinality(attempts[o])
           /\ Journal!Attempts(o) = attempts[o]
           /\ History[o] = <<>> <=> attempts[o] = {}
           /\ attempts[o] # {} => History[o][Len(History[o])] = Latest(attempts[o])
<1> DEFINE A == attempts[o]
           n == Cardinality(A)
<1>1. A \in SUBSET Attempt /\ IsFiniteSet(A) /\ Numbered(A)
  BY DEF HistoryInv, EvidenceInv, OpsInv, TypeOK
<1>2. History[o] = InOrder(A)
  BY DEF History
<1>3. /\ n \in Nat /\ InOrder(A) \in [1..n -> A]
      /\ \A a \in A : a.seq \in 1..n /\ InOrder(A)[a.seq] = a
  BY <1>1, HistoryInOrder
<1>4. A = {} <=> n = 0
  BY <1>1, FS_EmptySet
<1> HIDE DEF A, n
<1>5. InOrder(A) \in Seq(Attempt) /\ Len(InOrder(A)) = n /\ DOMAIN InOrder(A) = 1..n
  BY <1>1, <1>3
<1>6. {InOrder(A)[i] : i \in 1..n} = A
  BY <1>3
<1>7. InOrder(A) = <<>> <=> A = {}
  BY <1>3, <1>4, <1>5
<1>8. ASSUME A # {} PROVE InOrder(A)[n] = Latest(A)
  <2>1. Latest(A) \in A /\ \A b \in A : b.seq <= Latest(A).seq
    BY <1>1, <1>8, LatestExists
  <2>2. n \in 1..n /\ \E b \in A : b.seq = n
    BY <1>1, <1>3, <1>4, <1>8 DEF Numbered, InSequence, n
  <2>3. Latest(A).seq = n
    BY <1>3, <2>1, <2>2
  <2> QED
    BY <1>3, <2>1, <2>3
<1> QED
  BY <1>2, <1>5, <1>6, <1>7, <1>8 DEF Journal!Attempts, A, n

\* One more attempt is one more entry.
LEMMA OneMoreEntry ==
    ASSUME NEW A \in SUBSET Attempt, IsFiniteSet(A), Numbered(A), NEW d \in Attempt,
           d.seq = Cardinality(A) + 1, Numbered(A \cup {d})
    PROVE  InOrder(A \cup {d}) = Append(InOrder(A), d)
<1> DEFINE n == Cardinality(A)
           B == A \cup {d}
<1>1. /\ n \in Nat /\ InOrder(A) \in [1..n -> A]
      /\ \A a \in A : a.seq \in 1..n /\ InOrder(A)[a.seq] = a
  BY HistoryInOrder
<1>2. d \notin A /\ Cardinality(B) = n + 1
  <2>1. d \notin A
    BY <1>1
  <2> QED
    BY <2>1, FS_AddElement
<1>3. IsFiniteSet(B) /\ B \in SUBSET Attempt
  BY FS_AddElement
<1>4. /\ InOrder(B) \in [1..(n + 1) -> B]
      /\ \A a \in B : InOrder(B)[a.seq] = a
  BY <1>2, <1>3, HistoryInOrder
<1>5. \A i \in 1..n : InOrder(A)[i] \in A /\ InOrder(A)[i].seq = i
  <2> SUFFICES ASSUME NEW i \in 1..n PROVE InOrder(A)[i] \in A /\ InOrder(A)[i].seq = i
    OBVIOUS
  <2>1. PICK a \in A : a.seq = i
    BY DEF Numbered, InSequence
  <2> QED
    BY <1>1, <2>1
<1> HIDE DEF n, B
<1>6. d.seq = n + 1 /\ d \in B /\ A \subseteq B
  BY DEF n, B
<1>7. \A i \in 1..n : InOrder(B)[i] = InOrder(A)[i]
  BY <1>4, <1>5, <1>6
<1>8. InOrder(B)[n + 1] = d
  BY <1>4, <1>6
<1>9. InOrder(A) \in Seq(Attempt) /\ Len(InOrder(A)) = n
  BY <1>1
<1>10. /\ Append(InOrder(A), d) \in Seq(Attempt)
       /\ Len(Append(InOrder(A), d)) = n + 1
       /\ Append(InOrder(A), d)[n + 1] = d
       /\ \A i \in 1..n : Append(InOrder(A), d)[i] = InOrder(A)[i]
  BY <1>1, <1>9
<1>11. InOrder(B) \in Seq(Attempt) /\ Len(InOrder(B)) = n + 1
  BY <1>1, <1>3, <1>4
<1>12. \A i \in 1..(n + 1) : InOrder(B)[i] = Append(InOrder(A), d)[i]
  BY <1>1, <1>7, <1>8, <1>10
<1>13. InOrder(B) = Append(InOrder(A), d)
  BY <1>10, <1>11, <1>12
<1> QED
  BY <1>13 DEF B

-----------------------------------------------------------------------------
(* Each step as a step of the journal.                                      *)

LEMMA Unseen ==
    ASSUME UNCHANGED <<store, prepared, attempts>>
    PROVE  JournalStep
BY DEF JournalStep, Journal!journalVars, Inventory, Reviewed, History

\* A write makes a version that no attempt knows.
LEMMA WriteIsWritten ==
    ASSUME HistoryInv, NEW w \in Writers, NEW k \in Keys, Write(w, k)
    PROVE  JournalStep
<1> DEFINE r == [key |-> k, etag |-> writes', last_modified |-> clock]
<1>1. /\ writes \in Nat /\ writes' = writes + 1
      /\ store \in [Keys -> ObjectRecord \cup {None}]
      /\ store' = [store EXCEPT ![k] = r]
      /\ clock \in Instant /\ writes' \in 1..MaxWrites
  BY OperationsAssumption
  DEF HistoryInv, EvidenceInv, OpsInv, TypeOK, LeaseTypeOK, Write
<1>2. r \in ObjectRecord /\ r # None
  BY <1>1, AbsentAssumption DEF ObjectRecord
<1>3. \A j \in Keys : store[j] # None => store[j].key = j
  BY DEF HistoryInv, EvidenceInv
<1>4. Inventory' = {s \in Inventory : s.key # r.key} \cup {r}
  BY <1>1, <1>2, <1>3 DEF Inventory
<1>5. \A o \in Ops : \A a \in attempts[o] : r \notin a.deleted
  BY <1>1 DEF HistoryInv, EvidenceInv, Faithful, Dead, Known
<1>6. \A o \in Ops : \A a \in Journal!Attempts(o) : r \notin a.deleted
  BY <1>5, JournalOf
<1>7. UNCHANGED <<Reviewed, History>>
  BY DEF Write, evidenceVars, Reviewed, History
<1> HIDE DEF r
<1>8. Journal!Written(r)
  BY <1>4, <1>6, <1>7 DEF Journal!Written
<1>9. r \in Inventory'
  BY <1>4
<1> QED
  BY <1>8, <1>9 DEF JournalStep, Journal!JournalNext

\* A removal under keys of an operation on record is one of its deletes.
LEMMA RemovalIsDeleted ==
    ASSUME HistoryInv, NEW o \in Ops, attempts[o] # {}, UNCHANGED <<prepared, attempts>>,
           store' \in [Keys -> ObjectRecord \cup {None}],
           \A k \in Keys : \/ store'[k] = store[k]
                           \/ store'[k] = None /\ k \in KeysOf(prepared[o].records)
    PROVE  JournalStep
<1>1. /\ store \in [Keys -> ObjectRecord \cup {None}]
      /\ \A k \in Keys : store[k] # None => store[k].key = k
  BY DEF HistoryInv, EvidenceInv, OpsInv, TypeOK
<1>2. Inventory' \subseteq Inventory
  BY DEF Inventory
<1>3. ASSUME NEW r \in Inventory \ Inventory'
      PROVE  \E s \in prepared[o].records : s.key = r.key
  <2>1. PICK k \in Keys : r = store[k] /\ r # None
    BY <1>3 DEF Inventory
  <2>2. store'[k] # store[k] /\ r.key = k
    BY <1>1, <1>3, <2>1 DEF Inventory
  <2> QED
    BY <2>2 DEF KeysOf
<1>4. Reviewed[o] = prepared[o].records
  BY DEF HistoryInv, EvidenceInv, Reviewed
<1>5. History[o] # <<>>
  BY JournalOf
<1>6. UNCHANGED <<Reviewed, History>>
  BY DEF Reviewed, History
<1>7. Journal!Deleted(o)
  BY <1>2, <1>3, <1>4, <1>5, <1>6 DEF Journal!Deleted
<1> QED
  BY <1>7 DEF JournalStep, Journal!JournalNext

LEMMA TombstoneIsReviewed ==
    ASSUME HistoryInv, NEW t \in Appliers, PrepareTombstone(t)
    PROVE  JournalStep
<1> DEFINE o == req[t].op
           records == plan[o].records
           new == [evaluated_at |-> plan[o].evaluated_at, prepared_at |-> clock,
                   records |-> records]
<1>1. /\ o \in Ops /\ prepared[o] = None /\ plan[o] \in Plan /\ clock \in Instant
      /\ prepared \in [Ops -> Prepared \cup {None}]
      /\ prepared' = [prepared EXCEPT ![o] = new]
      /\ UNCHANGED <<store, attempts>>
  BY Before DEF HistoryInv, EvidenceInv, TypeOK, Located, PrepareTombstone, storeVars
<1>2. records \in SUBSET ObjectRecord /\ records # None
  BY <1>1, AbsentAssumption DEF Plan
<1>3. new # None /\ new.records = records
  BY <1>1, AbsentAssumption DEF Prepared, Plan
<1> HIDE DEF o, records, new
<1>4. Reviewed[o] = None /\ Reviewed' = [Reviewed EXCEPT ![o] = records]
  BY <1>1, <1>3 DEF Reviewed
<1>5. Reviewed'[o] = records
  BY <1>1, <1>4 DEF Reviewed
<1>6. UNCHANGED <<Inventory, History>>
  BY <1>1 DEF Inventory, History
<1>7. Journal!Reviewed(o, Reviewed'[o])
  BY <1>1, <1>2, <1>4, <1>5, <1>6 DEF Journal!Reviewed
<1> QED
  BY <1>1, <1>2, <1>5, <1>7 DEF JournalStep, Journal!JournalNext

LEMMA CreateIsAttempted ==
    ASSUME HistoryInv, HistoryInv', NEW t \in Appliers, RecordCreate(t)
    PROVE  JournalStep
<1>0. req[t].op \in Ops
  BY Before DEF HistoryInv, EvidenceInv, Located, RecordCreate
<1> SUFFICES ASSUME NEW o \in Ops, o = req[t].op, NEW d, d = req[t].draft PROVE JournalStep
  BY <1>0
<1> DEFINE A == attempts[o]
<1>1. /\ d \in Attempt /\ prepared[o] # None /\ pc[t] = "create"
      /\ prepared \in [Ops -> Prepared \cup {None}]
      /\ attempts \in [Ops -> SUBSET Attempt] /\ IsFiniteSet(A)
      /\ attempts' = [attempts EXCEPT ![o] = A \cup {d}]
      /\ UNCHANGED <<store, prepared>>
  BY Before
  DEF HistoryInv, EvidenceInv, TypeOK, Located, Request, RecordCreate, storeVars, Writing
<1>2. /\ Follows(A, d) /\ \A a \in A : a.occurred_at <= d.occurred_at
      /\ Plausible(d) /\ d.seq = Cardinality(A) + 1
  BY <1>1 DEF HistoryInv, UpToDate
<1>3. Numbered(A) /\ Numbered(A \cup {d})
  BY <1>1 DEF HistoryInv
<1>4. /\ d.deleted \subseteq prepared[o].records
      /\ d.deleted \cap Inventory = {}
      /\ d.state = "completed" => d.deleted = prepared[o].records
  BY <1>1 DEF HistoryInv, EvidenceInv, Honest, Dead, Carrying, Writing
<1>5. Reviewed[o] = prepared[o].records /\ Reviewed[o] # None
  BY <1>1, AbsentAssumption DEF Reviewed, Prepared
<1>6. UNCHANGED <<Inventory, Reviewed>>
  BY <1>1 DEF Inventory, Reviewed
<1>7. History' = [History EXCEPT ![o] = Append(History[o], d)]
  <2>1. InOrder(A \cup {d}) = Append(InOrder(A), d)
    BY <1>1, <1>2, <1>3, OneMoreEntry
  <2>2. \A p \in Ops \ {o} : attempts'[p] = attempts[p]
    BY <1>1
  <2>3. attempts'[o] = A \cup {d}
    BY <1>1
  <2> HIDE DEF A
  <2> QED
    BY <1>1, <2>1, <2>2, <2>3 DEF History, A
<1>8. /\ History[o] = <<>> <=> A = {}
      /\ A # {} => History[o][Len(History[o])] = Latest(A)
      /\ d \in Journal!Attempts(o)'
  <2>1. History'[o] = Append(History[o], d) /\ History[o] \in Seq(Attempt)
    BY <1>1, <1>7, JournalOf DEF History
  <2>2. /\ Len(History[o]) + 1 \in DOMAIN History'[o]
        /\ History'[o][Len(History[o]) + 1] = d
    BY <1>1, <2>1
  <2>3. d \in Journal!Attempts(o)'
    BY <2>2 DEF Journal!Attempts
  <2> QED
    BY <1>1, <2>3, JournalOf
<1>9. ASSUME A # {} PROVE Journal!MayFollow(Latest(A), d)
  <2>1. Latest(A) \in A /\ Latest(A).state \in States /\ d.state \in States
    BY <1>1, <1>9, LatestExists DEF Attempt
  <2>2. /\ Rank(Latest(A).state) <= Rank(d.state)
        /\ Latest(A).deleted \subseteq d.deleted /\ Latest(A).state # "completed"
        /\ Latest(A).occurred_at <= d.occurred_at
    BY <1>2, <2>1 DEF Follows
  <2>3. \A s \in States : Journal!Stage(s) = Rank(s)
    BY DEF States, Rank, Journal!Stage
  <2> QED
    BY <2>1, <2>2, <2>3 DEF Journal!MayFollow
<1>10. A = {} <=> d.state = "prepared"
  BY <1>2 DEF Follows
<1> HIDE DEF A
<1>11. Journal!Attempted(o, d)
  BY <1>2, <1>4, <1>5, <1>6, <1>7, <1>8, <1>9, <1>10 DEF Journal!Attempted, Plausible
<1>12. \E a \in Journal!Attempts(o)' : Journal!Attempted(o, a)
  BY <1>8, <1>11
<1> QED
  BY <1>1, <1>12 DEF JournalStep, Journal!JournalNext, Journal!Attempts

\* Where a step of a thread is seen.
SeenStep(t) ==
    \/ UNCHANGED <<store, prepared, attempts>>
    \/ /\ pc[t] = "delete" /\ UNCHANGED <<prepared, attempts>>
       /\ \E done \in SUBSET req[t].batch : Remove(done)
    \/ PrepareTombstone(t)
    \/ RecordCreate(t)

LEMMA ThreadSeen ==
    ASSUME NEW t \in Appliers, Start(t) \/ Step(t) \/ Abort(t)
    PROVE  SeenStep(t)
<1>1. CASE Start(t) \/ PlanLease(t) \/ PlanEvaluate(t) \/ Abort(t)
  BY <1>1
  DEF Start, PlanInventory, PrepareStart, ApplyStart, PlanLease, PlanEvaluate, Abort,
      SeenStep, storeVars, evidenceVars
<1>2. CASE \/ RecordList(t) \/ RecordCreate(t) \/ RecordAudit(t)
           \/ PrepareFind(t) \/ PrepareTombstone(t)
  BY <1>2 DEF RecordList, RecordAudit, PrepareFind, SeenStep, storeVars, evidenceVars
<1>3. CASE ApplyEarly(t) \/ ApplyEnter(t) \/ ApplyRead(t) \/ ApplyRepair(t)
  BY <1>3 DEF ApplyEarly, ApplyEnter, ApplyRead, ApplyRepair, SeenStep, storeVars, evidenceVars
<1>4. CASE \/ Relist(t) \/ Reevaluate(t) \/ RelistEmpty(t) \/ RevalidationFails(t)
           \/ HeadBatch(t) \/ Postflight(t) \/ Deadline(t)
  BY <1>4
  DEF Relist, Reevaluate, RelistEmpty, RevalidationFails, HeadBatch, Postflight, Deadline,
      SeenStep, storeVars, evidenceVars
<1>5. CASE DeleteConfirmed(t) \/ DeletePartial(t) \/ DeleteLost(t)
  <2>1. pc[t] = "delete" /\ UNCHANGED <<prepared, attempts>>
    BY <1>5 DEF DeleteConfirmed, DeletePartial, DeleteLost, evidenceVars
  <2>2. \E done \in SUBSET req[t].batch : Remove(done)
    BY <1>5 DEF DeleteConfirmed, DeletePartial, DeleteLost
  <2> QED
    BY <2>1, <2>2 DEF SeenStep
<1> QED
  BY <1>1, <1>2, <1>3, <1>4, <1>5 DEF Step

\* The operation of a thread that deletes is on record.
LEMMA DeleterOnRecord ==
    ASSUME HistoryInv, NEW t \in Appliers, pc[t] = "delete"
    PROVE  /\ req[t].op \in Ops /\ attempts[req[t].op] # {}
           /\ req[t].batch \subseteq prepared[req[t].op].records
<1>1. req[t].op \in Ops
  BY Before DEF HistoryInv, EvidenceInv, Located
<1>2. attempts[req[t].op] # {}
  BY DEF HistoryInv, UpToDate, Resumed
<1>3. req[t].batch \subseteq prepared[req[t].op].records
  BY DEF HistoryInv, EvidenceInv, Honest
<1> QED
  BY <1>1, <1>2, <1>3

LEMMA OperationsJournalStep ==
    ASSUME \A t, u \in Appliers : t = u, JournalInv, [Next]_vars
    PROVE  JournalStep
<1>0. HistoryInv /\ HistoryInv' /\ TypeOK
  BY HistoryInvNext DEF JournalInv, HistoryInv, EvidenceInv, OpsInv
<1>1. CASE \/ LeaseNext /\ UNCHANGED <<storeVars, evidenceVars, threadVars>>
           \/ UNCHANGED vars
  BY <1>1, Unseen DEF storeVars, evidenceVars, vars
<1>2. ASSUME NEW w \in Writers, NEW k \in Keys, Write(w, k) PROVE JournalStep
  BY <1>0, <1>2, WriteIsWritten
<1>3. ASSUME NEW k \in Keys, LateDelete(k) PROVE JournalStep
  <2>1. PICK o \in Ops : attempts[o] # {} /\ k \in KeysOf(prepared[o].records)
    BY <1>3 DEF LateDelete, JournalInv
  <2>2. /\ store' = [store EXCEPT ![k] = None] /\ UNCHANGED <<prepared, attempts>>
        /\ store \in [Keys -> ObjectRecord \cup {None}]
    BY <1>0, <1>3 DEF LateDelete, evidenceVars, TypeOK
  <2>3. /\ store' \in [Keys -> ObjectRecord \cup {None}]
        /\ \A j \in Keys : \/ store'[j] = store[j]
                           \/ store'[j] = None /\ j \in KeysOf(prepared[o].records)
    BY <2>1, <2>2
  <2> QED
    BY <1>0, <2>1, <2>2, <2>3, RemovalIsDeleted
<1>4. ASSUME NEW t \in Appliers, Start(t) \/ Step(t) \/ Abort(t) PROVE JournalStep
  <2>1. CASE UNCHANGED <<store, prepared, attempts>>
    BY <2>1, Unseen
  <2>2. CASE /\ pc[t] = "delete" /\ UNCHANGED <<prepared, attempts>>
             /\ \E done \in SUBSET req[t].batch : Remove(done)
    <3>1. /\ req[t].op \in Ops /\ attempts[req[t].op] # {}
          /\ req[t].batch \subseteq prepared[req[t].op].records
      BY <1>0, <2>2, DeleterOnRecord
    <3>2. PICK done \in SUBSET req[t].batch : Remove(done)
      BY <2>2
    <3>3. KeysOf(done) \subseteq KeysOf(prepared[req[t].op].records)
      BY <3>1 DEF KeysOf
    <3>4. store \in [Keys -> ObjectRecord \cup {None}]
      BY <1>0 DEF TypeOK
    <3>5. /\ store' \in [Keys -> ObjectRecord \cup {None}]
          /\ \A j \in Keys :
                \/ store'[j] = store[j]
                \/ store'[j] = None /\ j \in KeysOf(prepared[req[t].op].records)
      BY <3>2, <3>3, <3>4 DEF Remove
    <3> QED
      BY <1>0, <2>2, <3>1, <3>5, RemovalIsDeleted
  <2>3. CASE PrepareTombstone(t)
    BY <1>0, <2>3, TombstoneIsReviewed
  <2>4. CASE RecordCreate(t)
    BY <1>0, <2>4, CreateIsAttempted
  <2> QED
    BY <1>4, <2>1, <2>2, <2>3, <2>4, ThreadSeen DEF SeenStep
<1> QED
  BY <1>1, <1>2, <1>3, <1>4 DEF Next

\* What one step of a thread adds to the late deletes.
LEMMA LateDeletesGrow ==
    ASSUME NEW t \in Appliers, Start(t) \/ Step(t) \/ Abort(t)
    PROVE  \/ inflight' = inflight
           \/ /\ pc[t] = "delete"
              /\ inflight' \subseteq inflight \cup KeysOf(req[t].batch)
<1>1. CASE DeleteLost(t)
  BY <1>1 DEF DeleteLost, KeysOf
<1>2. CASE Start(t) \/ PlanLease(t) \/ PlanEvaluate(t) \/ Abort(t)
  BY <1>2
  DEF Start, PlanInventory, PrepareStart, ApplyStart, PlanLease, PlanEvaluate, Abort, storeVars
<1>3. CASE \/ RecordList(t) \/ RecordCreate(t) \/ RecordAudit(t)
           \/ PrepareFind(t) \/ PrepareTombstone(t)
  BY <1>3 DEF RecordList, RecordCreate, RecordAudit, PrepareFind, PrepareTombstone, storeVars
<1>4. CASE ApplyEarly(t) \/ ApplyEnter(t) \/ ApplyRead(t) \/ ApplyRepair(t)
  BY <1>4 DEF ApplyEarly, ApplyEnter, ApplyRead, ApplyRepair, storeVars
<1>5. CASE \/ Relist(t) \/ Reevaluate(t) \/ RelistEmpty(t) \/ RevalidationFails(t)
           \/ HeadBatch(t) \/ Postflight(t) \/ Deadline(t)
           \/ DeleteConfirmed(t) \/ DeletePartial(t)
  BY <1>5
  DEF Relist, Reevaluate, RelistEmpty, RevalidationFails, HeadBatch, Postflight, Deadline,
      DeleteConfirmed, DeletePartial, storeVars
<1> QED
  BY <1>1, <1>2, <1>3, <1>4, <1>5 DEF Step

LEMMA JournalInvNext ==
    ASSUME \A t, u \in Appliers : t = u, JournalInv, [Next]_vars
    PROVE  JournalInv'
<1>0. HistoryInv /\ HistoryInv' /\ OpsInv
  BY HistoryInvNext DEF JournalInv, HistoryInv, EvidenceInv
<1>1. ASSUME NEW k \in inflight, Grows
      PROVE  \E o \in Ops : attempts'[o] # {} /\ k \in KeysOf(prepared'[o].records)
  <2>1. PICK o \in Ops : attempts[o] # {} /\ k \in KeysOf(prepared[o].records)
    BY DEF JournalInv
  <2>2. prepared'[o] = prepared[o] /\ attempts'[o] # {}
    BY <1>0, <1>1, <2>1 DEF HistoryInv, EvidenceInv, Grows
  <2> QED
    BY <2>1, <2>2
<1>2. ASSUME inflight' \subseteq inflight, UNCHANGED evidenceVars PROVE JournalInv'
  <2>1. Grows
    BY <1>2 DEF Grows, evidenceVars
  <2>2. \A k \in inflight' : \E o \in Ops : attempts'[o] # {} /\ k \in KeysOf(prepared'[o].records)
    BY <1>1, <1>2, <2>1
  <2> QED
    BY <1>0, <2>2 DEF JournalInv, KeysOf
<1>3. CASE \/ LeaseNext /\ UNCHANGED <<storeVars, evidenceVars, threadVars>>
           \/ \E w \in Writers, k \in Keys : Write(w, k)
           \/ \E k \in Keys : LateDelete(k)
           \/ UNCHANGED vars
  BY <1>2, <1>3 DEF Write, LateDelete, vars, storeVars
<1>4. ASSUME NEW t \in Appliers, Start(t) \/ Step(t) \/ Abort(t) PROVE JournalInv'
  <2>1. Grows
    BY <1>0, <1>4, ThreadTyped DEF WellTyped
  <2>2. ASSUME NEW k \in inflight'
        PROVE  \E o \in Ops : attempts'[o] # {} /\ k \in KeysOf(prepared'[o].records)
    <3>1. CASE k \in inflight
      BY <1>1, <2>1, <3>1
    <3>2. CASE k \notin inflight
      <4>1. pc[t] = "delete" /\ k \in KeysOf(req[t].batch)
        BY <1>4, <2>2, <3>2, LateDeletesGrow
      <4>2. /\ req[t].op \in Ops /\ attempts[req[t].op] # {}
            /\ req[t].batch \subseteq prepared[req[t].op].records
        BY <1>0, <4>1, DeleterOnRecord
      <4>3. k \in KeysOf(prepared[req[t].op].records)
        BY <4>1, <4>2 DEF KeysOf
      <4>4. prepared'[req[t].op] = prepared[req[t].op] /\ attempts'[req[t].op] # {}
        BY <1>0, <2>1, <4>2 DEF HistoryInv, EvidenceInv, Grows
      <4> QED
        BY <4>2, <4>3, <4>4
    <3> QED
      BY <3>1, <3>2
  <2> QED
    BY <1>0, <2>2 DEF JournalInv, KeysOf
<1> QED
  BY <1>3, <1>4 DEF Next

\* When an operation's requests come one at a time, the service keeps the
\* journal its readers rely on, whatever crashes, is lost or arrives late, and
\* however the clock is set (operations.py prepare, apply, _record_status,
\* _latest_status).
THEOREM OperationsImplementJournal ==
    ASSUME \A t, u \in Appliers : t = u
    PROVE  Spec => ImplementsJournal
<1>1. Init => JournalInv
  BY HistoryInvInit DEF Init, JournalInv
<1>2. JournalInv /\ [Next]_vars => JournalInv'
  BY JournalInvNext
<1>3. JournalInv /\ [Next]_vars => JournalStep
  BY OperationsJournalStep
<1>4. Init => Journal!JournalInit
  <2> SUFFICES ASSUME Init PROVE Journal!JournalInit
    OBVIOUS
  <2>1. Inventory = {}
    BY DEF Init, Inventory
  <2>2. Reviewed = [o \in Ops |-> None]
    BY DEF Init, Reviewed
  <2>3. InOrder({}) = <<>>
    BY FS_EmptySet DEF InOrder
  <2>4. History = [o \in Ops |-> <<>>]
    BY <2>3 DEF Init, History
  <2> QED
    BY <2>1, <2>2, <2>4 DEF Journal!JournalInit
<1> QED
  BY <1>1, <1>2, <1>3, <1>4, PTL
  DEF Spec, ImplementsJournal, Journal!JournalSpec, JournalStep

-----------------------------------------------------------------------------
(* The evaluator by itself, evaluated again and again (RetentionReplan).    *)

\* The facts are whole-second clocks and the inventory lists objects.
ReplanInv ==
    /\ now \in 0..MaxNow
    /\ facts \in [lease : LeaseFacts, terminal : TerminalFacts]
    /\ inventory \subseteq Object

LEMMA ReplanInvNext == ReplanInv /\ [ReplanNext]_replanVars => ReplanInv'
<1> SUFFICES ASSUME ReplanInv, [ReplanNext]_replanVars PROVE ReplanInv'
  OBVIOUS
<1>1. CASE Later
  BY <1>1, ReplanAssumption DEF Later, ReplanInv
<1>2. CASE \E r \in inventory : ObjectDeleted(r)
  BY <1>2 DEF ObjectDeleted, ReplanInv
<1>3. CASE \E k \in LeafKeys : ObjectWritten(k)
  BY <1>3 DEF ObjectWritten, ReplanInv, Object
<1>4. CASE UNCHANGED replanVars
  BY <1>4 DEF replanVars, ReplanInv
<1> QED
  BY <1>1, <1>2, <1>3, <1>4 DEF ReplanNext

\* The clocks an evaluation compares are numbers.
LEMMA FactTypes ==
    ASSUME ReplanInv
    PROVE  /\ now \in Int
           /\ facts.lease # None =>
                facts.lease.acquired_at \in Int /\ facts.lease.heartbeat_at \in Int
           /\ facts.terminal # None => facts.terminal.occurred_at \in Int
           /\ \A r \in inventory : r.last_modified \in Int
           /\ Lifecycle = "retired" => RetiredAt \in Int
           /\ Retention \in Int /\ Ttl \in Int /\ FutureTolerance \in Int
  BY ReplanAssumption, PolicyAssumption DEF EntryParses, ReplanInv, Object

\* The evaluator's answer depends on the clock only through lower bounds, and
\* on the objects only one by one.
LEMMA EligibleMonotone ==
    ASSUME ReplanInv, EligibleNow, NEW later \in Int, later >= now,
           NEW left \in SUBSET inventory, left # {}
    PROVE  Eligible(Prefix, later, facts.lease, facts.terminal, left)
<1> DEFINE l == facts.lease
           t == facts.terminal
<1>1. /\ now \in Int /\ l # None /\ t # None
      /\ l.acquired_at \in Int /\ l.heartbeat_at \in Int /\ t.occurred_at \in Int
      /\ \A r \in inventory : r.last_modified \in Int
      /\ Lifecycle = "retired" => RetiredAt \in Int
      /\ Retention \in Int /\ Ttl \in Int /\ FutureTolerance \in Int
  BY FactTypes DEF EligibleNow, Eligible
<1>2. /\ LeaseAllows(Prefix, now, l, t) /\ InventoryAllows(now, t, inventory)
      /\ TerminalAllows(now, t) /\ ~Quarantined(now, l, t, inventory)
  BY DEF EligibleNow, Eligible
<1> HIDE DEF l, t
<1>3. ASSUME NEW c \in Int, ~FutureClock(c, now) PROVE ~FutureClock(c, later)
  BY <1>1, <1>3 DEF FutureClock
<1>4. LeaseAllows(Prefix, later, l, t)
  <2>1. Expires(l) \in Int
    BY <1>1 DEF Expires
  <2> QED
    BY <1>1, <1>2, <1>3, <2>1 DEF LeaseAllows
<1>5. InventoryAllows(later, t, left)
  BY <1>1, <1>2, <1>3 DEF InventoryAllows
<1>6. TerminalAllows(later, t)
  BY <1>1, <1>2, <1>3, PolicyAssumption DEF EntryParses, TerminalAllows
<1>7. ~Quarantined(later, l, t, left)
  <2> SUFFICES ASSUME NEW c \in AnchorClocks(l, t, left) PROVE ~(later < c + Retention)
    BY DEF Quarantined
  <2>1. c \in AnchorClocks(l, t, inventory) /\ c \in Int
    BY <1>1 DEF AnchorClocks
  <2>2. ~(now < c + Retention)
    BY <1>2, <2>1 DEF Quarantined
  <2> QED
    BY <1>1, <2>1, <2>2
<1> QED
  BY <1>1, <1>4, <1>5, <1>6, <1>7 DEF Eligible, l, t

\* A step that writes nothing moves the clock forward or removes objects.
LEMMA PersistsStep ==
    ASSUME ReplanInv, ReplanNext, EligibleNow, inventory' \subseteq inventory, inventory' # {}
    PROVE  EligibleNow'
<1>1. facts' = facts /\ now' \in Int /\ now' >= now
  BY DEF ReplanNext, Later, ObjectDeleted, ObjectWritten, ReplanInv
<1>2. Eligible(Prefix, now', facts.lease, facts.terminal, inventory')
  BY <1>1, EligibleMonotone
<1> QED
  BY <1>1, <1>2 DEF EligibleNow, Eligible

\* Only a write adds to the listing, and it carries the present instant.
LEMMA RevokesStep ==
    ASSUME ReplanInv, ReplanNext, EligibleNow, ~(inventory' \subseteq inventory)
    PROVE  ~EligibleNow'
<1>1. PICK k \in LeafKeys : ObjectWritten(k)
  BY DEF ReplanNext, Later, ObjectDeleted
<1>2. /\ now' = now /\ facts' = facts
      /\ \E r \in inventory' : r.last_modified = now
  BY <1>1 DEF ObjectWritten
<1>3. /\ now \in Int /\ facts.terminal.occurred_at \in Int
      /\ Retention \in Int /\ Retention > 0
      /\ ~(now < facts.terminal.occurred_at + Retention)
  BY FactTypes, ReplanAssumption DEF EligibleNow, Eligible, Quarantined, AnchorClocks
<1>4. ~InventoryAllows(now, facts.terminal, inventory')
  BY <1>2, <1>3 DEF InventoryAllows
<1> QED
  BY <1>2, <1>4 DEF EligibleNow, Eligible

LEMMA ReplanInvInit == ReplanInit => ReplanInv
  BY DEF ReplanInit, ReplanInv

\* What was found eligible stays so for every later evaluation of the same
\* controls over what is left, and no longer than until a write, in every class
\* and under every policy with a positive retention (policy.py
\* evaluate_retention).
THEOREM EligibilityEndsByWrite == ReplanSpec => EligibleUntilWritten
<1>1. ReplanInv /\ [ReplanNext]_replanVars =>
        [EligibleNow /\ inventory' # {}
            => (EligibleNow' <=> inventory' \subseteq inventory)]_replanVars
  BY PersistsStep, RevokesStep
<1> QED
  BY <1>1, ReplanInvInit, ReplanInvNext, PTL DEF ReplanSpec, EligibleUntilWritten
=============================================================================
