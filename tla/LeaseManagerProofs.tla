------------------------- MODULE LeaseManagerProofs -------------------------
(***************************************************************************)
(* The lease protocol is correct for every number of sessions, prefixes,   *)
(* epochs and instants.                                                    *)
(***************************************************************************)
EXTENDS LeaseManager, TLAPS

-----------------------------------------------------------------------------
(* The inductive invariant.                                                 *)

\* Epochs are drawn in order, so the next one is newer than every one stored.
EpochsDrawn ==
    /\ lease # None => lease.epoch <= epochs
    /\ \A w \in Writers : held[w] <= epochs

\* The record a handler is about to persist is the stored lease's own.
PendingAgrees ==
    lock \in Writers =>
        /\ pending \in TerminalRecord
        /\ lease # None
        /\ pending.epoch = lease.epoch
        /\ pending.prefix = lease.prefix
        /\ pending.state = lease.state
        /\ pending.evidence = lease.evidence
        /\ pending.occurred_at = lease.heartbeat_at

LeaseInv == LeaseTypeOK /\ EpochsDrawn /\ PendingAgrees /\ TerminalAgreesWithLease

-----------------------------------------------------------------------------
(* Facts about the records the handlers build.                              *)

\* Every handler leaves a well-formed lease behind: a freshly acquired one.
LEMMA AcquiredType ==
    ASSUME LeaseTypeOK, NEW w \in Writers, epochs < MaxEpoch
    PROVE  LET l == [prefix |-> PrefixOf[w], epoch |-> epochs + 1, state |-> "active",
                     acquired_at |-> clock, heartbeat_at |-> clock, evidence |-> None]
           IN  l \in LeaseRecord /\ l # None
<1>1. /\ PrefixOf[w] \in Prefixes
      /\ epochs + 1 \in Epoch
      /\ clock \in Instant
  BY LeaseAssumption DEF LeaseTypeOK, Epoch, Instant
<1> QED
  BY <1>1, NoneAssumption DEF LeaseRecord

\* A heartbeat or terminal transition rewrites three fields of the lease.
LEMMA TransitionedType ==
    ASSUME LeaseTypeOK, lease # None,
           NEW s \in {"active", "stopped", "completed", "retired"},
           NEW e \in Evidence \cup {None}
    PROVE  /\ Transitioned(s, e) \in LeaseRecord
           /\ Transitioned(s, e) # None
           /\ Transitioned(s, e).epoch = lease.epoch
           /\ Transitioned(s, e).prefix = lease.prefix
           /\ Transitioned(s, e).acquired_at = lease.acquired_at
           /\ Transitioned(s, e).state = s
           /\ Transitioned(s, e).evidence = e
           /\ Transitioned(s, e).heartbeat_at = clock
<1>1. lease \in LeaseRecord /\ clock \in Instant
  BY DEF LeaseTypeOK
<1>2. Transitioned(s, e) \in LeaseRecord
  BY <1>1 DEF Transitioned, LeaseRecord
<1> QED
  BY <1>1, <1>2, NoneAssumption DEF Transitioned, LeaseRecord

\* The terminal record of an owning session is the one of the lease's run.
LEMMA TerminalBodyType ==
    ASSUME LeaseTypeOK, NEW w \in Writers, OwnsLease(w),
           NEW s \in {"stopped", "completed", "retired"}, NEW e \in Evidence,
           NEW at \in Instant
    PROVE  /\ TerminalBody(w, s, e, at) \in TerminalRecord
           /\ TerminalBody(w, s, e, at).epoch = lease.epoch
           /\ TerminalBody(w, s, e, at).prefix = lease.prefix
           /\ TerminalBody(w, s, e, at).state = s
           /\ TerminalBody(w, s, e, at).evidence = e
           /\ TerminalBody(w, s, e, at).occurred_at = at
<1>1. /\ lease \in LeaseRecord
      /\ held[w] = lease.epoch
      /\ PrefixOf[w] = lease.prefix
  BY DEF LeaseTypeOK, OwnsLease
<1>2. held[w] \in Epoch /\ PrefixOf[w] \in Prefixes
  BY <1>1 DEF LeaseRecord
<1> QED
  BY <1>1, <1>2 DEF TerminalBody, TerminalRecord

-----------------------------------------------------------------------------
(* Each handler keeps the invariant.                                        *)

\* A new run's epoch is newer than the terminal record's.
LEMMA AcquireStep ==
    ASSUME LeaseInv, NEW w \in Writers, Acquire(w)
    PROVE  LeaseInv'
<1> DEFINE new == [prefix |-> PrefixOf[w], epoch |-> epochs + 1, state |-> "active",
                   acquired_at |-> clock, heartbeat_at |-> clock, evidence |-> None]
<1>1. /\ lock = None /\ epochs < MaxEpoch /\ epochs' = epochs + 1
      /\ lease' = new \/ lease' = lease
      /\ held' = [held EXCEPT ![w] = epochs + 1] \/ held' = held
      /\ UNCHANGED <<clock, stepsBack, terminal, lock, pending>>
  BY DEF Acquire
<1>2. LeaseTypeOK
  BY DEF LeaseInv
<1>3. new \in LeaseRecord /\ new # None
  BY <1>1, <1>2, AcquiredType
<1>4. epochs \in Nat /\ epochs' \in 0..MaxEpoch
  BY <1>1, <1>2, LeaseAssumption DEF LeaseTypeOK
<1>5. LeaseTypeOK'
  BY <1>1, <1>2, <1>3, <1>4 DEF LeaseTypeOK
<1>6. EpochsDrawn'
  <2>1. EpochsDrawn
    BY DEF LeaseInv
  <2>2. lease' # None => lease'.epoch <= epochs'
    <3>1. CASE lease' = new
      BY <1>1, <1>4, <3>1
    <3>2. CASE lease' = lease
      <4>1. lease # None => lease.epoch \in Nat
        BY <1>2, LeaseAssumption DEF LeaseTypeOK, LeaseRecord, Epoch
      <4> QED
        BY <1>1, <1>4, <2>1, <3>2, <4>1 DEF EpochsDrawn
    <3> QED
      BY <1>1, <3>1, <3>2
  <2>3. \A v \in Writers : held'[v] <= epochs'
    <3>1. \A v \in Writers : held[v] \in Nat
      BY <1>2, LeaseAssumption DEF LeaseTypeOK
    <3> QED
      BY <1>1, <1>2, <1>4, <2>1, <3>1 DEF EpochsDrawn, LeaseTypeOK
  <2> QED
    BY <2>2, <2>3 DEF EpochsDrawn
<1>7. PendingAgrees'
  BY <1>1, LeaseAssumption DEF PendingAgrees
<1>8. TerminalAgreesWithLease'
  <2>1. TerminalAgreesWithLease /\ EpochsDrawn
    BY DEF LeaseInv
  <2>2. CASE lease' = lease
    BY <1>1, <2>1, <2>2 DEF TerminalAgreesWithLease
  <2>3. CASE lease' = new
    <3>1. terminal # None => terminal.epoch \in Nat /\ lease.epoch \in Nat
      BY <1>2, <2>1, LeaseAssumption
      DEF LeaseTypeOK, LeaseRecord, TerminalRecord, Epoch, TerminalAgreesWithLease
    <3>2. terminal # None => terminal.epoch < new.epoch
      BY <1>4, <2>1, <3>1 DEF TerminalAgreesWithLease, EpochsDrawn
    <3> QED
      BY <1>1, <1>3, <1>4, <2>3, <3>1, <3>2 DEF TerminalAgreesWithLease
  <2> QED
    BY <1>1, <2>2, <2>3
<1> QED
  BY <1>5, <1>6, <1>7, <1>8 DEF LeaseInv

\* An active lease's run has no terminal record yet, so renewing or ending it
\* contradicts none.
LEMMA ActiveHasNoRecord ==
    ASSUME LeaseInv, LeaseActive, terminal # None
    PROVE  terminal.epoch < lease.epoch
<1>1. /\ lease \in LeaseRecord
      /\ terminal \in TerminalRecord
      /\ terminal.epoch <= lease.epoch
      /\ terminal.epoch = lease.epoch => lease.state = terminal.state
  BY DEF LeaseInv, LeaseTypeOK, TerminalAgreesWithLease, LeaseActive
<1>2. terminal.epoch \in Nat /\ lease.epoch \in Nat /\ terminal.state # "active"
  BY <1>1, LeaseAssumption DEF LeaseRecord, TerminalRecord, Epoch
<1> QED
  BY <1>1, <1>2 DEF LeaseActive

\* Rewriting an active lease keeps everything but the lock and its record.
LEMMA RewriteStep ==
    ASSUME LeaseInv, LeaseActive,
           NEW s \in {"active", "stopped", "completed", "retired"},
           NEW e \in Evidence \cup {None},
           lease' = Transitioned(s, e),
           UNCHANGED <<clock, stepsBack, terminal, epochs, held>>
    PROVE  /\ lease' \in LeaseRecord
           /\ EpochsDrawn'
           /\ TerminalAgreesWithLease'
<1>1. LeaseTypeOK /\ lease # None
  BY DEF LeaseInv, LeaseActive
<1>2. lease' \in LeaseRecord /\ lease' # None /\ lease'.epoch = lease.epoch
  BY <1>1, TransitionedType
<1>3. EpochsDrawn'
  BY <1>1, <1>2 DEF LeaseInv, EpochsDrawn
<1>4. TerminalAgreesWithLease'
  <2>1. CASE terminal = None
    BY <2>1 DEF TerminalAgreesWithLease
  <2>2. CASE terminal # None
    <3>1. terminal.epoch < lease.epoch
      BY <2>2, ActiveHasNoRecord
    <3>2. terminal.epoch \in Nat /\ lease.epoch \in Nat
      BY <1>1, <2>2, LeaseAssumption DEF LeaseTypeOK, LeaseRecord, TerminalRecord, Epoch
    <3> QED
      BY <1>2, <3>1, <3>2 DEF TerminalAgreesWithLease
  <2> QED
    BY <2>1, <2>2
<1> QED
  BY <1>2, <1>3, <1>4

LEMMA HeartbeatStep ==
    ASSUME LeaseInv, NEW w \in Writers, Heartbeat(w)
    PROVE  LeaseInv'
<1>1. /\ lock = None /\ lease' = Transitioned("active", None) /\ LeaseActive
      /\ UNCHANGED <<clock, stepsBack, terminal, lock, pending, epochs, held>>
  BY DEF Heartbeat, OwnsLease, LeaseActive
<1>2. lease' \in LeaseRecord /\ EpochsDrawn' /\ TerminalAgreesWithLease'
  BY <1>1, RewriteStep
<1>3. LeaseTypeOK'
  BY <1>1, <1>2 DEF LeaseInv, LeaseTypeOK
<1>4. PendingAgrees'
  BY <1>1, LeaseAssumption DEF PendingAgrees
<1> QED
  BY <1>2, <1>3, <1>4 DEF LeaseInv

\* The body left to persist is the one of the lease just ended.
LEMMA TerminalStep ==
    ASSUME LeaseInv, NEW w \in Writers, NEW s \in {"stopped", "completed", "retired"},
           NEW e \in Evidence, Terminal(w, s, e)
    PROVE  LeaseInv'
<1>1. /\ lock = None /\ OwnsLease(w) /\ LeaseActive /\ lease' = Transitioned(s, e)
      /\ \/ lock' = w /\ pending' = TerminalBody(w, s, e, clock)
         \/ UNCHANGED <<lock, pending>>
      /\ UNCHANGED <<clock, stepsBack, terminal, epochs, held>>
  BY DEF Terminal, OwnsLease, LeaseActive
<1>2. lease' \in LeaseRecord /\ EpochsDrawn' /\ TerminalAgreesWithLease'
  BY <1>1, RewriteStep
<1>3. LeaseTypeOK /\ clock \in Instant /\ lease # None
  BY <1>1 DEF LeaseInv, LeaseTypeOK, LeaseActive
<1>4. /\ TerminalBody(w, s, e, clock) \in TerminalRecord
      /\ TerminalBody(w, s, e, clock).epoch = lease'.epoch
      /\ TerminalBody(w, s, e, clock).prefix = lease'.prefix
      /\ TerminalBody(w, s, e, clock).state = lease'.state
      /\ TerminalBody(w, s, e, clock).evidence = lease'.evidence
      /\ TerminalBody(w, s, e, clock).occurred_at = lease'.heartbeat_at
      /\ lease' # None
  BY <1>1, <1>3, TerminalBodyType, TransitionedType
<1>5. LeaseTypeOK'
  BY <1>1, <1>2, <1>3, <1>4 DEF LeaseTypeOK
<1>6. PendingAgrees'
  BY <1>1, <1>4, LeaseAssumption DEF PendingAgrees
<1> QED
  BY <1>2, <1>5, <1>6 DEF LeaseInv

LEMMA TerminalAgainStep ==
    ASSUME LeaseInv, NEW w \in Writers, NEW s \in {"stopped", "completed", "retired"},
           NEW e \in Evidence, TerminalAgain(w, s, e)
    PROVE  LeaseInv'
<1>1. /\ OwnsLease(w) /\ lease.state = s /\ lease.evidence = e
      /\ lock' = w /\ pending' = TerminalBody(w, s, e, lease.heartbeat_at)
      /\ UNCHANGED <<clock, stepsBack, lease, terminal, epochs, held>>
  BY DEF TerminalAgain
<1>2. LeaseTypeOK /\ lease # None /\ lease.heartbeat_at \in Instant
  BY <1>1 DEF LeaseInv, LeaseTypeOK, OwnsLease, LeaseRecord
<1>3. /\ pending' \in TerminalRecord
      /\ pending'.epoch = lease.epoch
      /\ pending'.prefix = lease.prefix
      /\ pending'.state = lease.state
      /\ pending'.evidence = lease.evidence
      /\ pending'.occurred_at = lease.heartbeat_at
  BY <1>1, <1>2, TerminalBodyType
<1>4. LeaseTypeOK' /\ PendingAgrees'
  BY <1>1, <1>2, <1>3 DEF LeaseTypeOK, PendingAgrees
<1>5. EpochsDrawn' /\ TerminalAgreesWithLease'
  BY <1>1 DEF LeaseInv, EpochsDrawn, TerminalAgreesWithLease
<1> QED
  BY <1>4, <1>5 DEF LeaseInv

LEMMA PersistStep ==
    ASSUME LeaseInv, NEW w \in Writers, PersistTerminal(w)
    PROVE  LeaseInv'
<1>1. /\ lock = w
      /\ terminal' = pending \/ terminal' = terminal
      /\ lock' = None /\ pending' = None
      /\ UNCHANGED <<clock, stepsBack, lease, epochs, held>>
  BY DEF PersistTerminal
<1>2. LeaseTypeOK' /\ EpochsDrawn'
  BY <1>1 DEF LeaseInv, LeaseTypeOK, EpochsDrawn
<1>3. PendingAgrees'
  BY <1>1, LeaseAssumption DEF PendingAgrees
<1>4. TerminalAgreesWithLease'
  <2>1. lease # None /\ lease.epoch \in Int
    BY <1>1 DEF LeaseInv, PendingAgrees, LeaseTypeOK, LeaseRecord, Epoch
  <2> QED
    BY <1>1, <2>1 DEF LeaseInv, PendingAgrees, TerminalAgreesWithLease
<1> QED
  BY <1>2, <1>3, <1>4 DEF LeaseInv

\* The clock is part of no relation between the stored objects.
LEMMA ClockStep ==
    ASSUME LeaseInv, Tick \/ ClockSetBack
    PROVE  LeaseInv'
<1>1. /\ clock' \in Instant /\ stepsBack' \in 0..MaxStepsBack
      /\ UNCHANGED <<lease, terminal, lock, pending, epochs, held>>
  BY LeaseAssumption DEF LeaseInv, LeaseTypeOK, Tick, ClockSetBack, Instant
<1> QED
  BY <1>1 DEF LeaseInv, LeaseTypeOK, EpochsDrawn, PendingAgrees, TerminalAgreesWithLease

LEMMA LeaseInvInit == LeaseInit => LeaseInv
  BY LeaseAssumption
  DEF LeaseInit, LeaseInv, LeaseTypeOK, EpochsDrawn, PendingAgrees,
      TerminalAgreesWithLease, Instant

LEMMA LeaseInvNext == LeaseInv /\ [LeaseNext]_leaseVars => LeaseInv'
<1> SUFFICES ASSUME LeaseInv, [LeaseNext]_leaseVars PROVE LeaseInv'
  OBVIOUS
<1>1. CASE \E w \in Writers : LeaseRequest(w)
  BY <1>1, AcquireStep, HeartbeatStep, TerminalStep, TerminalAgainStep, PersistStep
  DEF LeaseRequest
<1>2. CASE Tick \/ ClockSetBack
  BY <1>2, ClockStep
<1>3. CASE UNCHANGED leaseVars
  BY <1>3 DEF leaseVars, LeaseInv, LeaseTypeOK, EpochsDrawn, PendingAgrees,
              TerminalAgreesWithLease
<1> QED
  BY <1>1, <1>2, <1>3 DEF LeaseNext

\* The inductive invariant holds throughout (leases.py, every handler).
THEOREM LeaseInvariant == LeaseSpec => []LeaseInv
  BY LeaseInvInit, LeaseInvNext, PTL DEF LeaseSpec

\* The stored objects and the sessions' knowledge keep their types.
THEOREM LeaseTypeCorrect == LeaseSpec => []LeaseTypeOK
<1>1. LeaseInv => LeaseTypeOK
  BY DEF LeaseInv
<1> QED
  BY <1>1, LeaseInvariant, PTL

\* Whatever is lost, retried or half done, and even when the clock is set
\* back, the terminal record agrees with the lease of the run it speaks for.
THEOREM TerminalRecordAgrees == LeaseSpec => []TerminalAgreesWithLease
<1>1. LeaseInv => TerminalAgreesWithLease
  BY DEF LeaseInv
<1> QED
  BY <1>1, LeaseInvariant, PTL

-----------------------------------------------------------------------------
(* Action properties.                                                       *)

\* The lease of an active run changes only under a request that names it.
LEMMA NoTakeoverStep ==
    ASSUME LeaseInv, LeaseNext, LeaseActive, lease' # lease
    PROVE  /\ lease'.epoch = lease.epoch
           /\ \E w \in Writers : held[w] = lease.epoch
<1>1. LeaseTypeOK /\ lease # None
  BY DEF LeaseInv, LeaseActive
<1>2. ASSUME NEW w \in Writers, Acquire(w) PROVE FALSE
  BY <1>2 DEF Acquire, AcquireRefused, LeaseActive
<1>3. ASSUME NEW w \in Writers, Heartbeat(w)
      PROVE  lease'.epoch = lease.epoch /\ held[w] = lease.epoch
  BY <1>1, <1>3, TransitionedType DEF Heartbeat, OwnsLease
<1>4. ASSUME NEW w \in Writers, NEW s \in {"stopped", "completed", "retired"},
             NEW e \in Evidence, Terminal(w, s, e)
      PROVE  lease'.epoch = lease.epoch /\ held[w] = lease.epoch
  BY <1>1, <1>4, TransitionedType DEF Terminal, OwnsLease
<1>5. ASSUME NEW w \in Writers, NEW s \in {"stopped", "completed", "retired"},
             NEW e \in Evidence, TerminalAgain(w, s, e)
      PROVE  FALSE
  BY <1>5 DEF TerminalAgain
<1>6. ASSUME NEW w \in Writers, PersistTerminal(w) PROVE FALSE
  BY <1>6 DEF PersistTerminal
<1>7. ASSUME Tick \/ ClockSetBack PROVE FALSE
  BY <1>7 DEF Tick, ClockSetBack
<1> QED
  BY <1>2, <1>3, <1>4, <1>5, <1>6, <1>7 DEF LeaseNext, LeaseRequest

\* No acquire takes an active lease over, expired or not, for any number of
\* sessions (leases.py acquire).
THEOREM LeaseNeverTakenOver == LeaseSpec => NoTakeover
<1>1. LeaseInv /\ [LeaseNext]_leaseVars =>
        [LeaseActive /\ lease' # lease =>
            /\ lease'.epoch = lease.epoch
            /\ \E w \in Writers : held[w] = lease.epoch]_leaseVars
  BY NoTakeoverStep DEF leaseVars
<1> QED
  BY <1>1, LeaseInvariant, PTL DEF LeaseSpec, NoTakeover

\* A terminal record replaced by a different one belongs to a newer run.
LEMMA TerminalInstantStep ==
    ASSUME LeaseInv, LeaseNext, terminal # None, terminal' # terminal
    PROVE  terminal'.epoch > terminal.epoch
<1>1. PICK w \in Writers : PersistTerminal(w)
  BY DEF LeaseNext, LeaseRequest, Acquire, Heartbeat, Terminal, TerminalAgain, Tick,
         ClockSetBack
<1>2. lock \in Writers /\ terminal' = pending
  BY <1>1 DEF PersistTerminal
<1>3. /\ terminal \in TerminalRecord /\ pending \in TerminalRecord
      /\ pending.epoch = lease.epoch
      /\ terminal.epoch <= lease.epoch
  BY <1>2 DEF LeaseInv, LeaseTypeOK, PendingAgrees, TerminalAgreesWithLease
<1>4. terminal.epoch # lease.epoch
  <2> SUFFICES ASSUME terminal.epoch = lease.epoch PROVE FALSE
    OBVIOUS
  <2>1. /\ terminal.prefix = pending.prefix
        /\ terminal.epoch = pending.epoch
        /\ terminal.state = pending.state
        /\ terminal.evidence = pending.evidence
        /\ terminal.occurred_at = pending.occurred_at
    BY <1>2, <1>3 DEF LeaseInv, PendingAgrees, TerminalAgreesWithLease
  <2>2. terminal.review = pending.review
    BY <1>3 DEF TerminalRecord
  <2>3. terminal = pending
    BY <1>3, <2>1, <2>2 DEF TerminalRecord
  <2> QED
    BY <1>2, <2>3
<1>5. terminal.epoch \in Int /\ pending.epoch \in Int
  BY <1>3 DEF TerminalRecord, Epoch
<1> QED
  BY <1>2, <1>3, <1>4, <1>5

\* A repeated terminal request never moves a run's terminal instant, for any
\* number of sessions and retries (leases.py _terminal_locked).
THEOREM TerminalInstantFinal == LeaseSpec => TerminalInstantIsFinal
<1>1. LeaseInv /\ [LeaseNext]_leaseVars =>
        [terminal # None /\ terminal' # terminal
            => terminal'.epoch > terminal.epoch]_leaseVars
  BY TerminalInstantStep DEF leaseVars
<1> QED
  BY <1>1, LeaseInvariant, PTL DEF LeaseSpec, TerminalInstantIsFinal

-----------------------------------------------------------------------------
(* As long as the clock has not been set back.                              *)

\* Nothing stored is newer than the clock.
ClocksPast ==
    stepsBack = 0 =>
        /\ lease # None => lease.acquired_at <= clock /\ lease.heartbeat_at <= clock
        /\ terminal # None => terminal.occurred_at <= clock

StaleInv == LeaseInv /\ ClocksPast /\ StaleTerminalPrecedesRun

LEMMA StaleInvNext ==
    ASSUME StaleInv, [LeaseNext]_leaseVars
    PROVE  StaleInv'
<1>1. LeaseInv' /\ LeaseInv /\ ClocksPast /\ StaleTerminalPrecedesRun
  BY LeaseInvNext DEF StaleInv
<1>2. LeaseTypeOK /\ LeaseTypeOK' /\ TerminalAgreesWithLease /\ TerminalAgreesWithLease'
  BY <1>1 DEF LeaseInv
<1>3. /\ clock \in Int /\ clock' \in Int
      /\ terminal # None => terminal.occurred_at \in Int /\ terminal.epoch \in Int
      /\ lease # None => /\ lease.acquired_at \in Int /\ lease.heartbeat_at \in Int
                         /\ lease.epoch \in Int
  BY <1>2 DEF LeaseTypeOK, LeaseRecord, TerminalRecord, Instant, Epoch
<1>4. ASSUME NEW w \in Writers, Acquire(w) PROVE StaleInv'
  <2>1. /\ UNCHANGED <<clock, stepsBack, terminal>>
        /\ \/ lease' = lease
           \/ lease'.acquired_at = clock /\ lease'.heartbeat_at = clock
    BY <1>4 DEF Acquire
  <2>2. ClocksPast'
    BY <1>1, <1>3, <2>1 DEF ClocksPast
  <2>3. StaleTerminalPrecedesRun'
    BY <1>1, <2>1 DEF ClocksPast, StaleTerminalPrecedesRun
  <2> QED
    BY <1>1, <2>2, <2>3 DEF StaleInv
<1>5. ASSUME NEW s \in {"active", "stopped", "completed", "retired"},
             NEW e \in Evidence \cup {None}, LeaseActive,
             lease' = Transitioned(s, e), UNCHANGED <<clock, stepsBack, terminal>>
      PROVE  StaleInv'
  <2>1. /\ lease # None
        /\ lease'.acquired_at = lease.acquired_at /\ lease'.heartbeat_at = clock
        /\ lease'.epoch = lease.epoch
    BY <1>2, <1>5, TransitionedType DEF LeaseActive
  <2>2. ClocksPast' /\ StaleTerminalPrecedesRun'
    BY <1>1, <1>3, <1>5, <2>1 DEF ClocksPast, StaleTerminalPrecedesRun
  <2> QED
    BY <1>1, <2>2 DEF StaleInv
<1>6. ASSUME NEW w \in Writers, Heartbeat(w) PROVE StaleInv'
  BY <1>5, <1>6 DEF Heartbeat, OwnsLease, LeaseActive
<1>7. ASSUME NEW w \in Writers, NEW s \in {"stopped", "completed", "retired"},
             NEW e \in Evidence, Terminal(w, s, e)
      PROVE  StaleInv'
  BY <1>5, <1>7 DEF Terminal, OwnsLease, LeaseActive
<1>8. ASSUME UNCHANGED <<clock, stepsBack, lease, terminal>> PROVE StaleInv'
  BY <1>1, <1>8 DEF StaleInv, ClocksPast, StaleTerminalPrecedesRun
<1>9. ASSUME NEW w \in Writers, NEW s \in {"stopped", "completed", "retired"},
             NEW e \in Evidence, TerminalAgain(w, s, e)
      PROVE  StaleInv'
  BY <1>8, <1>9 DEF TerminalAgain
<1>10. ASSUME NEW w \in Writers, PersistTerminal(w) PROVE StaleInv'
  <2>1. UNCHANGED <<clock, stepsBack, lease>> /\ (terminal' = pending \/ terminal' = terminal)
    BY <1>10 DEF PersistTerminal
  <2>2. /\ lease # None /\ pending.epoch = lease.epoch
        /\ pending.occurred_at = lease.heartbeat_at
    BY <1>1, <1>10 DEF LeaseInv, PendingAgrees, PersistTerminal
  <2>3. ClocksPast' /\ StaleTerminalPrecedesRun'
    BY <1>1, <1>3, <2>1, <2>2 DEF ClocksPast, StaleTerminalPrecedesRun
  <2> QED
    BY <1>1, <2>3 DEF StaleInv
<1>11. ASSUME Tick PROVE StaleInv'
  <2>1. clock' = clock + 1 /\ UNCHANGED <<stepsBack, lease, terminal>>
    BY <1>11 DEF Tick
  <2>2. ClocksPast' /\ StaleTerminalPrecedesRun'
    BY <1>1, <1>3, <2>1 DEF ClocksPast, StaleTerminalPrecedesRun
  <2> QED
    BY <1>1, <2>2 DEF StaleInv
<1>12. ASSUME ClockSetBack PROVE StaleInv'
  <2>1. stepsBack' # 0
    BY <1>2, <1>12 DEF ClockSetBack, LeaseTypeOK
  <2> QED
    BY <1>1, <2>1 DEF StaleInv, ClocksPast, StaleTerminalPrecedesRun
<1>13. CASE UNCHANGED leaseVars
  BY <1>8, <1>13 DEF leaseVars
<1> QED
  BY <1>4, <1>6, <1>7, <1>9, <1>10, <1>11, <1>12, <1>13 DEF LeaseNext, LeaseRequest

\* As long as the clock has not been set back, the terminal record an earlier
\* run left behind is no newer than the present run, so the evaluator's
\* comparison of the two clocks tells them apart (policy.py lease_terminal_clock_conflict).
THEOREM StaleRecordPrecedesRun == LeaseSpec => []StaleTerminalPrecedesRun
<1>1. LeaseInit => StaleInv
  BY LeaseInvInit DEF StaleInv, LeaseInit, ClocksPast, StaleTerminalPrecedesRun
<1>2. StaleInv /\ [LeaseNext]_leaseVars => StaleInv'
  BY StaleInvNext
<1>3. StaleInv => StaleTerminalPrecedesRun
  BY DEF StaleInv
<1> QED
  BY <1>1, <1>2, <1>3, PTL DEF LeaseSpec
=============================================================================
