---------------------------- MODULE LeaseManager ----------------------------
(***************************************************************************)
(* Writer leases of one checkpoint (scripts/checkpoints/leases.py), with   *)
(* the conditional control writes of scripts/checkpoints/s3_gateway.py.    *)
(*                                                                         *)
(* A checkpoint has ONE lease object and ONE terminal object, whatever     *)
(* concrete prefix a run uses.  Every handler holds the checkpoint's       *)
(* process-local lock.  A lease handler does all its reads and its single  *)
(* conditional put inside the lock, so it is one step here; only terminal  *)
(* makes two puts (lease, then terminal record), and a failure between     *)
(* them leaves the first without the second.                               *)
(***************************************************************************)
EXTENDS RetentionPolicy

CONSTANTS
    Writers,          \* lease client sessions, each of one streaming run
    Prefixes,         \* concrete prefixes the policy matches to this checkpoint
    PrefixOf,         \* the prefix each session was configured with
    Appliers,         \* service threads of other requests, which take the same lock
    Evidence,         \* terminal evidence a session may present
    MaxClock,         \* bound: last instant of the model's clock
    MaxEpoch,         \* bound: lease epochs ever drawn
    MaxStepsBack      \* bound: times the service clock may be set back

VARIABLES
    clock,      \* the service's whole-second UTC clock
    stepsBack,  \* how often the clock was set back
    lease,      \* _retention/leases/{checkpoint_id}.json
    terminal,   \* _retention/terminals/{checkpoint_id}.json
    lock,       \* holder of the checkpoint's lock
    pending,    \* terminal body its handler still has to persist
    epochs,     \* epochs drawn so far; the last is the newest uuid
    held        \* epoch each session was told it owns

leaseVars == <<clock, stepsBack, lease, terminal, lock, pending, epochs, held>>

\* What the evidence says: the generation it names is the prefix's, the run
\* was exclusive and successful, and the recovery facts are all true.
EvidenceRecord == [generation : BOOLEAN, qualifies : BOOLEAN, approved : BOOLEAN]

ASSUME LeaseAssumption ==
    /\ PrefixOf \in [Writers -> Prefixes]
    /\ Evidence \subseteq EvidenceRecord
    /\ MaxClock \in Nat
    /\ MaxEpoch \in Nat
    /\ MaxStepsBack \in Nat
    /\ None \notin Writers \cup Appliers
    /\ Writers \cap Appliers = {}
    /\ None \notin Evidence

Instant == 0..MaxClock
Epoch == 1..MaxEpoch

\* expires_at is always heartbeat_at + Ttl, so it is not stored.
LeaseRecord == [prefix : Prefixes, epoch : Epoch,
                state : {"active", "stopped", "completed", "retired"},
                acquired_at : Instant, heartbeat_at : Instant,
                evidence : Evidence \cup {None}]

\* The epoch is not in the stored body: the model keeps it to tell which run
\* a terminal record speaks for.
TerminalRecord == [prefix : Prefixes, epoch : Epoch,
                   state : {"stopped", "completed", "retired"},
                   occurred_at : Instant, evidence : Evidence, review : {None}]

\* An absent object is no record.
ASSUME NoneAssumption == None \notin LeaseRecord \cup TerminalRecord

LeaseTypeOK ==
    /\ clock \in Instant
    /\ stepsBack \in 0..MaxStepsBack
    /\ lease = None \/ lease \in LeaseRecord
    /\ terminal = None \/ terminal \in TerminalRecord
    /\ lock \in Writers \cup Appliers \cup {None}
    /\ pending = None \/ pending \in TerminalRecord
    /\ epochs \in 0..MaxEpoch
    /\ held \in [Writers -> 0..MaxEpoch]

LeaseInit ==
    /\ clock = 0
    /\ stepsBack = 0
    /\ lease = None
    /\ terminal = None
    /\ lock = None
    /\ pending = None
    /\ epochs = 0
    /\ held = [w \in Writers |-> 0]

-----------------------------------------------------------------------------
(* The store's answer to one conditional put with verified readback: it     *)
(* landed and was confirmed, it landed but the caller saw a failure (a lost *)
(* response, a failed readback, a crash before the reply), or it did not    *)
(* land.                                                                    *)
Put == {"confirmed", "lost", "failed"}
Landed(put) == put # "failed"

LeaseActive == lease # None /\ lease.state = "active"

\* Mutant: an expired active lease may be taken over.
TakeoverAfterExpiry ==
    /\ lease # None
    /\ \/ ~DecodesLease(lease)
       \/ lease.heartbeat_at > clock + FutureTolerance
       \/ lease.state = "active" /\ clock < Expires(lease)

\* Expiry only chooses the refusal code: an active lease, expired or not, is
\* never taken over.
AcquireRefused ==
    /\ lease # None
    /\ \/ ~DecodesLease(lease)
       \/ lease.heartbeat_at > clock + FutureTolerance
       \/ lease.state = "active"

Acquire(w) ==
    /\ lock = None
    /\ held[w] = 0
    /\ epochs < MaxEpoch
    /\ ~AcquireRefused
    /\ epochs' = epochs + 1
    /\ \E put \in Put :
        /\ lease' = IF Landed(put)
                    THEN [prefix |-> PrefixOf[w], epoch |-> epochs', state |-> "active",
                          acquired_at |-> clock, heartbeat_at |-> clock, evidence |-> None]
                    ELSE lease
        /\ held' = IF put = "confirmed" THEN [held EXCEPT ![w] = epochs'] ELSE held
    /\ UNCHANGED <<clock, stepsBack, terminal, lock, pending>>

\* A request names prefix and epoch; both must be the stored lease's.
OwnsLease(w) ==
    /\ held[w] # 0
    /\ lease # None
    /\ DecodesLease(lease)
    /\ lease.prefix = PrefixOf[w]
    /\ lease.epoch = held[w]

\* The lease as a transition to state s rewrites it at the current instant.
Transitioned(s, evidence) ==
    [lease EXCEPT !.heartbeat_at = clock, !.state = s, !.evidence = evidence]

Heartbeat(w) ==
    /\ lock = None
    /\ OwnsLease(w)
    /\ lease.state = "active"
    /\ lease' = Transitioned("active", None)
    /\ UNCHANGED <<clock, stepsBack, terminal, lock, pending, epochs, held>>

\* Requests refused before the lock is taken.
TerminalAccepted(s, evidence) ==
    /\ s \in TerminalStates
    /\ evidence.generation
    /\ Durability = "disposable_acceptance" => evidence.qualifies

\* Mutant: the record is stamped with the time of the request.
TerminalBodyNow(w, s, evidence, occurred_at) ==
    [prefix |-> PrefixOf[w], epoch |-> held[w], state |-> s,
     occurred_at |-> clock, evidence |-> evidence, review |-> None]

\* The stored body never carries a retirement review.
TerminalBody(w, s, evidence, occurred_at) ==
    [prefix |-> PrefixOf[w], epoch |-> held[w], state |-> s,
     occurred_at |-> occurred_at, evidence |-> evidence, review |-> None]

(* terminal, first half: the lease goes from active to the terminal state;  *)
(* a lost confirmation ends the request with the lease already terminal, as *)
(* does a body that _persist_terminal cannot decode again.                  *)
Terminal(w, s, evidence) ==
    /\ lock = None
    /\ OwnsLease(w)
    /\ TerminalAccepted(s, evidence)
    /\ lease.state = "active"
    /\ lease' = Transitioned(s, evidence)
    /\ \E put \in Put \ {"failed"} :
        IF put = "confirmed" /\ DecodesLease(lease')
        THEN /\ lock' = w
             /\ pending' = TerminalBody(w, s, evidence, clock)
        ELSE UNCHANGED <<lock, pending>>
    /\ UNCHANGED <<clock, stepsBack, terminal, epochs, held>>

(* terminal repeated with the same state and evidence: the lease stays as   *)
(* it is and the record is derived from the stored heartbeat.               *)
TerminalAgain(w, s, evidence) ==
    /\ lock = None
    /\ OwnsLease(w)
    /\ TerminalAccepted(s, evidence)
    /\ lease.state = s
    /\ lease.evidence = evidence
    /\ lock' = w
    /\ pending' = TerminalBody(w, s, evidence, lease.heartbeat_at)
    /\ UNCHANGED <<clock, stepsBack, lease, terminal, epochs, held>>

(* terminal, second half: the terminal record is created, or replaced when  *)
(* it differs, and the handler leaves the lock; or it fails on the way.     *)
PersistTerminal(w) ==
    /\ lock = w
    /\ \E put \in Put : terminal' = IF Landed(put) THEN pending ELSE terminal
    /\ lock' = None
    /\ pending' = None
    /\ UNCHANGED <<clock, stepsBack, lease, epochs, held>>

Tick ==
    /\ clock < MaxClock
    /\ clock' = clock + 1
    /\ UNCHANGED <<stepsBack, lease, terminal, lock, pending, epochs, held>>

\* The host's wall clock is corrected backwards.
ClockSetBack ==
    /\ stepsBack < MaxStepsBack
    /\ clock > 0
    /\ clock' = clock - 1
    /\ stepsBack' = stepsBack + 1
    /\ UNCHANGED <<lease, terminal, lock, pending, epochs, held>>

LeaseRequest(w) ==
    \/ Acquire(w)
    \/ Heartbeat(w)
    \/ \E s \in {"stopped", "completed", "retired"}, e \in Evidence :
        Terminal(w, s, e) \/ TerminalAgain(w, s, e)
    \/ PersistTerminal(w)

LeaseNext == (\E w \in Writers : LeaseRequest(w)) \/ Tick \/ ClockSetBack

LeaseSpec == LeaseInit /\ [][LeaseNext]_leaseVars

-----------------------------------------------------------------------------
(* Properties.                                                              *)

\* An active lease, expired or orphaned by a lost acknowledgement, is only
\* ever renewed, or ended by the session that was told its epoch: acquire
\* takes over nothing (leases.py acquire, _transition_locked).
NoTakeover ==
    [][LeaseActive /\ lease' # lease =>
        /\ lease'.epoch = lease.epoch
        /\ \E w \in Writers : held[w] = lease.epoch]_leaseVars

\* The terminal record never speaks for a run after the lease's own, and when
\* it speaks for the lease's run the two agree on prefix, state, evidence and
\* instant, whatever was retried, lost or half done since (_persist_terminal).
TerminalAgreesWithLease ==
    terminal # None =>
        /\ lease # None
        /\ terminal.epoch <= lease.epoch
        /\ terminal.epoch = lease.epoch =>
            /\ lease.prefix = terminal.prefix
            /\ lease.state = terminal.state
            /\ lease.evidence = terminal.evidence
            /\ lease.heartbeat_at = terminal.occurred_at

\* As long as the clock has not been set back, a terminal record left over
\* from an earlier run is no newer than the present run's acquisition: this is
\* what the evaluator's lease_terminal_clock_conflict check relies on.
StaleTerminalPrecedesRun ==
    stepsBack = 0 /\ terminal # None /\ terminal.epoch < lease.epoch
        => terminal.occurred_at <= lease.acquired_at

\* A repeated terminal request never moves a run's terminal instant, which is
\* part of the retention anchor: the record changes only for a newer run.
TerminalInstantIsFinal ==
    [][terminal # None /\ terminal' # terminal
        => terminal'.epoch > terminal.epoch]_leaseVars
=============================================================================
