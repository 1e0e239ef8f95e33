----------------------- MODULE StreamingLeaseProofs -------------------------
(***************************************************************************)
(* Theorems of StreamingLease, for every number of sessions and other      *)
(* clients: the composition implements the lease service's specification,  *)
(* a running query has its session's active lease or a visible failure,    *)
(* and a clean exit has left a terminal record.                            *)
(***************************************************************************)
EXTENDS StreamingLease, LeaseManagerProofs

\* The points at which the session has its epoch and has not given it up.
Owning == {"body", "joining", "stopping", "finalizing"}

\* The stored lease is the session's own, and active.
OwnActive(w) == held[w] # 0 /\ LeaseActive /\ lease.epoch = held[w]

\* The terminal record speaks for the session's run or a later one.
TerminalReached(w) == terminal # None /\ terminal.epoch >= held[w]

\* Where the session's requests can be.
RequestsPlaced(w) ==
    /\ Answered(w, "acquire") => main[w] = "entering"
    /\ net[w]["terminal"] # "none" => main[w] \in Over \cup {"terminating"}
    /\ Answered(w, "terminal") => main[w] = "terminating"

\* What the session knows of its lease and of the terminal record is so.
LeaseKnown(w) ==
    /\ Answered(w, "acquire") \/ main[w] \in Owning => OwnActive(w)
    /\ main[w] \in {"terminating", "clean"} => held[w] # 0
    /\ Answered(w, "terminal") \/ main[w] = "clean" => TerminalReached(w)

\* A query is only started in the body, and left running only with an exception.
QueryMinded(w) ==
    /\ main[w] \in {"idle", "entering"} => query[w] = "none" /\ worker[w] = "none"
    /\ main[w] = "crashed" => query[w] # "active"
    /\ main[w] \in Exiting /\ worker[w] = "none" => raised[w]
    /\ main[w] \in {"finalizing", "terminating", "clean", "raised"} /\ query[w] = "active"
        => raised[w]
    /\ main[w] = "clean" => ~raised[w]

\* An epoch is known to one writer, and the record being persisted is of the
\* writer that has the lock.
Apart ==
    /\ \A v, w \in Writers : held[v] = held[w] /\ held[v] # 0 => v = w
    /\ \A w \in Writers : lock = w => pending.epoch = held[w]

SessionInv ==
    /\ LeaseInv
    /\ Apart
    /\ StreamTypeOK
    /\ \A w \in Sessions : RequestsPlaced(w) /\ LeaseKnown(w) /\ QueryMinded(w)

-----------------------------------------------------------------------------
(* The composition takes steps of the lease service only.                   *)

LEMMA StreamStepIsLeaseStep == StreamNext => [LeaseNext]_leaseVars
<1> SUFFICES ASSUME StreamNext PROVE [LeaseNext]_leaseVars
  OBVIOUS
<1>1. CASE OtherClients
  BY <1>1 DEF OtherClients, LeaseNext
<1>2. ASSUME NEW w \in Sessions, ServiceSteps(w) PROVE [LeaseNext]_leaseVars
  <2>1. /\ w \in Writers /\ TerminalStateOf[w] \in {"stopped", "completed", "retired"}
        /\ EvidenceOf[w] \in Evidence
    BY SessionAssumption
  <2>2. LeaseRequest(w) \/ UNCHANGED leaseVars
    BY <1>2, <2>1
    DEF ServiceSteps, ServeAcquire, ServeHeartbeat, ServeTerminal, ServePersist, ServeFails,
        LeaseRequest
  <2> QED
    BY <2>1, <2>2 DEF LeaseNext
<1>3. ASSUME NEW w \in Sessions,
             \/ Enter(w) \/ Entered(w) \/ StartQuery(w) \/ bind_query(w)
             \/ BindFails(w) \/ QueryEnds(w) \/ LeaveBody(w) \/ Crash(w)
             \/ MainExits(w) \/ WorkerSteps(w)
      PROVE  UNCHANGED leaseVars
  BY <1>3
  DEF Enter, Entered, StartQuery, bind_query, BindFails, QueryEnds, LeaveBody, Crash, MainExits, Join,
      StopQuery, FinalHeartbeat, Finish, WorkerSteps, WorkerBeats, WorkerEnds, WorkerAnswered,
      WorkerStopsQuery
<1> QED
  BY <1>1, <1>2, <1>3 DEF StreamNext

\* Sessions, their crashes and the lateness of their requests give the lease
\* service nothing to do that its own specification does not allow, so what is
\* proved of LeaseSpec holds beside every notebook (notebook_lease.py _call).
THEOREM StreamImplementsLease == StreamSpec => LeaseSpec
<1>1. StreamInit => LeaseInit
  BY DEF StreamInit
<1>2. [StreamNext]_streamVars => [LeaseNext]_leaseVars
  BY StreamStepIsLeaseStep DEF streamVars
<1> QED
  BY <1>1, <1>2, PTL DEF StreamSpec, LeaseSpec

-----------------------------------------------------------------------------
(* What other writers cannot do to a session's lease.                       *)

LEMMA ApartNext ==
    ASSUME LeaseInv, Apart, [LeaseNext]_leaseVars
    PROVE  Apart'
<1>0. /\ held \in [Writers -> 0..MaxEpoch] /\ epochs \in Nat /\ None \notin Writers
      /\ \A w \in Writers : held[w] \in Nat /\ held[w] <= epochs
  BY LeaseAssumption DEF LeaseInv, LeaseTypeOK, EpochsDrawn
<1>1. ASSUME NEW v \in Writers, Acquire(v) PROVE Apart'
  <2>1. lock' = None /\ epochs' = epochs + 1
    BY <1>1 DEF Acquire
  <2>2. held' = held \/ held' = [held EXCEPT ![v] = epochs + 1]
    BY <1>1 DEF Acquire
  <2>3. \A u \in Writers : held[u] # epochs + 1
    BY <1>0
  <2>4. \A u, w \in Writers : held'[u] = held'[w] /\ held'[u] # 0 => u = w
    <3>1. CASE held' = held
      BY <3>1 DEF Apart
    <3>2. CASE held' = [held EXCEPT ![v] = epochs + 1]
      BY <1>0, <2>3, <3>2 DEF Apart
    <3> QED
      BY <2>2, <3>1, <3>2
  <2> QED
    BY <1>0, <2>1, <2>4 DEF Apart
<1>2. ASSUME NEW v \in Writers, NEW s, NEW e \in Evidence, Terminal(v, s, e) \/ TerminalAgain(v, s, e)
      PROVE  Apart'
  <2>1. held' = held
    BY <1>2 DEF Terminal, TerminalAgain
  <2>2. CASE UNCHANGED <<lock, pending>>
    BY <2>1, <2>2 DEF Apart
  <2>3. CASE \E at : lock' = v /\ pending' = TerminalBody(v, s, e, at)
    <3>1. lock' = v /\ pending'.epoch = held[v]
      BY <2>3 DEF TerminalBody
    <3> QED
      BY <2>1, <3>1 DEF Apart
  <2> QED
    BY <1>2, <2>2, <2>3 DEF Terminal, TerminalAgain
<1>3. ASSUME NEW v \in Writers, PersistTerminal(v) PROVE Apart'
  BY <1>0, <1>3 DEF PersistTerminal, Apart
<1>4. ASSUME UNCHANGED <<lock, pending, held>> PROVE Apart'
  BY <1>4 DEF Apart
<1>5. CASE (\E v \in Writers : Heartbeat(v)) \/ Tick \/ ClockSetBack \/ UNCHANGED leaseVars
  BY <1>4, <1>5 DEF Heartbeat, Tick, ClockSetBack, leaseVars
<1> QED
  BY <1>1, <1>2, <1>3, <1>5 DEF LeaseNext, LeaseRequest

\* A step of the lease service other than the terminal request of w.
NotEnding(w) ==
    \/ \E v \in Writers \ {w} : LeaseRequest(v)
    \/ Acquire(w) \/ Heartbeat(w) \/ PersistTerminal(w)
    \/ Tick \/ ClockSetBack \/ UNCHANGED leaseVars

\* An active lease stays with the session that was told its epoch until that
\* session's own terminal request is handled.
LEMMA OwnActiveLasts ==
    ASSUME LeaseInv, Apart, NEW w \in Writers, OwnActive(w), NotEnding(w)
    PROVE  OwnActive(w)'
<1>0. LeaseTypeOK /\ lease # None /\ lease.state = "active"
  BY DEF LeaseInv, OwnActive, LeaseActive
<1>1. ASSUME UNCHANGED <<lease, held>> PROVE OwnActive(w)'
  BY <1>1 DEF OwnActive, LeaseActive
<1>2. ASSUME NEW v \in Writers, Acquire(v) PROVE OwnActive(w)'
  BY <1>0, <1>2 DEF Acquire, AcquireRefused
<1>3. ASSUME NEW v \in Writers, Heartbeat(v) PROVE OwnActive(w)'
  <2>1. lease' = Transitioned("active", None) /\ held' = held
    BY <1>3 DEF Heartbeat
  <2>2. lease' # None /\ lease'.epoch = lease.epoch /\ lease'.state = "active"
    BY <1>0, <2>1, TransitionedType
  <2> QED
    BY <2>1, <2>2 DEF OwnActive, LeaseActive
<1>4. ASSUME NEW v \in Writers \ {w}, NEW s \in {"stopped", "completed", "retired"},
             NEW e \in Evidence, Terminal(v, s, e)
      PROVE  FALSE
  <2>1. lease.epoch = held[v] /\ held[v] # 0
    BY <1>4 DEF Terminal, OwnsLease
  <2> QED
    BY <2>1 DEF OwnActive, Apart
<1>5. CASE \/ \E v \in Writers : PersistTerminal(v)
           \/ \E v \in Writers, s \in {"stopped", "completed", "retired"}, e \in Evidence :
                TerminalAgain(v, s, e)
           \/ Tick \/ ClockSetBack \/ UNCHANGED leaseVars
  BY <1>1, <1>5 DEF PersistTerminal, TerminalAgain, Tick, ClockSetBack, leaseVars
<1> QED
  BY <1>2, <1>3, <1>4, <1>5 DEF NotEnding, LeaseRequest

\* Once a run has its terminal record, no earlier run's record replaces it.
LEMMA TerminalReachedLasts ==
    ASSUME LeaseInv, NEW w \in Writers, held[w] # 0, TerminalReached(w), [LeaseNext]_leaseVars
    PROVE  TerminalReached(w)'
<1>0. /\ LeaseTypeOK /\ LeaseTypeOK' /\ terminal \in TerminalRecord
      /\ held \in [Writers -> 0..MaxEpoch] /\ held[w] \in Nat
  BY LeaseInvNext, LeaseAssumption DEF LeaseInv, LeaseTypeOK, TerminalReached
<1>1. held'[w] = held[w]
  BY <1>0
  DEF LeaseNext, LeaseRequest, Acquire, Heartbeat, Terminal, TerminalAgain, PersistTerminal,
      Tick, ClockSetBack, leaseVars
<1>2. CASE terminal' = terminal
  BY <1>1, <1>2 DEF TerminalReached
<1>3. CASE terminal' # terminal
  <2>1. LeaseNext
    BY <1>3 DEF leaseVars
  <2>2. terminal'.epoch > terminal.epoch
    BY <1>3, <2>1, TerminalInstantStep DEF TerminalReached
  <2>3. \E v \in Writers : PersistTerminal(v)
    BY <1>3, <2>1
    DEF LeaseNext, LeaseRequest, Acquire, Heartbeat, Terminal, TerminalAgain, Tick, ClockSetBack
  <2>4. terminal' \in TerminalRecord /\ terminal' # None
    BY <1>3, <2>3, NoneAssumption DEF PersistTerminal, LeaseInv, PendingAgrees
  <2>5. terminal.epoch \in Nat /\ terminal'.epoch \in Nat
    BY <1>0, <2>4, LeaseAssumption DEF TerminalRecord, Epoch
  <2> QED
    BY <1>0, <1>1, <2>2, <2>4, <2>5 DEF TerminalReached
<1> QED
  BY <1>2, <1>3

-----------------------------------------------------------------------------
(* The steps of one session.                                                *)

Answers == {"none", "request", "serving", "ok", "failed"}

ClientTyped ==
    /\ main \in [Sessions -> {"idle", "entering", "body"} \cup Exiting \cup Over]
    /\ worker \in [Sessions -> {"none", "waiting", "posting", "failing", "unheeded", "done"}]
    /\ query \in [Sessions -> {"none", "active", "inactive"}]
    /\ stop \in [Sessions -> BOOLEAN]
    /\ raised \in [Sessions -> BOOLEAN]
    /\ workerFailed \in [Sessions -> BOOLEAN]
    /\ net \in [Sessions -> [Kinds -> Answers]]

\* The step is of session w, which stays within its rules.
Moved(w) ==
    /\ ClientTyped'
    /\ \A v \in Sessions \ {w} :
        /\ main'[v] = main[v] /\ worker'[v] = worker[v] /\ query'[v] = query[v]
        /\ raised'[v] = raised[v] /\ net'[v] = net[v]
    /\ RequestsPlaced(w)' /\ LeaseKnown(w)' /\ QueryMinded(w)'

\* What a session may assume when it starts a step.
LEMMA SessionBefore ==
    ASSUME SessionInv, NEW w \in Sessions
    PROVE  ClientTyped /\ RequestsPlaced(w) /\ LeaseKnown(w) /\ QueryMinded(w)
BY DEF SessionInv, StreamTypeOK, ClientTyped, Answers

\* One entry of the network is set.
LEMMA NetSet ==
    ASSUME net \in [Sessions -> [Kinds -> Answers]], NEW w \in Sessions, NEW k \in Kinds,
           NEW a \in Answers, net' = [net EXCEPT ![w][k] = a]
    PROVE  /\ net' \in [Sessions -> [Kinds -> Answers]]
           /\ net'[w][k] = a
           /\ \A j \in Kinds \ {k} : net'[w][j] = net[w][j]
           /\ \A v \in Sessions \ {w} : net'[v] = net[v]
OBVIOUS

\* An answer is taken.
LEMMA NetTaken ==
    ASSUME net \in [Sessions -> [Kinds -> Answers]], NEW w \in Sessions, NEW k \in Kinds,
           net' = Taken(w, k)
    PROVE  /\ net' \in [Sessions -> [Kinds -> Answers]]
           /\ net'[w][k] = IF net[w][k] \in {"ok", "failed"} THEN "none" ELSE net[w][k]
           /\ \A j \in Kinds \ {k} : net'[w][j] = net[w][j]
           /\ \A v \in Sessions \ {w} : net'[v] = net[v]
<1> DEFINE a == IF net[w][k] \in {"ok", "failed"} THEN "none" ELSE net[w][k]
<1>1. net' = [net EXCEPT ![w][k] = a]
  BY DEF Taken
<1>2. a \in Answers
  BY DEF Answers
<1> HIDE DEF a
<1>3. /\ net' \in [Sessions -> [Kinds -> Answers]]
      /\ net'[w][k] = a
      /\ \A j \in Kinds \ {k} : net'[w][j] = net[w][j]
      /\ \A v \in Sessions \ {w} : net'[v] = net[v]
  BY <1>1, <1>2, NetSet
<1> QED
  BY <1>3 DEF a

\* While the service does nothing, a session keeps what it knows of it.
LEMMA SameLease ==
    ASSUME UNCHANGED leaseVars, NEW w \in Sessions
    PROVE  /\ OwnActive(w) => OwnActive(w)'
           /\ TerminalReached(w) => TerminalReached(w)'
           /\ held'[w] = held[w]
BY DEF leaseVars, OwnActive, LeaseActive, TerminalReached

LEMMA BodyMoved ==
    ASSUME SessionInv, NEW w \in Sessions,
           \/ StartQuery(w) \/ bind_query(w) \/ BindFails(w)
           \/ QueryEnds(w) \/ LeaveBody(w) \/ Join(w)
    PROVE  Moved(w)
<1>0. /\ ClientTyped /\ RequestsPlaced(w) /\ LeaseKnown(w) /\ QueryMinded(w)
      /\ UNCHANGED leaseVars /\ net' = net
  BY SessionBefore DEF StartQuery, bind_query, BindFails, QueryEnds, LeaveBody, Join
<1>1. /\ OwnActive(w) => OwnActive(w)'
      /\ TerminalReached(w) => TerminalReached(w)'
      /\ held'[w] = held[w]
  BY <1>0, SameLease
<1> USE <1>0, <1>1
    DEF Moved, ClientTyped, RequestsPlaced, LeaseKnown, QueryMinded, Answered, Owning,
        Exiting, Over
<1>2. CASE StartQuery(w)
  BY <1>2 DEF StartQuery
<1>3. CASE bind_query(w)
  BY <1>3 DEF bind_query
<1>4. CASE QueryEnds(w)
  <2>1. query'[w] = "inactive" /\ UNCHANGED <<main, worker, raised, net, stop, workerFailed>>
    BY <1>4 DEF QueryEnds
  <2>2. \A v \in Sessions \ {w} : query'[v] = query[v]
    BY <1>4 DEF QueryEnds
  <2>3. ClientTyped'
    BY <1>4 DEF QueryEnds
  <2>4. QueryMinded(w)'
    BY <1>4, <2>1 DEF QueryEnds
  <2> QED
    BY <2>1, <2>2, <2>3, <2>4
<1>5. CASE LeaveBody(w)
  BY <1>5 DEF LeaveBody
<1>6. CASE Join(w)
  BY <1>6 DEF Join
<1>7. CASE BindFails(w)
  BY <1>7 DEF BindFails
<1> QED
  BY <1>2, <1>3, <1>4, <1>5, <1>6, <1>7

LEMMA EnterMoved ==
    ASSUME SessionInv, NEW w \in Sessions, Enter(w) \/ Entered(w)
    PROVE  Moved(w)
<1>0. /\ ClientTyped /\ RequestsPlaced(w) /\ LeaseKnown(w) /\ QueryMinded(w)
      /\ UNCHANGED leaseVars /\ "acquire" \in Kinds /\ "terminal" \in Kinds
      /\ "request" \in Answers
  BY SessionBefore DEF Enter, Entered, Kinds, Answers
<1>1. /\ OwnActive(w) => OwnActive(w)'
      /\ TerminalReached(w) => TerminalReached(w)'
      /\ held'[w] = held[w]
  BY <1>0, SameLease
<1>2. CASE Enter(w)
  <2>1. /\ net' \in [Sessions -> [Kinds -> Answers]]
        /\ net'[w]["acquire"] = "request" /\ net'[w]["terminal"] = net[w]["terminal"]
        /\ \A v \in Sessions \ {w} : net'[v] = net[v]
    BY <1>0, <1>2, NetSet DEF Enter, Send, ClientTyped
  <2> QED
    BY <1>0, <1>1, <1>2, <2>1
    DEF Enter, Moved, ClientTyped, RequestsPlaced, LeaseKnown, QueryMinded, Answered, Owning,
        Exiting, Over
<1>3. CASE Entered(w)
  <2>1. /\ net' \in [Sessions -> [Kinds -> Answers]]
        /\ net'[w]["acquire"] =
            IF net[w]["acquire"] \in {"ok", "failed"} THEN "none" ELSE net[w]["acquire"]
        /\ net'[w]["terminal"] = net[w]["terminal"]
        /\ \A v \in Sessions \ {w} : net'[v] = net[v]
    BY <1>0, <1>3, NetTaken DEF Entered, ClientTyped
  <2> QED
    BY <1>0, <1>1, <1>3, <2>1
    DEF Entered, Moved, ClientTyped, RequestsPlaced, LeaseKnown, QueryMinded, Answered, Owning,
        Exiting, Over
<1> QED
  BY <1>2, <1>3

LEMMA ExitMoved ==
    ASSUME SessionInv, NEW w \in Sessions, StopQuery(w) \/ FinalHeartbeat(w) \/ Finish(w)
    PROVE  Moved(w)
<1>0. /\ ClientTyped /\ RequestsPlaced(w) /\ LeaseKnown(w) /\ QueryMinded(w)
      /\ UNCHANGED leaseVars /\ "acquire" \in Kinds /\ "terminal" \in Kinds /\ "final" \in Kinds
      /\ "request" \in Answers /\ net \in [Sessions -> [Kinds -> Answers]]
  BY SessionBefore DEF StopQuery, FinalHeartbeat, Finish, Kinds, Answers, ClientTyped
<1>1. /\ OwnActive(w) => OwnActive(w)'
      /\ TerminalReached(w) => TerminalReached(w)'
      /\ held'[w] = held[w]
      /\ OwnActive(w) => held[w] # 0
  BY <1>0, SameLease DEF OwnActive
<1>2. CASE StopQuery(w)
  <2>1. /\ net' \in [Sessions -> [Kinds -> Answers]]
        /\ net'[w]["acquire"] = net[w]["acquire"] /\ net'[w]["terminal"] = net[w]["terminal"]
        /\ \A v \in Sessions \ {w} : net'[v] = net[v]
    <3>1. CASE net' = net
      BY <1>0, <3>1
    <3>2. CASE Send(w, "final")
      BY <1>0, <3>2, NetSet DEF Send
    <3> QED
      BY <1>2, <3>1, <3>2 DEF StopQuery
  <2> QED
    BY <1>0, <1>1, <1>2, <2>1
    DEF StopQuery, Moved, ClientTyped, RequestsPlaced, LeaseKnown, QueryMinded, Answered,
        Owning, Exiting, Over
<1>3. CASE FinalHeartbeat(w)
  <2>1. /\ net' \in [Sessions -> [Kinds -> Answers]]
        /\ net'[w]["acquire"] = net[w]["acquire"]
        /\ net'[w]["terminal"] = IF main'[w] = "terminating" THEN "request" ELSE net[w]["terminal"]
        /\ \A v \in Sessions \ {w} : net'[v] = net[v]
    <3>1. CASE main' = [main EXCEPT ![w] = "raised"] /\ net' = Taken(w, "final")
      BY <1>0, <3>1, NetTaken DEF ClientTyped
    <3>2. CASE /\ main' = [main EXCEPT ![w] = "terminating"]
               /\ net' = [Taken(w, "final") EXCEPT ![w]["terminal"] = "request"]
      <4> DEFINE a == IF net[w]["final"] \in {"ok", "failed"} THEN "none" ELSE net[w]["final"]
                 n == [net EXCEPT ![w]["final"] = a]
      <4>1. n = Taken(w, "final") /\ a \in Answers
        BY <1>0 DEF Taken, Answers
      <4> HIDE DEF a
      <4>2. /\ n \in [Sessions -> [Kinds -> Answers]] /\ n[w]["acquire"] = net[w]["acquire"]
            /\ \A v \in Sessions \ {w} : n[v] = net[v]
        BY <1>0, <4>1
      <4> HIDE DEF n
      <4>3. /\ net' \in [Sessions -> [Kinds -> Answers]] /\ net'[w]["terminal"] = "request"
            /\ net'[w]["acquire"] = n[w]["acquire"]
            /\ \A v \in Sessions \ {w} : net'[v] = n[v]
        BY <1>0, <3>2, <4>1, <4>2
      <4>4. main'[w] = "terminating"
        BY <1>0, <3>2 DEF ClientTyped
      <4> QED
        BY <4>2, <4>3, <4>4
    <3> QED
      BY <1>3, <3>1, <3>2 DEF FinalHeartbeat
  <2>2. /\ main[w] = "finalizing" /\ main'[w] \in {"terminating", "raised"}
        /\ worker' = worker /\ query' = query
        /\ raised[w] => raised'[w]
        /\ main'[w] = "raised" => raised'[w]
    BY <1>0, <1>3 DEF FinalHeartbeat, ClientTyped
  <2>3. /\ \A v \in Sessions \ {w} : main'[v] = main[v] /\ raised'[v] = raised[v]
        /\ ClientTyped'
    BY <1>0, <1>3, <2>1 DEF FinalHeartbeat, ClientTyped, Exiting, Over
  <2>4. RequestsPlaced(w)' /\ LeaseKnown(w)'
    BY <1>0, <1>1, <2>1, <2>2 DEF RequestsPlaced, LeaseKnown, Answered, Owning, Over
  <2>5. QueryMinded(w)'
    BY <1>0, <2>2 DEF QueryMinded, Exiting
  <2> QED
    BY <2>1, <2>2, <2>3, <2>4, <2>5 DEF Moved
<1>4. CASE Finish(w)
  <2>1. /\ net' \in [Sessions -> [Kinds -> Answers]]
        /\ net'[w]["acquire"] = net[w]["acquire"]
        /\ net'[w]["terminal"] # "ok"
        /\ \A v \in Sessions \ {w} : net'[v] = net[v]
    BY <1>0, <1>4, NetTaken DEF Finish
  <2> QED
    BY <1>0, <1>1, <1>4, <2>1
    DEF Finish, Moved, ClientTyped, RequestsPlaced, LeaseKnown, QueryMinded, Answered,
        Owning, Exiting, Over
<1> QED
  BY <1>2, <1>3, <1>4

LEMMA WorkerMoved ==
    ASSUME SessionInv, NEW w \in Sessions, WorkerSteps(w)
    PROVE  Moved(w)
<1>0. /\ ClientTyped /\ RequestsPlaced(w) /\ LeaseKnown(w) /\ QueryMinded(w)
      /\ UNCHANGED leaseVars /\ "heartbeat" \in Kinds /\ "request" \in Answers
      /\ "acquire" \in Kinds \ {"heartbeat"} /\ "terminal" \in Kinds \ {"heartbeat"}
      /\ net \in [Sessions -> [Kinds -> Answers]]
  BY SessionBefore
  DEF WorkerSteps, WorkerBeats, WorkerEnds, WorkerAnswered, WorkerStopsQuery, Kinds, Answers,
      ClientTyped
<1>1. /\ OwnActive(w) => OwnActive(w)'
      /\ TerminalReached(w) => TerminalReached(w)'
      /\ held'[w] = held[w]
  BY <1>0, SameLease
<1>2. /\ net' \in [Sessions -> [Kinds -> Answers]]
      /\ net'[w]["acquire"] = net[w]["acquire"] /\ net'[w]["terminal"] = net[w]["terminal"]
      /\ \A v \in Sessions \ {w} : net'[v] = net[v]
  <2>1. CASE net' = net
    BY <1>0, <2>1
  <2>2. CASE Send(w, "heartbeat")
    BY <1>0, <2>2, NetSet DEF Send
  <2>3. CASE net' = Taken(w, "heartbeat")
    BY <1>0, <2>3, NetTaken
  <2> QED
    BY <2>1, <2>2, <2>3
    DEF WorkerSteps, WorkerBeats, WorkerEnds, WorkerAnswered, WorkerStopsQuery
<1>3. /\ main' = main /\ raised' = raised
      /\ worker[w] # "none" /\ worker'[w] # "none"
      /\ query'[w] = query[w] \/ query'[w] = "inactive"
      /\ \A v \in Sessions \ {w} : worker'[v] = worker[v] /\ query'[v] = query[v]
  BY <1>0
  DEF WorkerSteps, WorkerBeats, WorkerEnds, WorkerAnswered, WorkerStopsQuery, ClientTyped
<1>4. ClientTyped'
  BY <1>0, <1>2
  DEF WorkerSteps, WorkerBeats, WorkerEnds, WorkerAnswered, WorkerStopsQuery, ClientTyped
<1>5. RequestsPlaced(w)' /\ LeaseKnown(w)'
  BY <1>0, <1>1, <1>2, <1>3 DEF RequestsPlaced, LeaseKnown, Answered
<1>6. QueryMinded(w)'
  BY <1>0, <1>3 DEF QueryMinded
<1> QED
  BY <1>2, <1>3, <1>4, <1>5, <1>6 DEF Moved

LEMMA CrashMoved ==
    ASSUME SessionInv, NEW w \in Sessions, Crash(w)
    PROVE  Moved(w)
<1>0. /\ ClientTyped /\ RequestsPlaced(w) /\ LeaseKnown(w) /\ QueryMinded(w)
      /\ "acquire" \in Kinds /\ "terminal" \in Kinds
      /\ net \in [Sessions -> [Kinds -> Answers]]
  BY SessionBefore DEF Kinds, ClientTyped
<1>1. \A k \in Kinds : Taken(w, k)[w][k] \in Answers \ {"ok"}
  BY <1>0 DEF Taken, Answers
<1> DEFINE row == [k \in Kinds |-> Taken(w, k)[w][k]]
<1>2. row \in [Kinds -> Answers] /\ \A k \in Kinds : row[k] # "ok"
  BY <1>1
<1>3. net' = [net EXCEPT ![w] = row]
  BY DEF Crash
<1> HIDE DEF row
<1>4. /\ net' \in [Sessions -> [Kinds -> Answers]]
      /\ net'[w]["acquire"] # "ok" /\ net'[w]["terminal"] # "ok"
      /\ \A v \in Sessions \ {w} : net'[v] = net[v]
  BY <1>0, <1>2, <1>3
<1>5. main'[w] = "crashed" /\ query'[w] # "active"
  BY <1>0 DEF Crash, ClientTyped
<1>6. \A v \in Sessions \ {w} : /\ main'[v] = main[v] /\ worker'[v] = worker[v]
                                /\ query'[v] = query[v] /\ raised'[v] = raised[v]
  BY <1>0 DEF Crash, ClientTyped
<1>7. ClientTyped'
  BY <1>0, <1>4 DEF Crash, ClientTyped, Over
<1> QED
  BY <1>4, <1>5, <1>6, <1>7
  DEF Moved, RequestsPlaced, LeaseKnown, QueryMinded, Answered, Owning, Exiting, Over

-----------------------------------------------------------------------------
(* The steps of the service for one session.                                *)

\* A reply sets one entry of the network, and tells only who waits.
LEMMA ReplySets ==
    ASSUME net \in [Sessions -> [Kinds -> Answers]], NEW w \in Sessions, NEW k \in Kinds,
           NEW answers \in SUBSET Answers, Reply(w, k, answers)
    PROVE  /\ net' \in [Sessions -> [Kinds -> Answers]]
           /\ net'[w][k] \in answers \cup {"none"}
           /\ net'[w][k] = "ok" => Waiting(w, k)
           /\ \A j \in Kinds \ {k} : net'[w][j] = net[w][j]
           /\ \A v \in Sessions \ {w} : net'[v] = net[v]
<1>1. PICK a \in answers :
        net' = [net EXCEPT ![w][k] = IF Waiting(w, k) \/ a = "serving" THEN a ELSE "none"]
  BY DEF Reply
<1> DEFINE b == IF Waiting(w, k) \/ a = "serving" THEN a ELSE "none"
<1>2. b \in Answers /\ b \in answers \cup {"none"} /\ (b = "ok" => Waiting(w, k))
  BY DEF Answers
<1>3. net' = [net EXCEPT ![w][k] = b]
  BY <1>1
<1> HIDE DEF b
<1> QED
  BY <1>2, <1>3, NetSet

LEMMA ServeAcquireMoved ==
    ASSUME SessionInv, NEW w \in Sessions, ServeAcquire(w)
    PROVE  Moved(w)
<1>0. /\ ClientTyped /\ RequestsPlaced(w) /\ LeaseKnown(w) /\ QueryMinded(w) /\ w \in Writers
      /\ net \in [Sessions -> [Kinds -> Answers]] /\ "acquire" \in Kinds
      /\ "terminal" \in Kinds \ {"acquire"} /\ held \in [Writers -> 0..MaxEpoch]
      /\ epochs \in Nat
  BY SessionBefore, SessionAssumption, LeaseAssumption
  DEF Kinds, ClientTyped, SessionInv, LeaseInv, LeaseTypeOK
<1> DEFINE answer == IF held'[w] # 0 THEN "ok" ELSE "failed"
<1>1. {answer} \in SUBSET Answers /\ Reply(w, "acquire", {answer})
  BY DEF ServeAcquire, Answers
<1>2. /\ net' \in [Sessions -> [Kinds -> Answers]]
      /\ net'[w]["acquire"] \in {answer, "none"}
      /\ net'[w]["acquire"] = "ok" => main[w] = "entering"
      /\ net'[w]["terminal"] = net[w]["terminal"]
      /\ \A v \in Sessions \ {w} : net'[v] = net[v]
  BY <1>0, <1>1, ReplySets DEF Waiting
<1>3. /\ UNCHANGED <<main, worker, query, stop, raised, workerFailed>>
      /\ held[w] = 0 /\ Acquire(w) /\ terminal' = terminal
  BY DEF ServeAcquire, ServeUnchanged, Acquire
<1>4. main[w] \notin Owning \cup {"terminating", "clean"} /\ ~Answered(w, "terminal")
  BY <1>0, <1>3 DEF LeaseKnown, OwnActive, RequestsPlaced
<1>5. ASSUME held'[w] # 0 PROVE OwnActive(w)'
  <2>1. /\ held' = [held EXCEPT ![w] = epochs + 1]
        /\ lease' = [prefix |-> PrefixOf[w], epoch |-> epochs + 1, state |-> "active",
                     acquired_at |-> clock, heartbeat_at |-> clock, evidence |-> None]
    BY <1>3, <1>5 DEF Acquire, Landed, Put
  <2>2. lease' # None
    BY <1>0, <1>3, <2>1, AcquiredType DEF SessionInv, LeaseInv, Acquire
  <2> QED
    BY <1>0, <1>5, <2>1, <2>2 DEF OwnActive, LeaseActive
<1>6. RequestsPlaced(w)' /\ LeaseKnown(w)'
  BY <1>0, <1>2, <1>3, <1>4, <1>5 DEF RequestsPlaced, LeaseKnown, Answered
<1>7. QueryMinded(w)' /\ ClientTyped'
  BY <1>0, <1>2, <1>3 DEF QueryMinded, ClientTyped
<1> QED
  BY <1>2, <1>3, <1>6, <1>7 DEF Moved

LEMMA ServeOtherMoved ==
    ASSUME SessionInv, NEW w \in Sessions,
           \/ \E k \in {"heartbeat", "final"} : ServeHeartbeat(w, k)
           \/ \E k \in Kinds : ServeFails(w, k)
    PROVE  Moved(w)
<1>0. /\ ClientTyped /\ RequestsPlaced(w) /\ LeaseKnown(w) /\ QueryMinded(w) /\ w \in Writers
      /\ net \in [Sessions -> [Kinds -> Answers]] /\ "acquire" \in Kinds /\ "terminal" \in Kinds
      /\ LeaseInv /\ Apart
  BY SessionBefore, SessionAssumption DEF Kinds, ClientTyped, SessionInv
<1>1. NotEnding(w) /\ [LeaseNext]_leaseVars
  BY <1>0 DEF NotEnding, ServeHeartbeat, ServeFails, LeaseNext, LeaseRequest
<1>2. PICK k \in Kinds, answers \in SUBSET Answers :
        /\ Reply(w, k, answers) /\ net[w][k] = "request"
        /\ "serving" \notin answers /\ (k \in {"acquire", "terminal"} => answers = {"failed"})
  <2>1. CASE \E k \in {"heartbeat", "final"} : ServeHeartbeat(w, k)
    <3>1. PICK k \in {"heartbeat", "final"} : ServeHeartbeat(w, k)
      BY <2>1
    <3>2. k \in Kinds /\ {"ok", "failed"} \in SUBSET Answers
      BY DEF Kinds, Answers
    <3> QED
      BY <3>1, <3>2 DEF ServeHeartbeat
  <2>2. CASE \E k \in Kinds : ServeFails(w, k)
    <3>1. PICK k \in Kinds : ServeFails(w, k)
      BY <2>2
    <3>2. {"failed"} \in SUBSET Answers
      BY DEF Answers
    <3> QED
      BY <3>1, <3>2 DEF ServeFails
  <2> QED
    BY <2>1, <2>2
<1>3. /\ net' \in [Sessions -> [Kinds -> Answers]]
      /\ net'[w][k] \in answers \cup {"none"}
      /\ \A j \in Kinds \ {k} : net'[w][j] = net[w][j]
      /\ \A v \in Sessions \ {w} : net'[v] = net[v]
  BY <1>0, <1>2, ReplySets
<1>4. /\ net'[w]["acquire"] = "ok" => net[w]["acquire"] = "ok"
      /\ net'[w]["terminal"] = "ok" => net[w]["terminal"] = "ok"
      /\ net'[w]["terminal"] # "none" => net[w]["terminal"] # "none"
  BY <1>0, <1>2, <1>3
<1>5. UNCHANGED <<main, worker, query, stop, raised, workerFailed>>
  BY DEF ServeHeartbeat, ServeFails, ServeUnchanged
<1>6. /\ OwnActive(w) => OwnActive(w)'
      /\ held'[w] = held[w]
      /\ TerminalReached(w) /\ held[w] # 0 => TerminalReached(w)'
  <2>1. OwnActive(w) => OwnActive(w)'
    BY <1>0, <1>1, OwnActiveLasts
  <2>2. held'[w] = held[w]
    BY DEF ServeHeartbeat, ServeFails, Heartbeat, leaseVars
  <2>3. TerminalReached(w) /\ held[w] # 0 => TerminalReached(w)'
    BY <1>0, <1>1, TerminalReachedLasts
  <2> QED
    BY <2>1, <2>2, <2>3
<1>7. RequestsPlaced(w)' /\ LeaseKnown(w)'
  BY <1>0, <1>4, <1>5, <1>6 DEF RequestsPlaced, LeaseKnown, Answered, OwnActive
<1>8. QueryMinded(w)' /\ ClientTyped'
  BY <1>0, <1>3, <1>5 DEF QueryMinded, ClientTyped
<1> QED
  BY <1>3, <1>5, <1>7, <1>8 DEF Moved

LEMMA ServeTerminalMoved ==
    ASSUME SessionInv, NEW w \in Sessions, ServeTerminal(w) \/ ServePersist(w)
    PROVE  Moved(w)
<1>0. /\ ClientTyped /\ RequestsPlaced(w) /\ LeaseKnown(w) /\ QueryMinded(w) /\ w \in Writers
      /\ net \in [Sessions -> [Kinds -> Answers]] /\ "terminal" \in Kinds
      /\ "acquire" \in Kinds \ {"terminal"} /\ LeaseInv /\ Apart
      /\ None \notin Writers
  BY SessionBefore, SessionAssumption, LeaseAssumption DEF Kinds, ClientTyped, SessionInv
<1>1. main[w] \in Over \cup {"terminating"} /\ ~Answered(w, "acquire")
  BY <1>0 DEF ServeTerminal, ServePersist, RequestsPlaced, Over
<1>2. held' = held /\ UNCHANGED <<main, worker, query, stop, raised, workerFailed>>
  BY DEF ServeTerminal, ServePersist, Terminal, TerminalAgain, PersistTerminal, ServeUnchanged
<1>3. StreamNext
  BY DEF StreamNext, ServiceSteps
<1>4. TerminalReached(w) /\ held[w] # 0 => TerminalReached(w)'
  BY <1>0, <1>3, StreamStepIsLeaseStep, TerminalReachedLasts
<1>5. PICK answers \in SUBSET Answers :
        /\ Reply(w, "terminal", answers)
        /\ "ok" \in answers => TerminalReached(w)'
  <2>1. CASE ServeTerminal(w)
    <3> DEFINE answer == IF lock' = w THEN "serving" ELSE "failed"
    <3>1. Reply(w, "terminal", {answer}) /\ {answer} \in SUBSET Answers /\ "ok" \notin {answer}
      BY <2>1 DEF ServeTerminal, Answers
    <3> QED
      BY <3>1
  <2>2. CASE ServePersist(w) /\ terminal' = pending
    <3>1. Reply(w, "terminal", {"ok", "failed"}) /\ {"ok", "failed"} \in SUBSET Answers
      BY <2>2 DEF ServePersist, Answers
    <3>2. lock = w
      BY <2>2 DEF ServePersist, PersistTerminal
    <3>3. pending \in TerminalRecord /\ pending.epoch = held[w]
      BY <1>0, <3>2 DEF LeaseInv, PendingAgrees, Apart
    <3>4. pending # None /\ pending.epoch \in Nat
      BY <3>3, NoneAssumption, LeaseAssumption DEF TerminalRecord, Epoch
    <3>5. TerminalReached(w)'
      BY <1>2, <2>2, <3>3, <3>4 DEF TerminalReached
    <3> QED
      BY <3>1, <3>5
  <2>3. CASE ServePersist(w) /\ terminal' # pending
    <3>1. Reply(w, "terminal", {"failed"}) /\ {"failed"} \in SUBSET Answers
      BY <2>3 DEF ServePersist, Answers
    <3> QED
      BY <3>1
  <2> QED
    BY <2>1, <2>2, <2>3
<1>6. /\ net' \in [Sessions -> [Kinds -> Answers]]
      /\ net'[w]["terminal"] \in answers \cup {"none"}
      /\ net'[w]["terminal"] = "ok" => main[w] = "terminating"
      /\ net'[w]["acquire"] = net[w]["acquire"]
      /\ \A v \in Sessions \ {w} : net'[v] = net[v]
  BY <1>0, <1>5, ReplySets DEF Waiting
<1>7. RequestsPlaced(w)'
  BY <1>0, <1>1, <1>2, <1>6 DEF RequestsPlaced, Answered
<1>8. LeaseKnown(w)'
  BY <1>0, <1>1, <1>2, <1>4, <1>5, <1>6 DEF LeaseKnown, Answered, Owning, Over
<1>9. QueryMinded(w)' /\ ClientTyped'
  BY <1>0, <1>2, <1>6 DEF QueryMinded, ClientTyped
<1> QED
  BY <1>2, <1>6, <1>7, <1>8, <1>9 DEF Moved

-----------------------------------------------------------------------------
(* The inductive invariant and the theorems.                                *)

\* A session that does nothing keeps what it knows, whoever moves.
LEMMA BystanderKnows ==
    ASSUME SessionInv, NEW w \in Sessions, NotEnding(w), [LeaseNext]_leaseVars,
           main'[w] = main[w], worker'[w] = worker[w], query'[w] = query[w],
           raised'[w] = raised[w], net'[w] = net[w], held[w] # 0 => held'[w] = held[w]
    PROVE  RequestsPlaced(w)' /\ LeaseKnown(w)' /\ QueryMinded(w)'
<1>0. /\ RequestsPlaced(w) /\ LeaseKnown(w) /\ QueryMinded(w) /\ w \in Writers
      /\ LeaseInv /\ Apart
  BY SessionBefore, SessionAssumption DEF SessionInv
<1>1. OwnActive(w) => OwnActive(w)'
  BY <1>0, OwnActiveLasts
<1>2. TerminalReached(w) /\ held[w] # 0 => TerminalReached(w)'
  BY <1>0, TerminalReachedLasts
<1>3. Answered(w, "terminal") \/ main[w] = "clean" => held[w] # 0
  BY <1>0 DEF LeaseKnown, RequestsPlaced
<1>4. LeaseKnown(w)'
  BY <1>0, <1>1, <1>2, <1>3 DEF LeaseKnown, Answered
<1> QED
  BY <1>0, <1>4 DEF RequestsPlaced, QueryMinded, Answered

\* No lease step takes back an epoch that was told.
LEMMA HeldKept ==
    ASSUME LeaseInv, [LeaseNext]_leaseVars, NEW w \in Writers, held[w] # 0
    PROVE  held'[w] = held[w]
<1>1. held \in [Writers -> 0..MaxEpoch]
  BY DEF LeaseInv, LeaseTypeOK
<1> QED
  BY <1>1
  DEF LeaseNext, LeaseRequest, Acquire, Heartbeat, Terminal, TerminalAgain, PersistTerminal,
      Tick, ClockSetBack, leaseVars

LEMMA SessionInvNext ==
    ASSUME SessionInv, [StreamNext]_streamVars
    PROVE  SessionInv'
<1>0. LeaseInv /\ Apart /\ [LeaseNext]_leaseVars /\ ClientTyped
  BY StreamStepIsLeaseStep DEF SessionInv, StreamTypeOK, ClientTyped, Answers, streamVars
<1>1. LeaseInv' /\ Apart' /\ LeaseTypeOK'
  BY <1>0, LeaseInvNext, ApartNext DEF LeaseInv
<1>2. ASSUME ClientTyped',
             \A w \in Sessions : RequestsPlaced(w)' /\ LeaseKnown(w)' /\ QueryMinded(w)'
      PROVE  SessionInv'
  BY <1>1, <1>2 DEF SessionInv, StreamTypeOK, ClientTyped, Answers
<1>3. CASE OtherClients \/ UNCHANGED streamVars
  <2>1. UNCHANGED <<main, worker, query, stop, raised, workerFailed, net>>
    BY <1>3 DEF OtherClients, clientVars, streamVars
  <2>2. ASSUME NEW w \in Sessions PROVE NotEnding(w)
    BY <1>3, SessionAssumption DEF OtherClients, NotEnding, streamVars
  <2>3. \A w \in Sessions : RequestsPlaced(w)' /\ LeaseKnown(w)' /\ QueryMinded(w)'
    BY <1>0, <2>1, <2>2, BystanderKnows, HeldKept, SessionAssumption
  <2> QED
    BY <1>0, <1>2, <2>1, <2>3 DEF ClientTyped
<1>4. ASSUME NEW w \in Sessions,
             \/ Enter(w) \/ Entered(w) \/ StartQuery(w) \/ bind_query(w)
             \/ BindFails(w) \/ QueryEnds(w) \/ LeaveBody(w) \/ Crash(w)
             \/ MainExits(w) \/ WorkerSteps(w) \/ ServiceSteps(w)
      PROVE  SessionInv'
  <2>1. Moved(w)
    BY <1>4, BodyMoved, EnterMoved, ExitMoved, WorkerMoved, CrashMoved, ServeAcquireMoved,
       ServeOtherMoved, ServeTerminalMoved
    DEF MainExits, ServiceSteps
  <2>2. ASSUME NEW v \in Sessions \ {w} PROVE NotEnding(v)
    <3>1. w \in Writers \ {v} /\ TerminalStateOf[w] \in {"stopped", "completed", "retired"}
          /\ EvidenceOf[w] \in Evidence
      BY SessionAssumption
    <3>2. LeaseRequest(w) \/ UNCHANGED leaseVars
      <4>1. CASE ServiceSteps(w)
        BY <3>1, <4>1
        DEF ServiceSteps, ServeAcquire, ServeHeartbeat, ServeTerminal, ServePersist, ServeFails,
            LeaseRequest
      <4>2. CASE ~ServiceSteps(w)
        BY <1>4, <4>2
        DEF Enter, Entered, StartQuery, bind_query, BindFails, QueryEnds, LeaveBody, Crash, MainExits, Join,
            StopQuery, FinalHeartbeat, Finish, WorkerSteps, WorkerBeats, WorkerEnds,
            WorkerAnswered, WorkerStopsQuery
      <4> QED
        BY <4>1, <4>2
    <3> QED
      BY <3>1, <3>2 DEF NotEnding
  <2>3. \A v \in Sessions \ {w} : RequestsPlaced(v)' /\ LeaseKnown(v)' /\ QueryMinded(v)'
    BY <1>0, <2>1, <2>2, BystanderKnows, HeldKept, SessionAssumption DEF Moved
  <2> QED
    BY <1>2, <2>1, <2>3 DEF Moved
<1> QED
  BY <1>3, <1>4 DEF StreamNext

LEMMA SessionInvInit == StreamInit => SessionInv
<1> SUFFICES ASSUME StreamInit PROVE SessionInv
  OBVIOUS
<1>1. LeaseInv
  BY LeaseInvInit DEF StreamInit
<1>2. Apart
  BY LeaseAssumption DEF StreamInit, LeaseInit, Apart
<1>3. StreamTypeOK
  BY <1>1 DEF StreamInit, StreamTypeOK, LeaseInv
<1>4. \A w \in Sessions : /\ main[w] = "idle" /\ worker[w] = "none" /\ query[w] = "none"
                          /\ net[w]["acquire"] = "none" /\ net[w]["terminal"] = "none"
  BY DEF StreamInit, Kinds
<1> QED
  BY <1>1, <1>2, <1>3, <1>4
  DEF SessionInv, RequestsPlaced, LeaseKnown, QueryMinded, Answered, Owning, Exiting, Over

\* SessionInv is an invariant of the composition.
THEOREM SessionInvariant == StreamSpec => []SessionInv
<1>1. SessionInv /\ [StreamNext]_streamVars => SessionInv'
  BY SessionInvNext
<1> QED
  BY <1>1, SessionInvInit, PTL DEF StreamSpec

\* A query that writes runs under its own session's active lease, or that
\* session failed visibly, for every number of sessions and clients and
\* whatever is lost or late (notebook_lease.py __exit__, _heartbeat_loop).
THEOREM RunningQueryCovered == StreamSpec => []RunningQueryHoldsLease
<1>1. SessionInv => RunningQueryHoldsLease
  <2> SUFFICES ASSUME SessionInv, NEW w \in Sessions, query[w] = "active"
               PROVE  OwnActive(w) \/ raised[w]
    BY DEF SessionInv, RunningQueryHoldsLease, OwnActive
  <2>1. ClientTyped /\ LeaseKnown(w) /\ QueryMinded(w)
    BY SessionBefore
  <2>2. main[w] \in {"body", "joining", "stopping"} \/ raised[w]
    BY <2>1 DEF ClientTyped, QueryMinded, Exiting, Over
  <2> QED
    BY <2>1, <2>2 DEF LeaseKnown, Owning
<1> QED
  BY <1>1, SessionInvariant, PTL

\* A with-block that ends without an exception has stopped its query and left
\* a terminal record of its run, which no earlier run's record ever replaces
\* (notebook_lease.py __exit__, _finalize; leases.py _persist_terminal).
THEOREM CleanExitRecorded == StreamSpec => []CleanExitIsTerminal
<1>1. SessionInv => CleanExitIsTerminal
  <2> SUFFICES ASSUME SessionInv, NEW w \in Sessions, main[w] = "clean"
               PROVE  query[w] # "active" /\ TerminalReached(w)
    BY DEF CleanExitIsTerminal, TerminalReached
  <2>1. LeaseKnown(w) /\ QueryMinded(w)
    BY SessionBefore
  <2> QED
    BY <2>1 DEF LeaseKnown, QueryMinded
<1> QED
  BY <1>1, SessionInvariant, PTL

\* Beside notebooks too, the terminal record agrees with the lease it speaks
\* for (leases.py _persist_terminal).
THEOREM StreamTerminalAgrees == StreamSpec => []TerminalAgreesWithLease
  BY StreamImplementsLease, TerminalRecordAgrees, PTL

\* Beside notebooks too, an active lease is only renewed, or ended by the
\* session that was told its epoch (leases.py acquire, _transition_locked).
THEOREM StreamLeaseKept == StreamSpec => NoTakeover
  BY StreamImplementsLease, LeaseNeverTakenOver, PTL
=============================================================================
