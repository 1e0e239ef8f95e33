--------------------------- MODULE StreamingLease ---------------------------
(***************************************************************************)
(* The notebook side of a checkpoint lease (StreamingLease of              *)
(* scripts/checkpoints/notebook_lease.py) composed with the lease service. *)
(*                                                                         *)
(* A session has two threads: the notebook's, which enters, starts and     *)
(* binds the Spark query and leaves, and the heartbeat worker.  A call is  *)
(* a request in the network that the service may handle late: the client   *)
(* gives up after its timeout and the request is still there.  Writers     *)
(* that are no session send the service any request in any order.          *)
(***************************************************************************)
EXTENDS LeaseManager

CONSTANTS
    Sessions,          \* StreamingLease objects, each used once
    TerminalStateOf,   \* terminal_state of each
    EvidenceOf         \* terminal_evidence of each

ASSUME SessionAssumption ==
    /\ Sessions \subseteq Writers
    /\ TerminalStateOf \in [Sessions -> {"stopped", "completed", "retired"}]
    /\ EvidenceOf \in [Sessions -> Evidence]

VARIABLES
    main,          \* where the notebook's thread is
    worker,        \* where the heartbeat thread is
    query,         \* the Spark query the notebook started
    stop,          \* the _stop event
    raised,        \* the exception __exit__ will leave with (exception, primary)
    workerFailed,  \* _worker_failure
    net            \* state of each session's requests

clientVars == <<main, worker, query, stop, raised, workerFailed, net>>
streamVars == <<leaseVars, clientVars>>

Kinds == {"acquire", "heartbeat", "final", "terminal"}
Exiting == {"joining", "stopping", "finalizing", "terminating"}
Over == {"clean", "raised", "crashed"}

StreamTypeOK ==
    /\ LeaseTypeOK
    /\ main \in [Sessions -> {"idle", "entering", "body"} \cup Exiting \cup Over]
    /\ worker \in [Sessions -> {"none", "waiting", "posting", "failing", "unheeded", "done"}]
    /\ query \in [Sessions -> {"none", "active", "inactive"}]
    /\ stop \in [Sessions -> BOOLEAN]
    /\ raised \in [Sessions -> BOOLEAN]
    /\ workerFailed \in [Sessions -> BOOLEAN]
    /\ net \in [Sessions -> [Kinds -> {"none", "request", "serving", "ok", "failed"}]]

StreamInit ==
    /\ LeaseInit
    /\ main = [w \in Sessions |-> "idle"]
    /\ worker = [w \in Sessions |-> "none"]
    /\ query = [w \in Sessions |-> "none"]
    /\ stop = [w \in Sessions |-> FALSE]
    /\ raised = [w \in Sessions |-> FALSE]
    /\ workerFailed = [w \in Sessions |-> FALSE]
    /\ net = [w \in Sessions |-> [k \in Kinds |-> "none"]]

-----------------------------------------------------------------------------
(* The network and the service.                                             *)

\* _call hands the request to the network.
Send(w, k) == net' = [net EXCEPT ![w][k] = "request"]

\* The caller was told that the call succeeded; anything else, a refusal, a
\* lost answer or the 30 s timeout, is a failure of the call.
Answered(w, k) == net[w][k] = "ok"

\* The answer is taken; a request given up on stays in the network.
Taken(w, k) == [net EXCEPT ![w][k] = IF @ \in {"ok", "failed"} THEN "none" ELSE @]

\* A request that nobody waits for any more is answered to nobody.
Waiting(w, k) ==
    \/ k = "acquire" /\ main[w] = "entering"
    \/ k = "heartbeat" /\ worker[w] = "posting"
    \/ k = "final" /\ main[w] = "finalizing"
    \/ k = "terminal" /\ main[w] = "terminating"

Reply(w, k, answers) == 
    \E a \in answers :
        net' = [net EXCEPT ![w][k] = IF Waiting(w, k) \/ a = "serving" THEN a ELSE "none"]

ServeUnchanged ==
    UNCHANGED <<main, worker, query, stop, raised, workerFailed>>

\* An epoch granted to a session that gave up waiting is told to nobody.
ServeAcquire(w) ==
    /\ net[w]["acquire"] = "request"
    /\ Acquire(w)
    /\ main[w] # "entering" => held'[w] = 0
    /\ Reply(w, "acquire", {IF held'[w] # 0 THEN "ok" ELSE "failed"})
    /\ ServeUnchanged

ServeHeartbeat(w, k) ==
    /\ net[w][k] = "request"
    /\ Heartbeat(w)
    /\ Reply(w, k, {"ok", "failed"})
    /\ ServeUnchanged

ServeTerminal(w) ==
    /\ net[w]["terminal"] = "request"
    /\ \/ Terminal(w, TerminalStateOf[w], EvidenceOf[w])
       \/ TerminalAgain(w, TerminalStateOf[w], EvidenceOf[w])
    /\ Reply(w, "terminal", {IF lock' = w THEN "serving" ELSE "failed"})
    /\ ServeUnchanged

ServePersist(w) ==
    /\ net[w]["terminal"] = "serving"
    /\ PersistTerminal(w)
    /\ Reply(w, "terminal", IF terminal' = pending THEN {"ok", "failed"} ELSE {"failed"})
    /\ ServeUnchanged

\* The service refuses, its store fails, or the request never reaches it.
ServeFails(w, k) ==
    /\ net[w][k] = "request"
    /\ Reply(w, k, {"failed"})
    /\ ServeUnchanged
    /\ UNCHANGED leaseVars

-----------------------------------------------------------------------------
(* The notebook's thread.                                                   *)

Enter(w) ==
    /\ main[w] = "idle"
    /\ main' = [main EXCEPT ![w] = "entering"]
    /\ Send(w, "acquire")
    /\ UNCHANGED <<leaseVars, worker, query, stop, raised, workerFailed>>

Entered(w) ==
    /\ main[w] = "entering"
    /\ main' = [main EXCEPT ![w] = IF Answered(w, "acquire") THEN "body" ELSE "raised"]
    /\ net' = Taken(w, "acquire")
    /\ UNCHANGED <<leaseVars, worker, query, stop, raised, workerFailed>>

StartQuery(w) ==
    /\ main[w] = "body"
    /\ query[w] = "none"
    /\ query' = [query EXCEPT ![w] = "active"]
    /\ UNCHANGED <<leaseVars, main, worker, stop, raised, workerFailed, net>>

bind_query(w) ==
    /\ main[w] = "body"
    /\ query[w] # "none"
    /\ worker[w] = "none"
    /\ worker' = [worker EXCEPT ![w] = "waiting"]
    /\ UNCHANGED <<leaseVars, main, query, stop, raised, workerFailed, net>>

\* The heartbeat thread does not start.  __exit__ joins it all the same, and
\* that raises before the query is stopped or the terminal request sent.
BindFails(w) ==
    /\ main[w] = "body"
    /\ query[w] # "none"
    /\ worker[w] = "none"
    /\ main' = [main EXCEPT ![w] = "raised"]
    /\ stop' = [stop EXCEPT ![w] = TRUE]
    /\ raised' = [raised EXCEPT ![w] = TRUE]
    /\ UNCHANGED <<leaseVars, worker, query, workerFailed, net>>

\* The query ends by itself, or fails.
QueryEnds(w) ==
    /\ query[w] = "active"
    /\ query' = [query EXCEPT ![w] = "inactive"]
    /\ UNCHANGED <<leaseVars, main, worker, stop, raised, workerFailed, net>>

(* The body is left: normally only once the query is bound, or by an        *)
(* exception anywhere, also between the start of the query and its binding. *)
LeaveBody(w) ==
    /\ main[w] = "body"
    /\ \E exception \in BOOLEAN :
        /\ exception \/ worker[w] # "none"
        /\ raised' = [raised EXCEPT ![w] = exception]
    /\ main' = [main EXCEPT ![w] = "joining"]
    /\ stop' = [stop EXCEPT ![w] = TRUE]
    /\ UNCHANGED <<leaseVars, worker, query, workerFailed, net>>

\* The join has a timeout shorter than a call's: the worker may still be in a
\* heartbeat when the exit goes on.
Join(w) ==
    /\ main[w] = "joining"
    /\ main' = [main EXCEPT ![w] = "stopping"]
    /\ UNCHANGED <<leaseVars, worker, query, stop, raised, workerFailed, net>>

\* Mutant: a query that cannot be stopped is not reported.
StopFailureSwallowed(w) ==
    /\ main[w] = "stopping"
    /\ \/ query' = [query EXCEPT ![w] = "inactive"]
       \/ UNCHANGED query
    /\ main' = [main EXCEPT ![w] = "finalizing"]
    /\ Send(w, "final")
    /\ UNCHANGED <<leaseVars, worker, stop, raised, workerFailed>>

(* A bound query that is active is stopped; a failure to stop it becomes    *)
(* the primary exception, an interrupt without one leaves at once with the  *)
(* lease still active.                                                      *)
StopQuery(w) ==
    /\ main[w] = "stopping"
    /\ \/ /\ worker[w] = "none" \/ query[w] # "active"
          /\ main' = [main EXCEPT ![w] = "finalizing"]
          /\ Send(w, "final")
          /\ UNCHANGED <<query, raised>>
       \/ /\ worker[w] # "none" /\ query[w] = "active"
          /\ \/ /\ query' = [query EXCEPT ![w] = "inactive"]
                /\ UNCHANGED raised
             \/ /\ raised' = [raised EXCEPT ![w] = TRUE]
                /\ UNCHANGED query
          /\ main' = [main EXCEPT ![w] = "finalizing"]
          /\ Send(w, "final")
       \/ /\ worker[w] # "none" /\ query[w] = "active"
          /\ ~raised[w]
          /\ raised' = [raised EXCEPT ![w] = TRUE]
          /\ main' = [main EXCEPT ![w] = "raised"]
          /\ UNCHANGED <<query, net>>
    /\ UNCHANGED <<leaseVars, worker, stop, workerFailed>>

\* Mutant: the final heartbeat has no timeout.
FinalHeartbeatUnbounded(w) ==
    /\ main[w] = "finalizing"
    /\ net[w]["final"] \in {"ok", "failed"}
    /\ raised' = [raised EXCEPT ![w] = @ \/ ~Answered(w, "final")]
    /\ main' = [main EXCEPT ![w] = "terminating"]
    /\ net' = [Taken(w, "final") EXCEPT ![w]["terminal"] = "request"]
    /\ UNCHANGED <<leaseVars, worker, query, stop, workerFailed>>

(* _finalize: a failed final heartbeat is remembered and the terminal       *)
(* request is sent all the same; an interrupt leaves without it.            *)
FinalHeartbeat(w) ==
    /\ main[w] = "finalizing"
    /\ raised' = [raised EXCEPT ![w] = @ \/ ~Answered(w, "final")]
    /\ \/ /\ main' = [main EXCEPT ![w] = "terminating"]
          /\ net' = [Taken(w, "final") EXCEPT ![w]["terminal"] = "request"]
       \/ /\ ~Answered(w, "final")
          /\ main' = [main EXCEPT ![w] = "raised"]
          /\ net' = Taken(w, "final")
    /\ UNCHANGED <<leaseVars, worker, query, stop, workerFailed>>

\* Mutant: the outcome of the terminal call is not looked at.
FinishUnchecked(w) ==
    /\ main[w] = "terminating"
    /\ raised' = [raised EXCEPT ![w] = @ \/ workerFailed[w]]
    /\ main' = [main EXCEPT ![w] = IF raised'[w] THEN "raised" ELSE "clean"]
    /\ net' = Taken(w, "terminal")
    /\ UNCHANGED <<leaseVars, worker, query, stop, workerFailed>>

\* The worker's failure counts if it is known by now.
Finish(w) ==
    /\ main[w] = "terminating"
    /\ raised' = [raised EXCEPT ![w] = @ \/ workerFailed[w] \/ ~Answered(w, "terminal")]
    /\ main' = [main EXCEPT ![w] = IF raised'[w] THEN "raised" ELSE "clean"]
    /\ net' = Taken(w, "terminal")
    /\ UNCHANGED <<leaseVars, worker, query, stop, workerFailed>>

-----------------------------------------------------------------------------
(* The heartbeat worker.                                                    *)

WorkerBeats(w) ==
    /\ worker[w] = "waiting"
    /\ ~stop[w]
    /\ worker' = [worker EXCEPT ![w] = "posting"]
    /\ Send(w, "heartbeat")
    /\ UNCHANGED <<leaseVars, main, query, stop, raised, workerFailed>>

WorkerEnds(w) ==
    /\ worker[w] = "waiting"
    /\ stop[w]
    /\ worker' = [worker EXCEPT ![w] = "done"]
    /\ UNCHANGED <<leaseVars, main, query, stop, raised, workerFailed, net>>

WorkerAnswered(w) ==
    /\ worker[w] = "posting"
    /\ IF Answered(w, "heartbeat")
       THEN /\ worker' = [worker EXCEPT ![w] = "waiting"]
            /\ UNCHANGED workerFailed
       ELSE /\ worker' = [worker EXCEPT ![w] = "failing"]
            /\ workerFailed' = [workerFailed EXCEPT ![w] = TRUE]
    /\ net' = Taken(w, "heartbeat")
    /\ UNCHANGED <<leaseVars, main, query, stop, raised>>

\* Mutant: the worker only signals; the query is left to the notebook.
WorkerOnlySignals(w) ==
    /\ worker[w] = "failing"
    /\ stop' = [stop EXCEPT ![w] = TRUE]
    /\ worker' = [worker EXCEPT ![w] = "done"]
    /\ UNCHANGED <<leaseVars, main, query, raised, workerFailed, net>>

\* A stop that fails is ignored here ("unheeded" keeps that it did): the
\* notebook's thread tries again when it leaves.
WorkerStopsQuery(w) ==
    /\ worker[w] = "failing"
    /\ \/ /\ query' = [query EXCEPT ![w] = "inactive"]
          /\ worker' = [worker EXCEPT ![w] = "done"]
       \/ /\ worker' = [worker EXCEPT ![w] = "unheeded"]
          /\ UNCHANGED query
    /\ stop' = [stop EXCEPT ![w] = TRUE]
    /\ UNCHANGED <<leaseVars, main, raised, workerFailed, net>>

\* The kernel dies with both threads and its Spark driver.
Crash(w) ==
    /\ main[w] \notin Over \cup {"idle"}
    /\ main' = [main EXCEPT ![w] = "crashed"]
    /\ worker' = [worker EXCEPT ![w] = IF @ = "none" THEN "none" ELSE "done"]
    /\ query' = [query EXCEPT ![w] = IF @ = "none" THEN "none" ELSE "inactive"]
    /\ net' = [net EXCEPT ![w] = [k \in Kinds |-> Taken(w, k)[w][k]]]
    /\ UNCHANGED <<leaseVars, stop, raised, workerFailed>>

-----------------------------------------------------------------------------
MainExits(w) ==
    Join(w) \/ StopQuery(w) \/ FinalHeartbeat(w) \/ Finish(w)
WorkerSteps(w) ==
    WorkerBeats(w) \/ WorkerEnds(w) \/ WorkerAnswered(w) \/ WorkerStopsQuery(w)
ServiceSteps(w) ==
    \/ ServeAcquire(w) \/ ServeTerminal(w) \/ ServePersist(w)
    \/ \E k \in {"heartbeat", "final"} : ServeHeartbeat(w, k)
    \/ \E k \in Kinds : ServeFails(w, k)

\* Requests of other clients, and the clock.
OtherClients ==
    /\ \/ \E w \in Writers \ Sessions : LeaseRequest(w)
       \/ Tick
       \/ ClockSetBack
    /\ UNCHANGED clientVars

StreamNext ==
    \/ \E w \in Sessions :
        \/ Enter(w) \/ Entered(w) \/ StartQuery(w) \/ bind_query(w)
        \/ BindFails(w) \/ QueryEnds(w) \/ LeaveBody(w) \/ Crash(w)
        \/ MainExits(w) \/ WorkerSteps(w) \/ ServiceSteps(w)
    \/ OtherClients

(* A running thread keeps running; that the service ever answers is not     *)
(* assumed, since every call of the client has a timeout.                   *)
StreamSpec ==
    /\ StreamInit /\ [][StreamNext]_streamVars
    /\ \A w \in Sessions :
        /\ WF_streamVars(MainExits(w))
        /\ WF_streamVars(WorkerSteps(w))

-----------------------------------------------------------------------------
(* Properties.                                                              *)

\* A query that is still writing runs under the active lease of its own
\* session, or its session failed visibly: no stop, heartbeat or terminal call
\* that fails, arrives late or races the other thread lets a checkpoint whose
\* query runs silently look finished (__exit__, _heartbeat_loop, _finalize).
RunningQueryHoldsLease ==
    /\ StreamTypeOK
    /\ \A w \in Sessions :
        query[w] = "active" =>
            \/ LeaseActive /\ lease.epoch = held[w]
            \/ raised[w]

\* A with-block that ends without an exception has stopped its query and left
\* a terminal record of its own run or of a later one (__exit__, _finalize).
CleanExitIsTerminal ==
    \A w \in Sessions :
        main[w] = "clean" =>
            /\ query[w] # "active"
            /\ terminal # None
            /\ terminal.epoch >= held[w]

\* A failed heartbeat stops the query even while the notebook only waits for
\* it, unless Spark itself refuses the stop (_heartbeat_loop).
HeartbeatLossStopsQuery ==
    \A w \in Sessions :
        workerFailed[w] ~> query[w] = "inactive" \/ worker[w] = "unheeded"

\* Leaving the block always ends, whatever hangs: the worker's call, the
\* service, the final heartbeat or the terminal request (__exit__).
ExitCompletes ==
    \A w \in Sessions : main[w] \in Exiting ~> main[w] \in Over
=============================================================================
