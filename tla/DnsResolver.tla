---------------------------- MODULE DnsResolver ----------------------------
(***************************************************************************)
(* Bounded DNS resolution in a child process (datasets/acquisition.py).    *)
(*                                                                         *)
(* getaddrinfo cannot be interrupted, so it runs in a child process; even  *)
(* creating and starting that process can hang, so a launcher thread does  *)
(* it while the caller waits on a condition until the deadline.  Whoever   *)
(* owns the started child must reap it: the launcher until it hands it     *)
(* over, the caller afterwards.                                            *)
(***************************************************************************)
EXTENDS Naturals

CONSTANTS Callers    \* threads that resolve a host

VARIABLES
    caller,    \* where each calling thread is in _bounded_dns_answers
    launcher,  \* where its launcher thread is in launch
    child,     \* the resolver process
    shared,    \* the state dictionary both threads use under the condition
    expired    \* the caller's deadline has passed

dnsVars == <<caller, launcher, child, shared, expired>>

Shared == [cancelled : BOOLEAN, launcher_owned : BOOLEAN, process : BOOLEAN,
           complete : BOOLEAN, error : BOOLEAN]
Fresh == [cancelled |-> FALSE, launcher_owned |-> FALSE, process |-> FALSE,
          complete |-> FALSE, error |-> FALSE]

DnsTypeOK ==
    /\ caller \in [Callers -> {"idle", "waiting", "timedout", "polling", "answered",
                               "unanswered", "resolved", "failed"}]
    /\ launcher \in [Callers -> {"none", "making", "made", "starting", "started",
                                 "reported", "reaping", "done"}]
    /\ child \in [Callers -> {"none", "made", "running", "answered", "broken",
                              "closed", "stuck"}]
    /\ shared \in [Callers -> Shared]
    /\ expired \in [Callers -> BOOLEAN]

DnsInit ==
    /\ caller = [c \in Callers |-> "idle"]
    /\ launcher = [c \in Callers |-> "none"]
    /\ child = [c \in Callers |-> "none"]
    /\ shared = [c \in Callers |-> Fresh]
    /\ expired = [c \in Callers |-> FALSE]

-----------------------------------------------------------------------------
(* The caller's side.                                                       *)

\* A new attempt starts its launcher thread; the dictionary is a new one.
Launch(c) ==
    /\ caller' = [caller EXCEPT ![c] = "waiting"]
    /\ launcher' = [launcher EXCEPT ![c] = "making"]
    /\ child' = [child EXCEPT ![c] = "none"]
    /\ shared' = [shared EXCEPT ![c] = Fresh]
    /\ UNCHANGED expired

\* The pipe or the launcher thread cannot be created.
LaunchFails(c) ==
    /\ caller' = [caller EXCEPT ![c] = "failed"]
    /\ UNCHANGED <<launcher, child, shared, expired>>

Deadline(c) ==
    /\ caller[c] # "idle"
    /\ ~expired[c]
    /\ expired' = [expired EXCEPT ![c] = TRUE]
    /\ UNCHANGED <<caller, launcher, child, shared>>

\* condition.wait times out before a notification; the lock is still to be
\* taken again, and the launcher may report in between.
WaitTimesOut(c) ==
    /\ caller[c] = "waiting"
    /\ expired[c]
    /\ ~shared[c].complete
    /\ caller' = [caller EXCEPT ![c] = "timedout"]
    /\ UNCHANGED <<launcher, child, shared, expired>>

GivesUp(c) ==
    /\ caller[c] = "timedout"
    /\ shared' = [shared EXCEPT ![c].cancelled = TRUE]
    /\ caller' = [caller EXCEPT ![c] = "failed"]
    /\ UNCHANGED <<launcher, child, expired>>

\* Woken with the launcher's report: an error is raised, a process is taken over.
TakesProcess(c) ==
    /\ caller[c] = "waiting"
    /\ shared[c].complete
    /\ IF shared[c].error \/ ~shared[c].process
       THEN /\ caller' = [caller EXCEPT ![c] = "failed"]
            /\ UNCHANGED shared
       ELSE /\ caller' = [caller EXCEPT ![c] = "polling"]
            /\ shared' = [shared EXCEPT ![c].process = FALSE]
    /\ UNCHANGED <<launcher, child, expired>>

\* The child's frame decides; the deadline, an abnormal exit or a frame that
\* does not decode is a failure.  Both ways the child is cleaned up next.
Polls(c) ==
    /\ caller[c] = "polling"
    /\ \/ /\ child[c] = "answered"
          /\ \/ caller' = [caller EXCEPT ![c] = "answered"]
             \/ caller' = [caller EXCEPT ![c] = "unanswered"]
       \/ /\ child[c] = "broken" \/ expired[c]
          /\ caller' = [caller EXCEPT ![c] = "unanswered"]
    /\ UNCHANGED <<launcher, child, shared, expired>>

\* Terminate, join, kill, join: the child is gone and its handle closed, or it
\* cannot be reaped in time, which fails the resolution.
CallerReaps(c) ==
    /\ caller[c] \in {"answered", "unanswered"}
    /\ \/ /\ child' = [child EXCEPT ![c] = "closed"]
          /\ caller' = [caller EXCEPT ![c] =
                          IF caller[c] = "answered" THEN "resolved" ELSE "failed"]
       \/ /\ child[c] = "running"
          /\ child' = [child EXCEPT ![c] = "stuck"]
          /\ caller' = [caller EXCEPT ![c] = "failed"]
    /\ UNCHANGED <<launcher, shared, expired>>

-----------------------------------------------------------------------------
(* The launcher's side.                                                     *)

\* A failed creation or start is reported unless the caller has gone.
Reported(c) ==
    IF shared[c].cancelled
    THEN shared[c]
    ELSE [shared[c] EXCEPT !.error = TRUE, !.complete = TRUE]

MakeProcess(c) ==
    /\ launcher[c] = "making"
    /\ \/ /\ child' = [child EXCEPT ![c] = "made"]
          /\ launcher' = [launcher EXCEPT ![c] = "made"]
          /\ UNCHANGED shared
       \/ /\ shared' = [shared EXCEPT ![c] = Reported(c)]
          /\ launcher' = [launcher EXCEPT ![c] = "done"]
          /\ UNCHANGED child
    /\ UNCHANGED <<caller, expired>>

CommitStart(c) ==
    /\ launcher[c] = "made"
    /\ IF shared[c].cancelled
       THEN /\ child' = [child EXCEPT ![c] = "closed"]
            /\ launcher' = [launcher EXCEPT ![c] = "done"]
            /\ UNCHANGED shared
       ELSE /\ shared' = [shared EXCEPT ![c].launcher_owned = TRUE]
            /\ launcher' = [launcher EXCEPT ![c] = "starting"]
            /\ UNCHANGED child
    /\ UNCHANGED <<caller, expired>>

StartProcess(c) ==
    /\ launcher[c] = "starting"
    /\ \/ /\ child' = [child EXCEPT ![c] = "running"]
          /\ launcher' = [launcher EXCEPT ![c] = "started"]
          /\ UNCHANGED shared
       \/ /\ shared' = [shared EXCEPT ![c] = Reported(c)]
          /\ child' = [child EXCEPT ![c] = "closed"]
          /\ launcher' = [launcher EXCEPT ![c] = "done"]
    /\ UNCHANGED <<caller, expired>>

\* Mutant: the launcher keeps its claim when it hands the process over.
KeepsClaim(c) ==
    /\ launcher[c] = "started"
    /\ shared' = [shared EXCEPT ![c].process = ~shared[c].cancelled,
                                ![c].complete = TRUE]
    /\ launcher' = [launcher EXCEPT ![c] = "reported"]
    /\ UNCHANGED <<caller, child, expired>>

\* The process changes hands, unless the caller has given up.
HandsOver(c) ==
    /\ launcher[c] = "started"
    /\ shared' = [shared EXCEPT ![c].process = ~shared[c].cancelled,
                                ![c].launcher_owned = shared[c].cancelled,
                                ![c].complete = TRUE]
    /\ launcher' = [launcher EXCEPT ![c] = "reported"]
    /\ UNCHANGED <<caller, child, expired>>

LauncherDecides(c) ==
    /\ launcher[c] = "reported"
    /\ launcher' = [launcher EXCEPT ![c] =
                      IF shared[c].launcher_owned THEN "reaping" ELSE "done"]
    /\ UNCHANGED <<caller, child, shared, expired>>

LauncherReaps(c) ==
    /\ launcher[c] = "reaping"
    /\ \/ child' = [child EXCEPT ![c] = "closed"]
       \/ child[c] = "running" /\ child' = [child EXCEPT ![c] = "stuck"]
    /\ launcher' = [launcher EXCEPT ![c] = "done"]
    /\ UNCHANGED <<caller, shared, expired>>

\* The worker sends one frame and exits, or dies before.
ChildEnds(c) ==
    /\ child[c] = "running"
    /\ \E end \in {"answered", "broken"} : child' = [child EXCEPT ![c] = end]
    /\ UNCHANGED <<caller, launcher, shared, expired>>

CallerSteps(c) ==
    WaitTimesOut(c) \/ GivesUp(c) \/ TakesProcess(c) \/ Polls(c) \/ CallerReaps(c)
LauncherSteps(c) ==
    \/ MakeProcess(c) \/ CommitStart(c) \/ StartProcess(c)
    \/ HandsOver(c) \/ LauncherDecides(c) \/ LauncherReaps(c)

-----------------------------------------------------------------------------
(* Properties.                                                              *)

\* A started resolver is never reaped by both threads, whatever the order of
\* hand-over and timeout (launch, _bounded_dns_answers).
OneReaper ==
    \A c \in Callers :
        launcher[c] = "reaping" => caller[c] \notin {"polling", "answered", "unanswered", "resolved"}

\* Every started resolver keeps an owner until it has been reaped, also when
\* the deadline passes while it starts (tests/datasets/test_acquisition.py,
\* "timeout_boundary_has_exactly_one_process_owner").
StartedResolverHasOwner ==
    \A c \in Callers :
        caller[c] = "failed" /\ launcher[c] = "done"
            => child[c] \in {"none", "closed", "stuck"}
=============================================================================
