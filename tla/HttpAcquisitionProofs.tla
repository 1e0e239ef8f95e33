----------------------- MODULE HttpAcquisitionProofs ------------------------
(***************************************************************************)
(* The safety of an HTTP acquisition for every number of jobs, artifacts,  *)
(* outputs and interferences: an archive that is extracted has one         *)
(* reading, a resolver process is reaped by one thread, what a job commits *)
(* was verified at its last look, and a job that fails leaves nothing.     *)
(***************************************************************************)
EXTENDS HttpAcquisition, FiniteSetTheorems, WellFoundedInduction, TLAPS

(* The inductive invariants, job by job.                                    *)

\* The caller has the process: the launcher has let go of it for good.
Handed(c) ==
    shared[c].process \/ caller[c] \in {"polling", "answered", "unanswered", "resolved"} =>
        launcher[c] \in {"reported", "done"} /\ ~shared[c].launcher_owned

\* What was validated is what the archive is taken for.
Readable(j) == archive[j] # None => archive[j] \in AcceptedArchives

\* Before anything is linked.
Private ==
    {"idle", "staging", "resolving", "requesting", "fed_request", "reading", "fed_read",
     "staged", "publishing", "published", "metadata", "validating", "extracting",
     "rechecking", "dirstaged", "dirpublishing", "dirpublished", "verifying", "prechecking"}

\* How far the loop over the outputs is, and how many links there are to take back.
Placed(j) ==
    /\ pc[j] \in Private => owned[j] = 0 /\ index[j] = 1
    /\ pc[j] \in {"checking", "linking"} => owned[j] = index[j] - 1
    /\ pc[j] = "linked" => owned[j] = index[j]
    /\ pc[j] = "unrooting" => index[j] = 1
    /\ pc[j] = "rollback" => owned[j] > 0
    /\ pc[j] \in {"cleaning", "failed"} => owned[j] = 0

\* The binding that is still being made, which nobody else releases.
Unregistered(j) ==
    CASE pc[j] \in {"resolving", "requesting", "fed_request", "reading", "fed_read", "staged",
                    "publishing", "published"} ->
             {<<art[j], "download">>}
      [] pc[j] \in {"rechecking", "dirstaged", "dirpublishing", "dirpublished"} ->
             {<<art[j], "members">>}
      [] OTHER -> {}

\* Every other descriptor is registered, and none is left at the end.
Bound(j) ==
    /\ open[j] \subseteq releases[j] \cup Unregistered(j)
    /\ pc[j] \in {"idle"} \cup Ended => open[j] = {}

\* The job's files in the destination are the links it counts, until taking one
\* back has failed.
Counted(j) ==
    ~kept[j] => \A o \in OutputSet : target[o] = j => \E i \in 1..owned[j] : Outputs[i] = o

\* Its last look at an output holds until someone else touches it.
Settled(j) ==
    /\ pc[j] \in Private \cup {"checking", "linking", "linked", "unrooting"} => settled[j] = {}
    /\ pc[j] \in {"finishing", "releasing", "committed"} =>
           \A o \in settled[j] : (target[o] = j /\ body[j][o] = "locked") \/ o \in late[j]
    /\ pc[j] = "finishing" => \A i \in 1 .. index[j] - 1 : Outputs[i] \in settled[j]
    /\ pc[j] \in {"releasing", "committed"} => OutputSet \subseteq settled[j]

-----------------------------------------------------------------------------
(* An accepted archive.                                                     *)

\* A non-empty set of positions in a tail has a last one.
LEMMA LastPosition ==
  ASSUME NEW n \in Nat, NEW S \in SUBSET (0..n)
  PROVE  /\ Max(S \cup {-1}) \in S \cup {-1}
         /\ \A p \in S : p <= Max(S \cup {-1})
<1> DEFINE T == S \cup {-1}
           gaps == {n - p : p \in T}
<1>1. gaps \subseteq Nat /\ gaps # {}
  OBVIOUS
<1>2. \E g \in gaps : \A h \in gaps : ~(h < g)
  <2> DEFINE R == OpToRel(<, Nat)
  <2>1. IsWellFoundedOn(R, Nat)
    BY NatLessThanWellFounded
  <2>2. R = {ss \in Nat \X Nat : ss[1] < ss[2]}
    BY DEF OpToRel
  <2> HIDE DEF R, gaps
  <2>3. PICK g \in gaps : \A h \in gaps : ~(<<h, g>> \in R)
    BY <1>1, <2>1, WFMin
  <2>4. \A h \in gaps : h < g => <<h, g>> \in R
    BY <1>1, <2>2
  <2> QED
    BY <2>3, <2>4
<1>3. PICK p \in T : \A h \in gaps : ~(h < n - p)
  BY <1>2
<1>4. \A q \in T : p >= q
  <2> SUFFICES ASSUME NEW q \in T PROVE p >= q
    OBVIOUS
  <2>1. ~(n - q < n - p)
    BY <1>3
  <2>2. p \in Int /\ q \in Int
    OBVIOUS
  <2> QED
    BY <2>1, <2>2
<1>5. Max(T) \in T /\ \A q \in T : Max(T) >= q
  BY <1>4 DEF Max
<1> QED
  BY <1>5

\* The selected end record is the only one that reaches the end of the file.
LEMMA OneEndRecord ==
  ASSUME NEW a \in Archives, SelectedEocd(a) >= 0
  PROVE  Cardinality(ConsistentEocds(a)) = 1
<1> DEFINE S == DOMAIN a.sigs
           fitting == {p \in S : p + EocdSize = a.length /\ a.sigs[p] = 0}
           selected == IF fitting # {} THEN a.length - EocdSize ELSE Max(S \cup {-1})
<1>1. /\ a.length \in Nat /\ S \in SUBSET (0..a.length) /\ EocdSize \in Nat
      /\ \A p \in S : a.sigs[p] \in Nat /\ p \in Nat
  BY AcquisitionAssumption, ZipAssumption DEF WellFormed
<1>2. /\ selected >= 0 /\ selected + EocdSize + a.sigs[selected] = a.length
      /\ ~\E p \in S : p < selected /\ p + EocdSize + a.sigs[p] = a.length
  BY DEF SelectedEocd
<1>3. selected \in S
  <2>1. CASE fitting # {}
    <3>1. PICK p \in S : p + EocdSize = a.length
      BY <2>1
    <3>2. p = a.length - EocdSize
      BY <1>1, <3>1
    <3> QED
      BY <2>1, <3>2
  <2>2. CASE fitting = {}
    <3>1. Max(S \cup {-1}) \in S \cup {-1}
      BY <1>1, LastPosition
    <3> QED
      BY <1>2, <2>2, <3>1
  <2> QED
    BY <2>1, <2>2
<1>4. ASSUME NEW p \in S, p > selected, p + EocdSize + a.sigs[p] = a.length
      PROVE  FALSE
  <2>1. CASE fitting # {}
    BY <1>1, <1>4, <2>1
  <2>2. CASE fitting = {}
    <3>1. p <= Max(S \cup {-1}) /\ selected \in Nat
      BY <1>1, <1>3, LastPosition
    <3> QED
      BY <1>1, <1>4, <2>2, <3>1
  <2> QED
    BY <2>1, <2>2
<1> HIDE DEF selected
<1>5. ConsistentEocds(a) = {selected}
  <2>1. selected \in ConsistentEocds(a)
    BY <1>2, <1>3 DEF ConsistentEocds
  <2>2. ASSUME NEW p \in ConsistentEocds(a)
        PROVE  p = selected
    <3>1. p \in S /\ p + EocdSize + a.sigs[p] = a.length
      BY DEF ConsistentEocds
    <3>2. ~(p < selected) /\ ~(p > selected)
      BY <1>2, <1>4, <3>1
    <3> QED
      BY <1>1, <1>3, <3>1, <3>2
  <2> QED
    BY <2>1, <2>2
<1> QED
  BY <1>5, FS_Singleton

\* What is accepted has one reading.
LEMMA AcceptedHasOneReading ==
  ASSUME NEW a \in AcceptedArchives
  PROVE  /\ Cardinality(ConsistentEocds(a)) = 1
         /\ \A i, k \in Files(a) : i # k => ObjectName(a, i) # ObjectName(a, k)
<1>1. a \in Archives /\ SelectedEocd(a) >= 0 /\ MembersValidated(a)
  BY DEF AcceptedArchives, Accepted
<1>2. \A i, k \in Files(a) : i # k => ObjectName(a, i) # ObjectName(a, k)
  BY <1>1 DEF MembersValidated
<1> QED
  BY <1>1, <1>2, OneEndRecord

-----------------------------------------------------------------------------
(* The resolver process.                                                    *)

DnsInv == DnsTypeOK /\ \A c \in Callers : Handed(c)

\* Every step of a resolution, and the two steps of a job that begin a new one.
DnsStep(c) ==
    \/ Launch(c) \/ LaunchFails(c) \/ Deadline(c)
    \/ CallerSteps(c) \/ LauncherSteps(c) \/ ChildEnds(c)
    \/ /\ caller' = [caller EXCEPT ![c] = "idle"]
       /\ \/ UNCHANGED expired
          \/ expired' = [expired EXCEPT ![c] = FALSE]
       /\ UNCHANGED <<launcher, child, shared>>

\* The types of the resolution's state are kept.
LEMMA DnsTypes ==
  ASSUME DnsTypeOK, NEW c \in Callers, DnsStep(c)
  PROVE  DnsTypeOK'
<1>1. shared[c] \in Shared /\ Fresh \in Shared
  BY DEF DnsTypeOK, Shared, Fresh
<1>2. /\ [shared[c] EXCEPT !.launcher_owned = TRUE] \in Shared
      /\ [shared[c] EXCEPT !.process = FALSE] \in Shared
  BY <1>1 DEF Shared
<1>3. CASE LauncherSteps(c)
  <2>1. Reported(c) \in Shared
    BY <1>1 DEF Reported, Shared
  <2>2. CASE MakeProcess(c)
    BY <2>1, <2>2 DEF MakeProcess, DnsTypeOK
  <2>3. CASE CommitStart(c)
    BY <1>2, <2>3 DEF CommitStart, DnsTypeOK
  <2>4. CASE StartProcess(c)
    BY <2>1, <2>4 DEF StartProcess, DnsTypeOK
  <2>5. CASE HandsOver(c)
    BY <1>1, <2>5 DEF HandsOver, DnsTypeOK, Shared
  <2>6. CASE LauncherDecides(c) \/ LauncherReaps(c)
    BY <2>6 DEF LauncherDecides, LauncherReaps, DnsTypeOK
  <2> QED
    BY <1>3, <2>2, <2>3, <2>4, <2>5, <2>6 DEF LauncherSteps
<1>4. CASE CallerSteps(c)
  <2>1. CASE WaitTimesOut(c)
    BY <2>1 DEF WaitTimesOut, DnsTypeOK
  <2>2. CASE GivesUp(c)
    BY <1>1, <2>2 DEF GivesUp, DnsTypeOK, Shared
  <2>3. CASE TakesProcess(c)
    BY <1>2, <2>3 DEF TakesProcess, DnsTypeOK
  <2>4. CASE Polls(c)
    BY <2>4 DEF Polls, DnsTypeOK
  <2>5. CASE CallerReaps(c)
    BY <2>5 DEF CallerReaps, DnsTypeOK
  <2> QED
    BY <1>4, <2>1, <2>2, <2>3, <2>4, <2>5 DEF CallerSteps
<1>5. CASE Launch(c)
  BY <1>1, <1>5 DEF Launch, DnsTypeOK
<1>6. CASE LaunchFails(c) \/ Deadline(c) \/ ChildEnds(c)
  BY <1>6, ZenonT(60) DEF LaunchFails, Deadline, ChildEnds, DnsTypeOK
<1> QED
  BY <1>3, <1>4, <1>5, <1>6 DEF DnsStep, DnsTypeOK

\* A process that was handed over stays handed over.
LEMMA HandedKept ==
  ASSUME DnsInv, NEW c \in Callers, DnsStep(c)
  PROVE  \A d \in Callers : Handed(d)'
<1> SUFFICES ASSUME NEW d \in Callers PROVE Handed(d)'
  OBVIOUS
<1>1. /\ DnsTypeOK /\ Handed(c) /\ Handed(d)
      /\ shared[c] \in Shared
  BY DEF DnsInv, DnsTypeOK
<1>2. CASE d # c
  <2>1. UNCHANGED <<caller[d], launcher[d], shared[d]>>
    BY <1>1, <1>2
    DEF DnsStep, DnsTypeOK, Launch, LaunchFails, Deadline, CallerSteps, WaitTimesOut, GivesUp,
        TakesProcess, Polls, CallerReaps, LauncherSteps, MakeProcess, CommitStart, StartProcess,
        HandsOver, LauncherDecides, LauncherReaps, ChildEnds
  <2> QED
    BY <1>1, <2>1 DEF Handed
<1>3. CASE d = c
  <2>1. CASE Launch(c) \/ LaunchFails(c) \/ Deadline(c) \/ ChildEnds(c)
             \/ (caller'[c] = "idle" /\ UNCHANGED <<launcher, shared>>)
    BY <1>1, <1>3, <2>1
    DEF DnsTypeOK, Launch, LaunchFails, Deadline, ChildEnds, Handed, Fresh
  <2>2. CASE WaitTimesOut(c) \/ Polls(c) \/ CallerReaps(c)
    BY <1>1, <1>3, <2>2 DEF DnsTypeOK, WaitTimesOut, Polls, CallerReaps, Handed
  <2>3. CASE GivesUp(c)
    BY <1>1, <1>3, <2>3 DEF DnsTypeOK, Shared, GivesUp, Handed
  <2>4. CASE TakesProcess(c)
    <3>1. CASE caller'[c] = "failed" /\ UNCHANGED <<shared, launcher>>
      BY <1>1, <1>3, <3>1 DEF Handed
    <3>2. CASE /\ shared[c].process /\ UNCHANGED launcher
               /\ shared' = [shared EXCEPT ![c] = [shared[c] EXCEPT !.process = FALSE]]
      <4>1. launcher[c] \in {"reported", "done"} /\ ~shared[c].launcher_owned
        BY <1>1, <3>2 DEF Handed
      <4>2. shared'[c].launcher_owned = shared[c].launcher_owned
        BY <1>1, <3>2 DEF DnsTypeOK, Shared
      <4> QED
        BY <1>3, <3>2, <4>1, <4>2 DEF Handed
    <3> QED
      BY <1>1, <2>4, <3>1, <3>2 DEF TakesProcess, DnsTypeOK
  <2>5. CASE LauncherSteps(c)
    <3>1. UNCHANGED caller
      BY <2>5 DEF LauncherSteps, MakeProcess, CommitStart, StartProcess, HandsOver,
                  LauncherDecides, LauncherReaps
    <3>2. CASE MakeProcess(c) \/ CommitStart(c) \/ StartProcess(c)
      <4>1. launcher[c] \notin {"reported", "done"}
        BY <3>2 DEF MakeProcess, CommitStart, StartProcess
      <4>2. shared'[c].process = shared[c].process
        <5>1. Reported(c).process = shared[c].process
          BY <1>1 DEF Reported, Shared
        <5>2. [shared[c] EXCEPT !.launcher_owned = TRUE].process = shared[c].process
          BY <1>1 DEF Shared
        <5>3. \/ UNCHANGED shared
              \/ shared' = [shared EXCEPT ![c] = Reported(c)]
              \/ shared' = [shared EXCEPT ![c] = [shared[c] EXCEPT !.launcher_owned = TRUE]]
          BY <3>2 DEF MakeProcess, CommitStart, StartProcess
        <5> QED
          BY <1>1, <5>1, <5>2, <5>3 DEF DnsTypeOK
      <4> QED
        BY <1>1, <1>3, <3>1, <4>1, <4>2 DEF Handed
    <3>3. CASE HandsOver(c)
      <4>1. launcher[c] = "started" /\ launcher'[c] = "reported"
        BY <1>1, <3>3 DEF HandsOver, DnsTypeOK
      <4>2. caller[c] \notin {"polling", "answered", "unanswered", "resolved"}
        BY <1>1, <4>1 DEF Handed
      <4>3. shared'[c].process => ~shared'[c].launcher_owned
        BY <1>1, <3>3 DEF HandsOver, DnsTypeOK, Shared
      <4> QED
        BY <1>3, <3>1, <4>1, <4>2, <4>3 DEF Handed
    <3>4. CASE LauncherDecides(c) \/ LauncherReaps(c)
      BY <1>1, <1>3, <3>4 DEF LauncherDecides, LauncherReaps, DnsTypeOK, Handed
    <3> QED
      BY <2>5, <3>2, <3>3, <3>4 DEF LauncherSteps
  <2> QED
    BY <1>1, <2>1, <2>2, <2>3, <2>4, <2>5 DEF DnsStep, CallerSteps, DnsTypeOK
<1> QED
  BY <1>2, <1>3

\* As far as the resolution is concerned, a step of the acquisition is one of
\* its own steps or none.
LEMMA DnsSteps ==
  ASSUME [AcquisitionNext]_vars
  PROVE  UNCHANGED dnsVars \/ \E c \in Callers : DnsStep(c)
<1>1. Callers = Jobs
  BY AcquisitionAssumption
<1>2. CASE UNCHANGED vars
  BY <1>2 DEF vars
<1>3. CASE Tamper
  BY <1>3 DEF Tamper
<1>4. ASSUME NEW j \in Jobs,
             \/ Begin(j) \/ JobSteps(j) \/ Fails(j)
             \/ Redirected(j) \/ Responded(j) \/ ReadBody(j) \/ Feed(j) \/ StopFeeding(j)
             \/ ResolverSteps(j) \/ DownloadDeadline(j)
      PROVE  UNCHANGED dnsVars \/ DnsStep(j)
  <2>1. CASE Resolve(j) \/ StageDownload(j) \/ Redirected(j) \/ ResolverSteps(j)
             \/ DownloadDeadline(j)
    BY <2>1 DEF Resolve, StageDownload, Redirected, ResolverSteps, DownloadDeadline, DnsStep
  <2>2. CASE Begin(j) \/ Responded(j) \/ Feed(j) \/ StopFeeding(j) \/ ReadBody(j)
             \/ Fails(j) \/ DeadlineAborts(j)
             \/ Resolved(j) \/ CheckStaging(j) \/ PublishDownload(j) \/ CheckDownload(j)
             \/ CheckMetadata(j)
    BY <2>2
    DEF Begin, Responded, Feed, StopFeeding, Fed, ReadBody, Fails, DeadlineAborts, Resolved,
        CheckStaging,
        PublishDownload, CheckDownload, CheckMetadata, Check, dnsVars
  <2>3. CASE Validate(j) \/ Extract(j) \/ RecheckMembers(j) \/ CheckDirectory(j)
             \/ PublishDirectory(j) \/ CheckPublished(j) \/ VerifyOutputs(j)
    BY <2>3
    DEF Validate, Extract, RecheckMembers, CheckDirectory, PublishDirectory, CheckPublished,
        VerifyOutputs, Check, dnsVars
  <2>4. CASE Precheck(j) \/ CheckSource(j) \/ Link(j) \/ VerifyLink(j) \/ RemoveRoot(j)
             \/ FinalVerify(j) \/ ReleaseAndCommit(j) \/ Rollback(j) \/ Cleanup(j)
    BY <2>4
    DEF Precheck, CheckSource, Link, VerifyLink, RemoveRoot, FinalVerify, ReleaseAndCommit,
        Rollback, Cleanup, Check, dnsVars
  <2> QED
    BY <1>4, <2>1, <2>2, <2>3, <2>4 DEF JobSteps
<1> QED
  BY <1>1, <1>2, <1>3, <1>4 DEF AcquisitionNext

LEMMA DnsNext ==
  ASSUME DnsInv, [AcquisitionNext]_vars
  PROVE  DnsInv'
<1>1. CASE UNCHANGED dnsVars
  BY <1>1 DEF dnsVars, DnsInv, DnsTypeOK, Handed
<1>2. ASSUME NEW c \in Callers, DnsStep(c)
      PROVE  DnsInv'
  BY <1>2, DnsTypes, HandedKept DEF DnsInv
<1> QED
  BY <1>1, <1>2, DnsSteps

LEMMA DnsBegins ==
  ASSUME AcquisitionInit
  PROVE  DnsInv
<1>1. Fresh \in Shared /\ Fresh.process = FALSE
  BY DEF Fresh, Shared
<1> QED
  BY <1>1 DEF AcquisitionInit, DnsInit, DnsInv, DnsTypeOK, Handed

\* A resolver process that was started is never reaped by both the thread that
\* launched it and the one that asked for it, whichever way the hand-over and
\* the deadline fall (launch, _bounded_dns_answers).
THEOREM ResolverReapedOnce == AcquisitionSpec => []OneReaper
<1>1. DnsInv => OneReaper
  BY DEF DnsInv, Handed, OneReaper
<1> QED
  BY <1>1, DnsBegins, DnsNext, PTL DEF AcquisitionSpec

-----------------------------------------------------------------------------
(* The jobs.                                                                *)

JobStep(j) ==
    \/ Begin(j) \/ JobSteps(j) \/ Fails(j)
    \/ Redirected(j) \/ Responded(j) \/ ReadBody(j) \/ Feed(j) \/ StopFeeding(j)
    \/ ResolverSteps(j) \/ DownloadDeadline(j)

\* The state of the jobs and of the destination has its types.
JobTypeOK ==
    /\ pc \in [Jobs -> {"idle", "rollback", "cleaning"} \cup Working \cup Ended]
    /\ art \in [Jobs -> DOMAIN Artifacts]
    /\ redirects \in [Jobs -> 0..MaxRedirects]
    /\ stage \in [Jobs -> PathState] /\ raw \in [Jobs -> PathState]
    /\ rawBody \in [Jobs -> Body]
    /\ archive \in [Jobs -> Archives \cup {None}]
    /\ src \in [Jobs -> [OutputSet -> PathState]]
    /\ body \in [Jobs -> [OutputSet -> Body]]
    /\ open \in [Jobs -> SUBSET Binding] /\ releases \in [Jobs -> SUBSET Binding]
    /\ owned \in [Jobs -> 0..Len(Outputs)] /\ index \in [Jobs -> 1..Len(Outputs)]
    /\ kept \in [Jobs -> BOOLEAN]
    /\ settled \in [Jobs -> SUBSET OutputSet] /\ late \in [Jobs -> SUBSET OutputSet]
    /\ target \in [OutputSet -> {None, "foreign"} \cup Jobs]
    /\ tampers \in 0..MaxTampers

\* A step before anything is linked.
Prepares(j) ==
    /\ pc[j] \in Private
    /\ \E p \in (Private \ {"idle"}) \cup {"checking", "failed"} :
           Goto(j, p) /\ (p = "failed" => pc[j] = "idle")
    /\ UNCHANGED <<owned, index, kept, settled, worldVars>>

\* What a step does to the links and to what is known of them.
LEMMA JobMoves ==
  ASSUME NEW j \in Jobs, JobStep(j)
  PROVE  \/ UNCHANGED <<jobVars, worldVars>>
         \/ Prepares(j)
         \/ pc[j] \in Working /\ Abort(j)
         \/ CheckSource(j) \/ Link(j) \/ VerifyLink(j) \/ RemoveRoot(j) \/ FinalVerify(j)
         \/ ReleaseAndCommit(j) \/ Rollback(j) \/ Cleanup(j)
<1>1. CASE Begin(j) \/ StageDownload(j) \/ Redirected(j) \/ ReadBody(j) \/ PublishDownload(j)
           \/ PublishDirectory(j)
  BY <1>1
  DEF Begin, StageDownload, Redirected, ReadBody, PublishDownload, PublishDirectory,
      Prepares, Private
<1>2. CASE Resolved(j) \/ Responded(j) \/ Feed(j) \/ StopFeeding(j)
           \/ CheckStaging(j) \/ CheckMetadata(j)
  BY <1>2
  DEF Resolved, Responded, Feed, StopFeeding, Fed,
      CheckStaging, CheckMetadata, Check, Prepares, Private, Working
<1>3. CASE RecheckMembers(j) \/ CheckDirectory(j) \/ Precheck(j)
  BY <1>3 DEF RecheckMembers, CheckDirectory, Precheck, Check, Prepares, Private, Working
<1>4. CASE CheckDownload(j) \/ Validate(j) \/ Extract(j) \/ CheckPublished(j)
  BY <1>4 DEF CheckDownload, Validate, Extract, CheckPublished, Prepares, Private, Working
<1>5. CASE VerifyOutputs(j)
  BY <1>5 DEF VerifyOutputs, Prepares, Private, Working
<1>6. CASE Fails(j) \/ DeadlineAborts(j)
  BY <1>6 DEF Fails, DeadlineAborts, Working
<1>7. CASE Resolve(j) \/ ResolverSteps(j) \/ DownloadDeadline(j)
  BY <1>7 DEF Resolve, ResolverSteps, DownloadDeadline
<1> QED
  BY <1>1, <1>2, <1>3, <1>4, <1>5, <1>6, <1>7 DEF JobStep, JobSteps

\* A step of one job leaves what the others have alone.
LEMMA OthersKept ==
  ASSUME JobTypeOK, NEW j \in Jobs, JobStep(j), NEW k \in Jobs, k # j
  PROVE  UNCHANGED <<pc[k], art[k], archive[k], body[k], open[k], releases[k], owned[k],
                     index[k], kept[k], settled[k]>>
<1> USE DEF JobTypeOK
<1>1. CASE Begin(j) \/ StageDownload(j) \/ Redirected(j) \/ ReadBody(j) \/ PublishDownload(j)
           \/ PublishDirectory(j) \/ RemoveRoot(j) \/ ReleaseAndCommit(j)
  BY <1>1
  DEF Begin, StageDownload, Redirected, ReadBody, PublishDownload, PublishDirectory,
      RemoveRoot, ReleaseAndCommit, Goto
<1>2. CASE Abort(j)
  BY <1>2 DEF Abort, Abandon, Goto
<1>3. ASSUME NEW ok, NEW p, Check(j, ok, p)
      PROVE  UNCHANGED <<pc[k], art[k], archive[k], body[k], open[k], releases[k], owned[k],
                         index[k], kept[k], settled[k]>>
  BY <1>2, <1>3 DEF Check, Goto
<1>4. CASE Resolved(j) \/ Responded(j) \/ Feed(j) \/ StopFeeding(j)
           \/ CheckStaging(j) \/ CheckMetadata(j)
           \/ RecheckMembers(j) \/ CheckDirectory(j) \/ Precheck(j) \/ CheckSource(j)
  <2> HIDE DEF JobTypeOK
  <2> QED
    BY <1>3, <1>4
    DEF Resolved, Responded, Feed, StopFeeding, Fed,
        CheckStaging, CheckMetadata, RecheckMembers, CheckDirectory,
        Precheck, CheckSource
<1>5. CASE CheckDownload(j) \/ Validate(j) \/ Extract(j) \/ CheckPublished(j)
  BY <1>2, <1>5 DEF CheckDownload, Validate, Extract, CheckPublished, Goto
<1>6. CASE VerifyOutputs(j)
  BY <1>2, <1>6 DEF VerifyOutputs, Goto
<1>7. CASE Fails(j) \/ DeadlineAborts(j)
  BY <1>2, <1>7 DEF Fails, DeadlineAborts
<1>8. CASE Resolve(j) \/ ResolverSteps(j) \/ DownloadDeadline(j)
  BY <1>8 DEF Resolve, ResolverSteps, DownloadDeadline, jobVars
<1>9. CASE Link(j) \/ VerifyLink(j) \/ FinalVerify(j)
  BY <1>2, <1>9 DEF Link, VerifyLink, FinalVerify, Goto
<1>10. CASE Rollback(j) \/ Cleanup(j)
  BY <1>10 DEF Rollback, Cleanup, Goto
<1> HIDE DEF JobTypeOK
<1> QED
  BY <1>1, <1>4, <1>5, <1>6, <1>7, <1>8, <1>9, <1>10 DEF JobStep, JobSteps

-----------------------------------------------------------------------------
(* Types and the loop over the outputs.                                     *)

\* Facts about the constants the proofs need again and again.
LEMMA Sizes ==
  /\ Callers = Jobs
  /\ Len(Outputs) \in Nat \ {0} /\ \A i \in 1..Len(Outputs) : Outputs[i] \in OutputSet
  /\ \A o \in OutputSet : \E i \in 1..Len(Outputs) : Outputs[i] = o
  /\ Len(Artifacts) \in Nat \ {0} /\ DOMAIN Artifacts = 1..Len(Artifacts)
  /\ None \notin Jobs /\ "foreign" \notin Jobs
<1>1. Outputs \in Seq(OutputSet) /\ Outputs # <<>>
  BY AcquisitionAssumption
<1>2. DOMAIN Outputs = 1..Len(Outputs) /\ Len(Outputs) \in Nat \ {0}
  BY <1>1
<1>3. Artifacts \in Seq([archive : BOOLEAN, outputs : SUBSET OutputSet]) /\ Artifacts # <<>>
  BY AcquisitionAssumption
<1>4. DOMAIN Artifacts = 1..Len(Artifacts) /\ Len(Artifacts) \in Nat \ {0}
  BY <1>3
<1> QED
  BY <1>2, <1>4, AcquisitionAssumption DEF OutputSet

\* Every step of a job keeps the types.
LEMMA JobTypes ==
  ASSUME JobTypeOK, NEW j \in Jobs, JobStep(j), Placed(j)
  PROVE  JobTypeOK'
<1> USE DEF JobTypeOK
<1> DEFINE L == 1..Len(Outputs)
<1>1. /\ 0 \in 0..MaxRedirects /\ 1 \in DOMAIN Artifacts /\ 1 \in L
      /\ <<art[j], "download">> \in Binding /\ <<art[j], "members">> \in Binding
      /\ Item(j) \in OutputSet
  <2>1. art[j] \in DOMAIN Artifacts /\ index[j] \in L
    OBVIOUS
  <2> HIDE DEF JobTypeOK
  <2>2. <<art[j], "download">> \in Binding /\ <<art[j], "members">> \in Binding
    BY <2>1 DEF Binding
  <2>3. 1 \in DOMAIN Artifacts /\ 1 \in L /\ Item(j) \in OutputSet
    BY <2>1, Sizes DEF Item
  <2>4. 0 \in 0..MaxRedirects
    BY AcquisitionAssumption
  <2> QED
    BY <2>2, <2>3, <2>4
<1>2. CASE Abort(j)
  BY <1>2 DEF Abort, Abandon, Goto, Working, worldVars, PathState
<1>3. ASSUME NEW p \in Working \cup Ended, Goto(j, p),
             UNCHANGED <<art, redirects, stage, raw, rawBody, archive, src, body,
                         open, releases, owned, index, kept, settled, worldVars>>
      PROVE  JobTypeOK'
  BY <1>3 DEF Goto, worldVars
<1>4. CASE Begin(j)
  <2> HIDE DEF JobTypeOK
  <2> QED
    BY <1>3, <1>4 DEF Begin, Working, Ended
<1>5. ASSUME NEW ok, NEW p \in Working, Check(j, ok, p)
      PROVE  JobTypeOK'
  <2> HIDE DEF JobTypeOK
  <2> QED
    BY <1>2, <1>3, <1>5 DEF Check
<1>6. CASE Resolved(j) \/ Responded(j) \/ Feed(j) \/ StopFeeding(j)
           \/ CheckStaging(j) \/ CheckMetadata(j)
           \/ RecheckMembers(j) \/ CheckDirectory(j) \/ Precheck(j) \/ CheckSource(j)
  <2> HIDE DEF JobTypeOK
  <2> QED
    BY <1>5, <1>6
    DEF Resolved, Responded, Feed, StopFeeding, Fed,
        CheckStaging, CheckMetadata, RecheckMembers, CheckDirectory,
        Precheck, CheckSource, Working
<1>7. CASE StageDownload(j)
  BY <1>1, <1>7 DEF StageDownload, worldVars, Goto, Working, PathState
<1>8. CASE Redirected(j)
  <2>1. redirects[j] + 1 \in 0..MaxRedirects
    BY <1>8, AcquisitionAssumption DEF Redirected
  <2> QED
    BY <1>8, <2>1 DEF Redirected, worldVars, Goto, Working
<1>9. CASE ReadBody(j)
  <2>1. PICK b \in Body : rawBody' = [rawBody EXCEPT ![j] = b]
    BY <1>9 DEF ReadBody
  <2> QED
    BY <1>9, <2>1 DEF ReadBody, worldVars, Goto, Working
<1>10. CASE PublishDownload(j)
  BY <1>10 DEF PublishDownload, worldVars, Goto, Working, PathState
<1>11. CASE PublishDirectory(j)
  BY <1>11 DEF PublishDirectory, worldVars, Goto, Working, PathState
<1>12. CASE RemoveRoot(j)
  BY <1>12 DEF RemoveRoot, worldVars, Goto, Working, PathState
<1>13. CASE ReleaseAndCommit(j)
  BY <1>13 DEF ReleaseAndCommit, worldVars, Goto, Ended
<1>14. CASE CheckDownload(j) /\ ~Abort(j)
  <2>1. /\ Goto(j, "metadata")
        /\ releases' = [releases EXCEPT ![j] = releases[j] \cup {<<art[j], "download">>}]
        /\ UNCHANGED <<art, redirects, stage, raw, rawBody, archive, src, body, open,
                       owned, index, kept, settled, worldVars>>
    BY <1>14 DEF CheckDownload
  <2> QED
    BY <1>1, <2>1 DEF Goto, worldVars, Working
<1>15. CASE Validate(j) /\ ~Abort(j)
  <2>1. PICK a \in Archives : archive' = [archive EXCEPT ![j] = a]
    BY <1>15 DEF Validate, AcceptedArchives
  <2>2. /\ Goto(j, "extracting")
        /\ UNCHANGED <<art, redirects, stage, raw, rawBody, src, body, open, releases,
                       owned, index, kept, settled, worldVars>>
    BY <1>15 DEF Validate
  <2> QED
    BY <2>1, <2>2 DEF Goto, worldVars, Working
<1>16. CASE Extract(j) /\ ~Abort(j)
  <2>1. PICK b \in Body :
           body' = [body EXCEPT ![j] = [o \in OutputSet |-> IF o \in Outs(j) THEN b ELSE body[j][o]]]
    BY <1>16 DEF Extract
  <2>2. [o \in OutputSet |-> IF o \in Outs(j) THEN b ELSE body[j][o]] \in [OutputSet -> Body]
    OBVIOUS
  <2>3. [o \in OutputSet |-> IF o \in Outs(j) THEN "own" ELSE src[j][o]] \in [OutputSet -> PathState]
    BY DEF PathState
  <2>4. /\ stage' = [stage EXCEPT ![j] = "own"]
        /\ open' = [open EXCEPT ![j] = open[j] \cup {<<art[j], "members">>}]
        /\ src' = [src EXCEPT ![j] = [o \in OutputSet |-> IF o \in Outs(j) THEN "own" ELSE src[j][o]]]
        /\ archive' = [archive EXCEPT ![j] = None]
        /\ Goto(j, "rechecking")
        /\ UNCHANGED <<art, redirects, raw, rawBody, releases, owned, index, kept, settled,
                       worldVars>>
    BY <1>16 DEF Extract
  <2> QED
    BY <1>1, <2>1, <2>2, <2>3, <2>4 DEF Goto, worldVars, Working, PathState
<1>17. CASE CheckPublished(j) /\ ~Abort(j)
  <2>1. /\ Goto(j, "verifying")
        /\ stage' = [stage EXCEPT ![j] = "none"]
        /\ releases' = [releases EXCEPT ![j] = releases[j] \cup {<<art[j], "members">>}]
        /\ UNCHANGED <<art, redirects, raw, rawBody, archive, src, body, open,
                       owned, index, kept, settled, worldVars>>
    BY <1>17 DEF CheckPublished
  <2> QED
    BY <1>1, <2>1 DEF Goto, worldVars, Working, PathState
<1>18. CASE VerifyOutputs(j) /\ ~Abort(j)
  <2>1. PICK paths \in [OutputSet -> PathState], bytes \in [OutputSet -> Body] :
           src' = [src EXCEPT ![j] = paths] /\ body' = [body EXCEPT ![j] = bytes]
    <3> DEFINE direct == ~Artifacts[art[j]].archive
               paths == [o \in OutputSet |-> IF o \in Outs(j)
                           THEN IF direct THEN raw[j] ELSE src[j][o] ELSE src[j][o]]
               bytes == [o \in OutputSet |-> IF o \in Outs(j)
                           THEN IF direct THEN rawBody[j] ELSE body[j][o] ELSE body[j][o]]
    <3>1. paths \in [OutputSet -> PathState] /\ bytes \in [OutputSet -> Body]
      OBVIOUS
    <3>2. src' = [src EXCEPT ![j] = paths] /\ body' = [body EXCEPT ![j] = bytes]
      BY <1>18 DEF VerifyOutputs
    <3> QED
      BY <3>1, <3>2
  <2>2. art' \in [Jobs -> DOMAIN Artifacts]
    <3>1. CASE art[j] = Len(Artifacts)
      BY <1>18, <3>1 DEF VerifyOutputs
    <3>2. CASE art[j] # Len(Artifacts)
      <4>1. art[j] + 1 \in DOMAIN Artifacts
        <5>1. art[j] \in DOMAIN Artifacts
          OBVIOUS
        <5> QED
          BY <3>2, <5>1, Sizes
      <4>2. art' = [art EXCEPT ![j] = art[j] + 1]
        BY <1>18, <3>2 DEF VerifyOutputs
      <4> QED
        BY <4>1, <4>2
    <3> QED
      BY <3>1, <3>2
  <2>3. PICK p \in Working : Goto(j, p)
    BY <1>18 DEF VerifyOutputs, Working
  <2>4. /\ raw' = [raw EXCEPT ![j] = "none"] /\ rawBody' = [rawBody EXCEPT ![j] = "other"]
        /\ redirects' = [redirects EXCEPT ![j] = 0]
        /\ UNCHANGED <<stage, archive, open, releases, owned, index, kept, settled, worldVars>>
    BY <1>18 DEF VerifyOutputs
  <2> QED
    BY <1>1, <2>1, <2>2, <2>3, <2>4 DEF Goto, worldVars, PathState, Body
<1>19. CASE Resolve(j) \/ ResolverSteps(j) \/ DownloadDeadline(j)
  BY <1>19 DEF Resolve, ResolverSteps, DownloadDeadline, jobVars, worldVars
<1>20. CASE Link(j) /\ ~Abort(j)
  <2>1. owned[j] + 1 \in 0..Len(Outputs)
    BY <1>20, Sizes DEF Link, Placed
  <2>2. /\ owned' = [owned EXCEPT ![j] = owned[j] + 1]
        /\ Goto(j, "linked")
        /\ UNCHANGED <<art, redirects, stage, raw, rawBody, archive, src, body, open,
                       releases, index, kept, settled, late, tampers>>
    BY <1>20 DEF Link
  <2>3. PICK t \in {"foreign"} \cup Jobs : target' = [target EXCEPT ![Item(j)] = t]
    BY <1>20 DEF Link
  <2> QED
    BY <1>1, <2>1, <2>2, <2>3 DEF Goto, Working
<1>21. CASE (VerifyLink(j) \/ FinalVerify(j)) /\ ~Abort(j)
  <2>1. PICK n \in L : index' = [index EXCEPT ![j] = n]
    <3>1. index[j] < Len(Outputs) => index[j] + 1 \in L
      BY Sizes
    <3> QED
      BY <1>1, <1>21, <3>1 DEF VerifyLink, FinalVerify
  <2>2. PICK p \in Working : Goto(j, p)
    BY <1>21 DEF VerifyLink, FinalVerify, Working
  <2>3. UNCHANGED settled \/ settled' = [settled EXCEPT ![j] = settled[j] \cup {Item(j)}]
    BY <1>21 DEF VerifyLink, FinalVerify
  <2>4. UNCHANGED <<art, redirects, stage, raw, rawBody, archive, src, body, open, releases,
                    owned, kept, worldVars>>
    BY <1>21 DEF VerifyLink, FinalVerify
  <2>5. settled' \in [Jobs -> SUBSET OutputSet]
    <3>1. settled \in [Jobs -> SUBSET OutputSet]
      OBVIOUS
    <3>2. settled[j] \cup {Item(j)} \in SUBSET OutputSet
      BY <1>1, <3>1
    <3> HIDE DEF JobTypeOK
    <3> QED
      BY <2>3, <3>1, <3>2
  <2> QED
    BY <2>1, <2>2, <2>4, <2>5 DEF Goto, worldVars
<1>22. CASE Rollback(j)
  <2>1. owned[j] - 1 \in 0..Len(Outputs)
    BY <1>22, Sizes DEF Rollback, Placed
  <2>2. /\ target' \in [OutputSet -> {None, "foreign"} \cup Jobs]
        /\ late' \in [Jobs -> SUBSET OutputSet]
        /\ kept' \in [Jobs -> BOOLEAN]
    <3>1. Outputs[owned[j]] \in OutputSet
      BY <1>22, Sizes DEF Rollback, Placed
    <3>2. CASE UNCHANGED <<target, late>> /\ kept' = [kept EXCEPT ![j] = TRUE]
      BY <3>2
    <3>3. CASE /\ target' = [target EXCEPT ![Outputs[owned[j]]] = None]
               /\ late' = [Touched(Outputs[owned[j]]) EXCEPT ![j] = late[j]]
               /\ UNCHANGED kept
      <4>1. Touched(Outputs[owned[j]]) \in [Jobs -> SUBSET OutputSet]
        BY <3>1 DEF Touched
      <4> QED
        BY <3>1, <3>3, <4>1
    <3> QED
      BY <1>22, <3>2, <3>3 DEF Rollback
  <2> QED
    BY <1>22, <2>1, <2>2 DEF Rollback, Goto
<1>23. CASE Cleanup(j)
  BY <1>1, <1>23 DEF Cleanup, Goto, Ended, PathState, Body
<1> HIDE DEF JobTypeOK
<1>24. CASE Abort(j)
  BY <1>2, <1>24
<1>25. CASE ~Abort(j)
  BY <1>4, <1>6, <1>7, <1>8, <1>9, <1>10, <1>11, <1>12, <1>13, <1>14, <1>15, <1>16, <1>17,
     <1>18, <1>19, <1>20, <1>21, <1>22, <1>23, <1>25
  DEF JobStep, JobSteps, Fails, DeadlineAborts
<1> QED
  BY <1>24, <1>25

\* Interference keeps the types and changes nothing the job goes by.
LEMMA TamperTypes ==
  ASSUME JobTypeOK, Tamper
  PROVE  /\ JobTypeOK'
         /\ UNCHANGED <<pc, art, archive, open, releases, owned, index, kept, settled>>
<1> USE DEF JobTypeOK
<1>1. tampers' \in 0..MaxTampers
  BY AcquisitionAssumption DEF Tamper
<1>2. ASSUME NEW j \in Jobs, TamperPrivate(j)
      PROVE  /\ JobTypeOK'
             /\ UNCHANGED <<pc, art, archive, open, releases, owned, index, kept, settled>>
  <2>1. \/ stage' = [stage EXCEPT ![j] = "foreign"] /\ UNCHANGED <<raw, src>>
        \/ raw' = [raw EXCEPT ![j] = "foreign"] /\ UNCHANGED <<stage, src>>
        \/ /\ \E o \in OutputSet : src' = [src EXCEPT ![j] = [src[j] EXCEPT ![o] = "foreign"]]
           /\ UNCHANGED <<stage, raw>>
    BY <1>2 DEF TamperPrivate
  <2>2. /\ stage' \in [Jobs -> PathState] /\ raw' \in [Jobs -> PathState]
        /\ src' \in [Jobs -> [OutputSet -> PathState]]
    <3>1. /\ src \in [Jobs -> [OutputSet -> PathState]]
          /\ stage \in [Jobs -> PathState] /\ raw \in [Jobs -> PathState]
      OBVIOUS
    <3>2. \A o \in OutputSet : [src[j] EXCEPT ![o] = "foreign"] \in [OutputSet -> PathState]
      BY DEF PathState
    <3> HIDE DEF JobTypeOK
    <3>3. "foreign" \in PathState
      BY DEF PathState
    <3>4. ASSUME \E o \in OutputSet : src' = [src EXCEPT ![j] = [src[j] EXCEPT ![o] = "foreign"]]
          PROVE  src' \in [Jobs -> [OutputSet -> PathState]]
      <4>1. PICK o \in OutputSet : src' = [src EXCEPT ![j] = [src[j] EXCEPT ![o] = "foreign"]]
        BY <3>4
      <4> DEFINE paths == [src[j] EXCEPT ![o] = "foreign"]
      <4>2. paths \in [OutputSet -> PathState] /\ src' = [src EXCEPT ![j] = paths]
        BY <3>2, <4>1
      <4> HIDE DEF paths
      <4> QED
        BY <3>1, <4>2
    <3>5. src' \in [Jobs -> [OutputSet -> PathState]]
      BY <2>1, <3>1, <3>4
    <3>6. stage' \in [Jobs -> PathState] /\ raw' \in [Jobs -> PathState]
      BY <2>1, <3>1, <3>3
    <3> QED
      BY <3>5, <3>6
  <2> QED
    BY <1>1, <1>2, <2>2 DEF TamperPrivate
<1>3. ASSUME NEW j \in Jobs, TamperContent(j)
      PROVE  /\ JobTypeOK'
             /\ UNCHANGED <<pc, art, archive, open, releases, owned, index, kept, settled>>
  <2>1. CASE rawBody' = [rawBody EXCEPT ![j] = "other"] /\ UNCHANGED <<body, late>>
    BY <1>1, <1>3, <2>1 DEF TamperContent, Body
  <2>2. ASSUME NEW o \in OutputSet,
               body' = [body EXCEPT ![j] = [body[j] EXCEPT ![o] = "other"]],
               late' = [late EXCEPT ![j] = IF o \in settled[j] THEN late[j] \cup {o} ELSE late[j]],
               UNCHANGED rawBody
        PROVE  /\ JobTypeOK'
               /\ UNCHANGED <<pc, art, archive, open, releases, owned, index, kept, settled>>
    <3>1. late' \in [Jobs -> SUBSET OutputSet] /\ body' \in [Jobs -> [OutputSet -> Body]]
      BY <2>2 DEF Body
    <3> QED
      BY <1>1, <1>3, <2>2, <3>1 DEF TamperContent
  <2> HIDE DEF JobTypeOK
  <2> QED
    BY <1>3, <2>1, <2>2 DEF TamperContent
<1>4. ASSUME NEW o \in OutputSet, TamperTarget(o)
      PROVE  /\ JobTypeOK'
             /\ UNCHANGED <<pc, art, archive, open, releases, owned, index, kept, settled>>
  <2>1. late' \in [Jobs -> SUBSET OutputSet]
    BY <1>4 DEF TamperTarget, Touched
  <2>2. target' \in [OutputSet -> {None, "foreign"} \cup Jobs]
    BY <1>4 DEF TamperTarget
  <2> QED
    BY <1>1, <1>4, <2>1, <2>2 DEF TamperTarget, jobVars
<1> HIDE DEF JobTypeOK
<1> QED
  BY <1>2, <1>3, <1>4 DEF Tamper

\* The loop over the outputs keeps count of the links.
LEMMA PlacedKept ==
  ASSUME JobTypeOK, NEW j \in Jobs, JobStep(j), Placed(j)
  PROVE  Placed(j)'
<1>1. /\ pc \in [Jobs -> {"idle", "rollback", "cleaning"} \cup Working \cup Ended]
      /\ owned \in [Jobs -> 0..Len(Outputs)] /\ index \in [Jobs -> 1..Len(Outputs)]
      /\ Len(Outputs) \in Nat
  BY Sizes DEF JobTypeOK
<1>2. CASE UNCHANGED <<jobVars, worldVars>>
  BY <1>2 DEF jobVars, Placed
<1>3. CASE Prepares(j)
  BY <1>1, <1>3 DEF Prepares, Goto, Placed, Private
<1>4. CASE Abort(j)
  BY <1>1, <1>4 DEF Abort, Goto, Placed, Private
<1>5. CASE CheckSource(j) \/ RemoveRoot(j) \/ ReleaseAndCommit(j)
  BY <1>1, <1>4, <1>5 DEF CheckSource, Check, RemoveRoot, ReleaseAndCommit, Goto, Placed, Private
<1>6. CASE Link(j) /\ ~Abort(j)
  BY <1>1, <1>6 DEF Link, Goto, Placed, Private
<1>7. CASE VerifyLink(j) /\ ~Abort(j)
  <2>1. pc[j] = "linked" /\ owned[j] = index[j] /\ UNCHANGED owned
    BY <1>7 DEF VerifyLink, Placed
  <2>2. CASE index[j] < Len(Outputs)
    <3>1. pc'[j] = "checking" /\ index'[j] = index[j] + 1
      BY <1>1, <1>7, <2>2 DEF VerifyLink, Goto
    <3> QED
      BY <1>1, <2>1, <3>1 DEF Placed, Private
  <2>3. CASE ~(index[j] < Len(Outputs))
    <3>1. pc'[j] = "unrooting" /\ index'[j] = 1
      BY <1>1, <1>7, <2>3 DEF VerifyLink, Goto
    <3> QED
      BY <3>1 DEF Placed, Private
  <2> QED
    BY <2>2, <2>3
<1>8. CASE FinalVerify(j) /\ ~Abort(j)
  <2>1. pc[j] = "finishing" /\ pc'[j] \in {"finishing", "releasing"}
    BY <1>1, <1>8 DEF FinalVerify, Goto
  <2> QED
    BY <2>1 DEF Placed, Private
<1>9. CASE Rollback(j)
  BY <1>1, <1>9 DEF Rollback, Goto, Placed, Private
<1>10. CASE Cleanup(j)
  BY <1>1, <1>10 DEF Cleanup, Goto, Placed, Private
<1> QED
  BY <1>2, <1>3, <1>4, <1>5, <1>6, <1>7, <1>8, <1>9, <1>10, JobMoves

\* Every descriptor is registered for release or is the one being made.
LEMMA BoundKept ==
  ASSUME JobTypeOK, NEW j \in Jobs, JobStep(j), Bound(j)
  PROVE  Bound(j)'
<1>1. /\ pc \in [Jobs -> {"idle", "rollback", "cleaning"} \cup Working \cup Ended]
      /\ open \in [Jobs -> SUBSET Binding] /\ releases \in [Jobs -> SUBSET Binding]
  BY DEF JobTypeOK
<1>2. CASE UNCHANGED <<jobVars, worldVars>>
  BY <1>2 DEF jobVars, Bound, Unregistered
<1>3. CASE Abort(j)
  BY <1>1, <1>3 DEF Abort, Abandon, Goto, Bound, Unregistered, Ended
<1>4. CASE Begin(j) \/ StageDownload(j) \/ Redirected(j) \/ ReadBody(j) \/ PublishDownload(j)
           \/ PublishDirectory(j)
  BY <1>1, <1>4
  DEF Begin, StageDownload, Redirected, ReadBody, PublishDownload, PublishDirectory, Goto,
      Bound, Unregistered, Ended
<1>5. CASE Resolved(j) \/ Responded(j) \/ Feed(j) \/ StopFeeding(j)
           \/ CheckStaging(j) \/ CheckMetadata(j)
           \/ RecheckMembers(j) \/ CheckDirectory(j) \/ Precheck(j) \/ CheckSource(j)
  BY <1>1, <1>3, <1>5
  DEF Resolved, Responded, Feed, StopFeeding, Fed,
      CheckStaging, CheckMetadata, RecheckMembers, CheckDirectory,
      Precheck, CheckSource, Check, Goto, Bound, Unregistered, Ended
<1>6. CASE (CheckDownload(j) \/ Validate(j) \/ Extract(j) \/ CheckPublished(j)) /\ ~Abort(j)
  BY <1>1, <1>6
  DEF CheckDownload, Validate, Extract, CheckPublished, Goto, Bound, Unregistered, Ended
<1>7. CASE VerifyOutputs(j) /\ ~Abort(j)
  BY <1>1, <1>7 DEF VerifyOutputs, Goto, Bound, Unregistered, Ended
<1>8. CASE (Link(j) \/ VerifyLink(j) \/ FinalVerify(j)) /\ ~Abort(j)
  BY <1>1, <1>8 DEF Link, VerifyLink, FinalVerify, Goto, Bound, Unregistered, Ended
<1>9. CASE RemoveRoot(j) \/ ReleaseAndCommit(j) \/ Rollback(j) \/ Cleanup(j)
  BY <1>1, <1>9 DEF RemoveRoot, ReleaseAndCommit, Rollback, Cleanup, Goto, Bound, Unregistered,
                    Ended
<1>10. CASE Resolve(j) \/ ResolverSteps(j) \/ DownloadDeadline(j)
  BY <1>2, <1>10 DEF Resolve, ResolverSteps, DownloadDeadline
<1> QED
  BY <1>3, <1>4, <1>5, <1>6, <1>7, <1>8, <1>9, <1>10
  DEF JobStep, JobSteps, Fails, DeadlineAborts

-----------------------------------------------------------------------------
(* The destination.                                                         *)

\* A step of one job takes another job's link away only together with a note
\* that it did, and adds none.
LEMMA OthersLinks ==
  ASSUME JobTypeOK, NEW j \in Jobs, JobStep(j), NEW k \in Jobs, k # j
  PROVE  /\ \A o \in OutputSet : target'[o] = k => target[o] = k
         /\ late[k] \subseteq late'[k]
         /\ \A o \in settled[k] : target[o] = k => target'[o] = k \/ o \in late'[k]
<1>1. /\ settled[k] \subseteq OutputSet /\ owned \in [Jobs -> 0..Len(Outputs)]
      /\ late \in [Jobs -> SUBSET OutputSet]
      /\ target \in [OutputSet -> {None, "foreign"} \cup Jobs]
  BY DEF JobTypeOK
<1>2. CASE UNCHANGED worldVars
  BY <1>1, <1>2 DEF worldVars
<1>3. CASE Link(j) /\ ~Abort(j)
  <2>1. PICK t \in {"foreign", j} : /\ target[Item(j)] = None
                                    /\ target' = [target EXCEPT ![Item(j)] = t]
                                    /\ UNCHANGED late
    BY <1>3 DEF Link
  <2> QED
    BY <1>1, <2>1, Sizes
<1>4. CASE Rollback(j)
  <2>1. CASE UNCHANGED <<target, late>>
    BY <1>1, <2>1
  <2>2. CASE /\ target' = [target EXCEPT ![Outputs[owned[j]]] = None]
             /\ late' = [Touched(Outputs[owned[j]]) EXCEPT ![j] = late[j]]
    <3>1. late'[k] = IF target[Outputs[owned[j]]] = k /\ Outputs[owned[j]] \in settled[k]
                     THEN late[k] \cup {Outputs[owned[j]]} ELSE late[k]
      BY <2>2 DEF Touched
    <3>2. \A o \in OutputSet : target'[o] = IF o = Outputs[owned[j]] THEN None ELSE target[o]
      BY <1>1, <2>2
    <3> QED
      BY <1>1, <3>1, <3>2, Sizes
  <2> QED
    BY <1>4, <2>1, <2>2 DEF Rollback
<1>5. CASE Cleanup(j)
  BY <1>1, <1>5 DEF Cleanup
<1>6. CASE (CheckSource(j) \/ VerifyLink(j) \/ RemoveRoot(j) \/ FinalVerify(j)
            \/ ReleaseAndCommit(j)) /\ ~Abort(j)
  BY <1>2, <1>6 DEF CheckSource, Check, VerifyLink, RemoveRoot, FinalVerify, ReleaseAndCommit
<1> QED
  BY <1>2, <1>3, <1>4, <1>5, <1>6, JobMoves DEF Prepares, Abort

\* The links a job has in the destination are the ones it counts.
LEMMA CountedKept ==
  ASSUME JobTypeOK, NEW j \in Jobs, JobStep(j), Placed(j), Counted(j)
  PROVE  Counted(j)'
<1>1. /\ owned \in [Jobs -> 0..Len(Outputs)] /\ index \in [Jobs -> 1..Len(Outputs)]
      /\ target \in [OutputSet -> {None, "foreign"} \cup Jobs]
      /\ kept \in [Jobs -> BOOLEAN]
  BY DEF JobTypeOK
<1>2. CASE UNCHANGED <<owned, kept, target>>
  BY <1>2 DEF Counted
<1>3. CASE Link(j) /\ ~Abort(j)
  <2>1. /\ owned' = [owned EXCEPT ![j] = owned[j] + 1] /\ owned[j] = index[j] - 1
        /\ UNCHANGED kept
    BY <1>3 DEF Link, Placed
  <2>2. owned'[j] = index[j] /\ owned[j] <= owned'[j] /\ index[j] \in Nat /\ owned[j] \in Nat
    BY <1>1, <2>1, Sizes
  <2>3. ASSUME NEW o \in OutputSet, target'[o] = j
        PROVE  o = Item(j) \/ target[o] = j
    BY <1>1, <1>3, <2>3 DEF Link
  <2>4. ASSUME NEW o \in OutputSet, target'[o] = j, ~kept'[j]
        PROVE  \E i \in 1..owned'[j] : Outputs[i] = o
    <3>1. CASE o = Item(j)
      BY <1>1, <2>2, <3>1 DEF Item
    <3>2. CASE target[o] = j
      <4>1. PICK i \in 1..owned[j] : Outputs[i] = o
        BY <2>1, <2>4, <3>2 DEF Counted
      <4> QED
        BY <2>2, <4>1
    <3> QED
      BY <2>3, <2>4, <3>1, <3>2
  <2> QED
    BY <2>4 DEF Counted
<1>4. CASE Rollback(j)
  <2>1. CASE kept' = [kept EXCEPT ![j] = TRUE]
    BY <1>1, <2>1 DEF Counted
  <2>2. CASE target' = [target EXCEPT ![Outputs[owned[j]]] = None] /\ UNCHANGED kept
    <3>1. owned'[j] = owned[j] - 1 /\ owned[j] \in Nat
      BY <1>1, <1>4, Sizes DEF Rollback
    <3>2. ASSUME NEW o \in OutputSet, target'[o] = j, ~kept'[j]
          PROVE  \E i \in 1..owned'[j] : Outputs[i] = o
      <4>1. target[o] = j /\ o # Outputs[owned[j]]
        BY <1>1, <2>2, <3>2, Sizes
      <4>2. PICK i \in 1..owned[j] : Outputs[i] = o
        BY <2>2, <3>2, <4>1 DEF Counted
      <4>3. i # owned[j]
        BY <4>1, <4>2
      <4> QED
        BY <3>1, <4>2, <4>3
    <3> QED
      BY <3>2 DEF Counted
  <2> QED
    BY <1>4, <2>1, <2>2 DEF Rollback
<1>5. CASE (CheckSource(j) \/ VerifyLink(j) \/ RemoveRoot(j) \/ FinalVerify(j)
            \/ ReleaseAndCommit(j) \/ Cleanup(j)) /\ ~Abort(j)
  BY <1>2, <1>5
  DEF CheckSource, Check, VerifyLink, RemoveRoot, FinalVerify, ReleaseAndCommit, Cleanup, worldVars
<1>6. CASE UNCHANGED <<jobVars, worldVars>> \/ Prepares(j) \/ Abort(j)
  BY <1>2, <1>6 DEF jobVars, worldVars, Prepares, Abort
<1> QED
  BY <1>3, <1>4, <1>5, <1>6, JobMoves

\* What the last verification saw holds until someone else touches it.
LEMMA SettledKept ==
  ASSUME JobTypeOK, NEW j \in Jobs, JobStep(j), Placed(j), Settled(j)
  PROVE  Settled(j)'
<1>1. /\ pc \in [Jobs -> {"idle", "rollback", "cleaning"} \cup Working \cup Ended]
      /\ index \in [Jobs -> 1..Len(Outputs)] /\ settled \in [Jobs -> SUBSET OutputSet]
  BY DEF JobTypeOK
<1>2. CASE UNCHANGED <<jobVars, worldVars>>
  BY <1>2 DEF jobVars, worldVars, Settled
<1>3. CASE Prepares(j)
  BY <1>1, <1>3 DEF Prepares, Goto, Settled, Private
<1>4. CASE Abort(j) \/ Rollback(j) \/ Cleanup(j)
  BY <1>1, <1>4 DEF Abort, Rollback, Cleanup, Goto, Settled, Private
<1>5. CASE (CheckSource(j) \/ Link(j) \/ VerifyLink(j)) /\ ~Abort(j)
  <2>1. /\ pc[j] \in {"checking", "linking", "linked"}
        /\ pc'[j] \in {"checking", "linking", "linked", "unrooting"}
        /\ UNCHANGED settled
    BY <1>1, <1>5 DEF CheckSource, Check, Link, VerifyLink, Goto
  <2> QED
    BY <2>1 DEF Settled, Private
<1>6. CASE RemoveRoot(j)
  <2>1. /\ pc'[j] = "finishing" /\ settled'[j] = {} /\ index'[j] = 1
    BY <1>1, <1>6 DEF RemoveRoot, Goto, Settled, Placed
  <2> QED
    BY <2>1 DEF Settled, Private
<1>7. CASE FinalVerify(j) /\ ~Abort(j)
  <2>1. /\ pc[j] = "finishing" /\ target[Item(j)] = j /\ body[j][Item(j)] = "locked"
        /\ settled'[j] = settled[j] \cup {Item(j)} /\ UNCHANGED <<target, body, late>>
    BY <1>1, <1>7 DEF FinalVerify, Verified, Names, worldVars
  <2>2. \A o \in settled'[j] : (target'[o] = j /\ body'[j][o] = "locked") \/ o \in late'[j]
    BY <2>1 DEF Settled
  <2>3. \A i \in 1..index[j] : Outputs[i] \in settled'[j]
    BY <1>1, <2>1, Sizes DEF Settled, Item
  <2>4. CASE index[j] < Len(Outputs)
    <3>1. pc'[j] = "finishing" /\ index'[j] - 1 = index[j]
      BY <1>1, <1>7, <2>4, Sizes DEF FinalVerify, Goto
    <3> QED
      BY <2>2, <2>3, <3>1 DEF Settled, Private
  <2>5. CASE ~(index[j] < Len(Outputs))
    <3>1. pc'[j] = "releasing" /\ index[j] = Len(Outputs)
      BY <1>1, <1>7, <2>5, Sizes DEF FinalVerify, Goto
    <3>2. OutputSet \subseteq settled'[j]
      BY <2>3, <3>1, Sizes
    <3> QED
      BY <2>2, <3>1, <3>2 DEF Settled, Private
  <2> QED
    BY <2>4, <2>5
<1>8. CASE ReleaseAndCommit(j)
  BY <1>1, <1>8 DEF ReleaseAndCommit, Goto, Settled, Private, worldVars
<1> QED
  BY <1>2, <1>3, <1>4, <1>5, <1>6, <1>7, <1>8, JobMoves

\* Only an accepted archive is taken for what it was validated as.
LEMMA ReadableKept ==
  ASSUME JobTypeOK, NEW j \in Jobs, JobStep(j), Readable(j)
  PROVE  Readable(j)'
<1>1. archive \in [Jobs -> Archives \cup {None}]
  BY DEF JobTypeOK
<1>2. CASE UNCHANGED archive
  BY <1>2 DEF Readable, AcceptedArchives
<1>3. CASE Abort(j)
  BY <1>2, <1>3 DEF Abort
<1>4. CASE Validate(j) /\ ~Abort(j)
  <2>1. PICK a \in AcceptedArchives : archive' = [archive EXCEPT ![j] = a]
    BY <1>4 DEF Validate
  <2> QED
    BY <1>1, <2>1 DEF Readable
<1>5. CASE (Extract(j) \/ Cleanup(j)) /\ ~Abort(j)
  <2>1. archive' = [archive EXCEPT ![j] = None]
    BY <1>5 DEF Extract, Cleanup
  <2> QED
    BY <1>1, <2>1 DEF Readable
<1>6. CASE (\/ Begin(j) \/ StageDownload(j) \/ Redirected(j) \/ ReadBody(j)
            \/ PublishDownload(j) \/ PublishDirectory(j) \/ Resolved(j) \/ Responded(j)
            \/ Feed(j) \/ StopFeeding(j)
            \/ CheckStaging(j) \/ CheckMetadata(j) \/ RecheckMembers(j) \/ CheckDirectory(j)
            \/ Precheck(j) \/ CheckSource(j)) /\ ~Abort(j)
  BY <1>2, <1>6
  DEF Begin, StageDownload, Redirected, ReadBody, PublishDownload, PublishDirectory, Resolved,
      Responded, Feed, StopFeeding, Fed,
      CheckStaging, CheckMetadata, RecheckMembers, CheckDirectory, Precheck,
      CheckSource, Check
<1>7. CASE (\/ CheckDownload(j) \/ CheckPublished(j) \/ VerifyOutputs(j) \/ Link(j)
            \/ VerifyLink(j) \/ RemoveRoot(j) \/ FinalVerify(j) \/ ReleaseAndCommit(j)
            \/ Rollback(j)) /\ ~Abort(j)
  BY <1>2, <1>7
  DEF CheckDownload, CheckPublished, VerifyOutputs, Link, VerifyLink, RemoveRoot, FinalVerify,
      ReleaseAndCommit, Rollback
<1>8. CASE Resolve(j) \/ ResolverSteps(j) \/ DownloadDeadline(j)
  BY <1>2, <1>8 DEF Resolve, ResolverSteps, DownloadDeadline, jobVars
<1> QED
  BY <1>3, <1>4, <1>5, <1>6, <1>7, <1>8 DEF JobStep, JobSteps, Fails, DeadlineAborts

-----------------------------------------------------------------------------
(* The acquisition.                                                         *)

JobInv(j) == Readable(j) /\ Placed(j) /\ Bound(j) /\ Counted(j) /\ Settled(j)
AcquisitionInv == DnsInv /\ JobTypeOK /\ \A j \in Jobs : JobInv(j)

\* What another job does keeps a job's invariant.
LEMMA OthersInv ==
  ASSUME JobTypeOK, NEW j \in Jobs, JobStep(j), NEW k \in Jobs, k # j, JobInv(k)
  PROVE  JobInv(k)'
<1>1. UNCHANGED <<pc[k], art[k], archive[k], body[k], open[k], releases[k], owned[k],
                  index[k], kept[k], settled[k]>>
  BY OthersKept
<1>2. /\ \A o \in OutputSet : target'[o] = k => target[o] = k
      /\ late[k] \subseteq late'[k]
      /\ \A o \in settled[k] : target[o] = k => target'[o] = k \/ o \in late'[k]
  BY OthersLinks
<1>3. Readable(k)' /\ Placed(k)'
  BY <1>1 DEF JobInv, Readable, Placed, AcceptedArchives
<1>4. Bound(k)'
  BY <1>1 DEF JobInv, Bound, Unregistered
<1>5. Counted(k)'
  BY <1>1, <1>2 DEF JobInv, Counted
<1>6. Settled(k)'
  BY <1>1, <1>2 DEF JobInv, Settled
<1> QED
  BY <1>3, <1>4, <1>5, <1>6 DEF JobInv

\* Interference is noticed, or happens after the last look and is noted.
LEMMA TamperInv ==
  ASSUME JobTypeOK, Tamper, NEW k \in Jobs, JobInv(k)
  PROVE  JobInv(k)'
<1>1. UNCHANGED <<pc, art, archive, open, releases, owned, index, kept, settled>>
  BY TamperTypes
<1>2. /\ settled[k] \subseteq OutputSet
      /\ late \in [Jobs -> SUBSET OutputSet]
      /\ body \in [Jobs -> [OutputSet -> Body]]
      /\ target \in [OutputSet -> {None, "foreign"} \cup Jobs]
  BY DEF JobTypeOK
<1>3. /\ \A o \in OutputSet : target'[o] = k => target[o] = k
      /\ late[k] \subseteq late'[k]
      /\ \A o \in settled[k] : target[o] = k /\ body[k][o] = "locked" =>
             (target'[o] = k /\ body'[k][o] = "locked") \/ o \in late'[k]
  <2>1. ASSUME NEW j \in Jobs, TamperPrivate(j)
        PROVE  <1>3!1 /\ <1>3!2 /\ <1>3!3
    BY <1>2, <2>1 DEF TamperPrivate
  <2>2. ASSUME NEW j \in Jobs, TamperContent(j)
        PROVE  <1>3!1 /\ <1>3!2 /\ <1>3!3
    BY <1>2, <2>2 DEF TamperContent
  <2>3. ASSUME NEW o \in OutputSet, TamperTarget(o)
        PROVE  <1>3!1 /\ <1>3!2 /\ <1>3!3
    BY <1>2, <2>3, Sizes DEF TamperTarget, Touched, jobVars
  <2> QED
    BY <2>1, <2>2, <2>3 DEF Tamper
<1>4. Readable(k)' /\ Placed(k)'
  BY <1>1 DEF JobInv, Readable, Placed, AcceptedArchives
<1>5. Bound(k)'
  BY <1>1 DEF JobInv, Bound, Unregistered
<1>6. Counted(k)'
  BY <1>1, <1>3 DEF JobInv, Counted
<1>7. Settled(k)'
  BY <1>1, <1>3 DEF JobInv, Settled
<1> QED
  BY <1>4, <1>5, <1>6, <1>7 DEF JobInv

LEMMA AcquisitionBegins ==
  ASSUME AcquisitionInit
  PROVE  AcquisitionInv
<1>1. pc \in [Jobs -> {"idle", "prechecking", "failed"}]
  BY AcquisitionAssumption DEF AcquisitionInit
<1>2. JobTypeOK
  <2>1. /\ art \in [Jobs -> DOMAIN Artifacts]
        /\ owned \in [Jobs -> 0..Len(Outputs)] /\ index \in [Jobs -> 1..Len(Outputs)]
    BY Sizes DEF AcquisitionInit
  <2>2. redirects \in [Jobs -> 0..MaxRedirects] /\ tampers \in 0..MaxTampers
    BY AcquisitionAssumption DEF AcquisitionInit
  <2>3. pc \in [Jobs -> {"idle", "rollback", "cleaning"} \cup Working \cup Ended]
    BY <1>1 DEF Working, Ended
  <2>4. open \in [Jobs -> SUBSET Binding] /\ releases \in [Jobs -> SUBSET Binding]
    BY DEF AcquisitionInit, AllBindings
  <2>5. /\ src \in [Jobs -> [OutputSet -> PathState]]
        /\ body \in [Jobs -> [OutputSet -> Body]]
    BY DEF AcquisitionInit, PathState, Body
  <2> QED
    BY <2>1, <2>2, <2>3, <2>4, <2>5 DEF AcquisitionInit, JobTypeOK, PathState, Body
<1>3. ASSUME NEW j \in Jobs
      PROVE  JobInv(j)
  <2>1. pc[j] \in {"idle", "prechecking", "failed"}
    BY <1>1
  <2>2. Readable(j) /\ Placed(j)
    BY <2>1 DEF AcquisitionInit, Readable, Placed, Private
  <2>3. Bound(j)
    BY <2>1 DEF AcquisitionInit, Bound, Unregistered, Ended
  <2>4. Counted(j)
    BY Sizes DEF AcquisitionInit, Counted
  <2>5. Settled(j)
    BY <2>1 DEF AcquisitionInit, Settled
  <2> QED
    BY <2>2, <2>3, <2>4, <2>5 DEF JobInv
<1> QED
  BY <1>2, <1>3, DnsBegins DEF AcquisitionInv

LEMMA AcquisitionStep ==
  ASSUME AcquisitionInv, [AcquisitionNext]_vars
  PROVE  AcquisitionInv'
<1>1. DnsInv'
  BY DnsNext DEF AcquisitionInv
<1>2. JobTypeOK' /\ \A k \in Jobs : JobInv(k)'
  <2>1. ASSUME NEW j \in Jobs, JobStep(j)
        PROVE  JobTypeOK' /\ \A k \in Jobs : JobInv(k)'
    <3>1. JobTypeOK' /\ JobInv(j)'
      BY <2>1, JobTypes, ReadableKept, PlacedKept, BoundKept, CountedKept, SettledKept
      DEF AcquisitionInv, JobInv
    <3> QED
      BY <2>1, <3>1, OthersInv DEF AcquisitionInv
  <2>2. CASE Tamper
    BY <2>2, TamperTypes, TamperInv DEF AcquisitionInv
  <2>3. CASE UNCHANGED vars
    BY <2>3
    DEF vars, jobVars, worldVars, AcquisitionInv, JobTypeOK, JobInv, Readable, AcceptedArchives,
        Placed, Bound, Unregistered, Counted, Settled
  <2> QED
    BY <2>1, <2>2, <2>3 DEF AcquisitionNext, JobStep
<1> QED
  BY <1>1, <1>2 DEF AcquisitionInv

LEMMA AcquisitionInvariant == AcquisitionSpec => []AcquisitionInv
  BY AcquisitionBegins, AcquisitionStep, PTL DEF AcquisitionSpec

\* Every archive whose members are extracted has a single end record and names
\* that stay apart (_selected_eocd, _validated_members).
THEOREM ExtractedHasOneReading == AcquisitionSpec => []ArchiveUnambiguous
<1>1. AcquisitionInv => ArchiveUnambiguous
  BY AcceptedHasOneReading DEF AcquisitionInv, JobInv, Readable, ArchiveUnambiguous
<1> QED
  BY <1>1, AcquisitionInvariant, PTL

\* However many jobs share a destination and whatever else is done to it, a job
\* that returns has every output in place with the locked bytes, but for what
\* was changed after its last look (fetch_http).
THEOREM CommitVerified == AcquisitionSpec => []CommittedIsVerified
<1>1. AcquisitionInv => CommittedIsVerified
  BY DEF AcquisitionInv, JobInv, Settled, CommittedIsVerified
<1> QED
  BY <1>1, AcquisitionInvariant, PTL

\* A job that fails has taken its links back unless taking one back failed, and
\* no job that has ended holds a descriptor (_Publication.rollback, _release_all).
THEOREM FailureTakenBack == AcquisitionSpec => []FailureLeavesNothing
<1>1. AcquisitionInv => FailureLeavesNothing
  <2> SUFFICES ASSUME AcquisitionInv PROVE FailureLeavesNothing
    OBVIOUS
  <2>1. AcquisitionTypeOK
    BY DEF AcquisitionInv, DnsInv, JobTypeOK, AcquisitionTypeOK
  <2>2. ASSUME NEW j \in Jobs, pc[j] = "failed", ~kept[j], NEW o \in OutputSet
        PROVE  target[o] # j
    BY <2>2 DEF AcquisitionInv, JobInv, Placed, Counted
  <2>3. \A j \in Jobs : pc[j] \in Ended => open[j] = {}
    BY DEF AcquisitionInv, JobInv, Bound
  <2> QED
    BY <2>1, <2>2, <2>3 DEF FailureLeavesNothing
<1> QED
  BY <1>1, AcquisitionInvariant, PTL
=============================================================================
