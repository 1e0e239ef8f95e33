-------------------------- MODULE HttpAcquisition --------------------------
(***************************************************************************)
(* fetch_http (datasets/sources/http.py) over download_bounded and         *)
(* extract_members (datasets/acquisition.py): the artifacts of a dataset   *)
(* are downloaded, verified and extracted inside a private directory, then *)
(* hard-linked into the destination and verified once more, or everything  *)
(* is taken back.                                                          *)
(*                                                                         *)
(* A path names nothing, the job's own inode or something else; an inode   *)
(* holds the locked bytes or others.  Several jobs may work on the same    *)
(* destination, and anything else that runs as the same user may replace a *)
(* path or write to a file at any moment (Tamper).                         *)
(***************************************************************************)
EXTENDS DnsResolver, ZipArchive

CONSTANTS
    Jobs,          \* concurrent fetch_http calls
    Starts,        \* where each job may start: "idle", "prechecking" or "failed"
    Artifacts,     \* plan.artifacts: sequence of [archive, outputs]
    Outputs,       \* the outputs of all artifacts in registry order
    Archives,      \* archives a server may send
    MaxRedirects,  \* _MAX_REDIRECTS
    MaxTampers,    \* bound: interferences of other programs
    None

OutputSet == {Outputs[i] : i \in DOMAIN Outputs}

ASSUME AcquisitionAssumption ==
    /\ Callers = Jobs /\ Starts \subseteq [Jobs -> {"idle", "prechecking", "failed"}]
    /\ Artifacts \in Seq([archive : BOOLEAN, outputs : SUBSET OutputSet]) \ {<<>>}
    /\ Outputs \in Seq(OutputSet) \ {<<>>}
    /\ \A i \in DOMAIN Artifacts :
        ~Artifacts[i].archive => Cardinality(Artifacts[i].outputs) = 1
    /\ OutputSet = UNION {Artifacts[i].outputs : i \in DOMAIN Artifacts}
    /\ MaxRedirects \in Nat /\ MaxTampers \in Nat
    /\ None \notin Jobs /\ "foreign" \notin Jobs /\ None # "foreign"
    /\ None \notin Archives /\ \A a \in Archives : WellFormed(a)

VARIABLES
    pc,         \* where each job is
    art,        \* its current artifact
    redirects,  \* followed for the current download
    stage,      \* what its private staging path names
    raw,        \* what the downloaded path names
    rawBody,    \* content of the downloaded inode
    archive,    \* the archive it validated
    src,        \* what each verified output's private path names
    body,       \* content of each output's inode
    open,       \* binding descriptors it holds
    releases,   \* those registered for release
    owned,      \* owned_links: outputs it linked, in order
    index,      \* position in the loops over the outputs
    kept,       \* a rollback step failed and left its link
    settled,    \* outputs whose final verification passed
    late,       \* outputs touched by others after that
    target,     \* what each destination path names
    tampers

jobVars == <<pc, art, redirects, stage, raw, rawBody, archive, src, body, open,
             releases, owned, index, kept, settled>>
worldVars == <<target, late, tampers>>
vars == <<dnsVars, jobVars, worldVars>>

PathState == {"none", "own", "foreign"}
Body == {"locked", "other"}
Working == {"staging", "resolving", "requesting", "fed_request", "reading", "fed_read",
            "staged", "publishing",
            "published", "metadata", "validating", "extracting", "rechecking",
            "dirstaged", "dirpublishing", "dirpublished", "verifying", "prechecking",
            "checking", "linking", "linked", "unrooting", "finishing", "releasing"}
Ended == {"committed", "failed"}
Fed == {"fed_request", "fed_read"}  \* in a call that the server keeps feeding
Binding == (DOMAIN Artifacts) \X {"download", "members"}

AcquisitionTypeOK ==
    /\ DnsTypeOK
    /\ pc \in [Jobs -> {"idle", "rollback", "cleaning"} \cup Working \cup Ended]
    /\ art \in [Jobs -> DOMAIN Artifacts]
    /\ redirects \in [Jobs -> 0..MaxRedirects]
    /\ stage \in [Jobs -> PathState] /\ raw \in [Jobs -> PathState]
    /\ rawBody \in [Jobs -> Body]
    /\ archive \in [Jobs -> Archives \cup {None}]
    /\ src \in [Jobs -> [OutputSet -> PathState]]
    /\ body \in [Jobs -> [OutputSet -> Body]]
    /\ open \in [Jobs -> SUBSET Binding] /\ releases \in [Jobs -> SUBSET Binding]
    /\ owned \in [Jobs -> 0..Len(Outputs)] /\ index \in [Jobs -> 1..Len(Outputs)]
    /\ kept \in [Jobs -> BOOLEAN]
    /\ settled \in [Jobs -> SUBSET OutputSet] /\ late \in [Jobs -> SUBSET OutputSet]
    /\ target \in [OutputSet -> {None, "foreign"} \cup Jobs]
    /\ tampers \in 0..MaxTampers

(* Private phases of different jobs share nothing, so besides starting from *)
(* nothing a job may start where its outputs are verified and its releases  *)
(* registered; one that failed at once stands for a job that never runs.    *)
AllBindings ==
    {b \in Binding : b[2] = "members" => Artifacts[b[1]].archive}

AcquisitionInit ==
    /\ DnsInit
    /\ pc \in Starts
    /\ art = [j \in Jobs |-> IF pc[j] = "prechecking" THEN Len(Artifacts) ELSE 1]
    /\ redirects = [j \in Jobs |-> 0]
    /\ stage = [j \in Jobs |-> "none"] /\ raw = [j \in Jobs |-> "none"]
    /\ rawBody = [j \in Jobs |-> "other"] /\ archive = [j \in Jobs |-> None]
    /\ src = [j \in Jobs |-> [o \in OutputSet |-> IF pc[j] = "prechecking" THEN "own" ELSE "none"]]
    /\ body = [j \in Jobs |-> [o \in OutputSet |-> IF pc[j] = "prechecking" THEN "locked" ELSE "other"]]
    /\ open = [j \in Jobs |-> IF pc[j] = "prechecking" THEN AllBindings ELSE {}]
    /\ releases = open
    /\ owned = [j \in Jobs |-> 0] /\ index = [j \in Jobs |-> 1]
    /\ kept = [j \in Jobs |-> FALSE]
    /\ settled = [j \in Jobs |-> {}] /\ late = [j \in Jobs |-> {}]
    /\ target = [o \in OutputSet |-> None]
    /\ tampers = 0

-----------------------------------------------------------------------------
Outs(j) == Artifacts[art[j]].outputs
Goto(j, p) == pc' = [pc EXCEPT ![j] = p]

\* A download or an extraction that fails closes its own binding and takes its
\* staging path away (_unbind_download, cleanup, _quarantine_owned_path).
Abandon(j) ==
    /\ open' = [open EXCEPT ![j] = @ \cap releases[j]]
    /\ stage' = [stage EXCEPT ![j] = "none"]

\* Any failure: links already made are taken back first.
Abort(j) ==
    /\ Goto(j, IF owned[j] > 0 THEN "rollback" ELSE "cleaning")
    /\ Abandon(j)
    /\ UNCHANGED <<art, redirects, raw, rawBody, archive, src, body, releases, owned,
                   index, kept, settled, worldVars>>

\* Goes on to p when ok holds and fails otherwise.
Check(j, ok, p) ==
    /\ \/ ok /\ Goto(j, p) /\ UNCHANGED <<art, redirects, stage, raw, rawBody, archive,
              src, body, open, releases, owned, index, kept, settled, worldVars>>
       \/ ~ok /\ Abort(j)
    /\ UNCHANGED dnsVars

\* mkdtemp of the private transaction root.
Begin(j) ==
    /\ pc[j] = "idle"
    /\ \E p \in {"staging", "failed"} : Goto(j, p)
    /\ UNCHANGED <<dnsVars, art, redirects, stage, raw, rawBody, archive, src, body, open,
                   releases, owned, index, kept, settled, worldVars>>

(* download_bounded.                                                        *)

\* The staging file and its second descriptor; a fresh deadline.
StageDownload(j) ==
    /\ pc[j] = "staging"
    /\ Goto(j, "resolving")
    /\ stage' = [stage EXCEPT ![j] = "own"]
    /\ raw' = [raw EXCEPT ![j] = "none"]
    /\ open' = [open EXCEPT ![j] = @ \cup {<<art[j], "download">>}]
    /\ redirects' = [redirects EXCEPT ![j] = 0]
    /\ expired' = [expired EXCEPT ![j] = FALSE]
    /\ caller' = [caller EXCEPT ![j] = "idle"]
    /\ UNCHANGED <<launcher, child, shared, art, rawBody, archive, src, body,
                   releases, owned, index, kept, settled, worldVars>>

\* Every hop resolves its host anew.
Resolve(j) ==
    /\ pc[j] = "resolving"
    /\ caller[j] = "idle"
    /\ Launch(j) \/ LaunchFails(j)
    /\ UNCHANGED <<jobVars, worldVars>>

\* All answers must be public addresses, or the hop fails.
Resolved(j) ==
    /\ pc[j] = "resolving"
    /\ caller[j] \in {"resolved", "failed"}
    /\ \E public \in BOOLEAN :
        Check(j, caller[j] = "resolved" /\ public /\ ~expired[j], "requesting")

Redirected(j) ==
    /\ pc[j] = "requesting"
    /\ redirects[j] < MaxRedirects
    /\ Goto(j, "resolving")
    /\ redirects' = [redirects EXCEPT ![j] = @ + 1]
    /\ caller' = [caller EXCEPT ![j] = "idle"]
    /\ UNCHANGED <<launcher, child, shared, expired, art, stage, raw, rawBody, archive,
                   src, body, open, releases, owned, index, kept, settled, worldVars>>

\* The peer is the pinned address and the status is 2xx.
Responded(j) ==
    /\ pc[j] = "requesting"
    /\ Check(j, TRUE, "reading")

\* The timeout of the socket bounds each recv, not the call: response.begin() goes
\* on while header lines or 100-continue answers arrive, read1 while lines around
\* a chunk do.  A call that was silent so far is not fed any more once the deadline
\* has passed: its recv has timed out.
Feed(j) ==
    /\ pc[j] \in {"requesting", "reading"}
    /\ ~expired[j]
    /\ Check(j, TRUE, IF pc[j] = "requesting" THEN "fed_request" ELSE "fed_read")

\* The server completes what it was sending or falls silent.
StopFeeding(j) ==
    /\ pc[j] \in Fed
    /\ Check(j, TRUE, IF pc[j] = "fed_request" THEN "requesting" ELSE "reading")

\* The whole body arrived within max_bytes; an altered staging file is written
\* over all the same.
ReadBody(j) ==
    /\ pc[j] = "reading"
    /\ ~expired[j]
    /\ \E b \in Body : rawBody' = [rawBody EXCEPT ![j] = b]
    /\ Goto(j, "staged")
    /\ UNCHANGED <<dnsVars, art, redirects, stage, raw, archive, src, body, open,
                   releases, owned, index, kept, settled, worldVars>>

CheckStaging(j) ==
    /\ pc[j] = "staged"
    /\ Check(j, stage[j] = "own", "publishing")

\* A rename that replaces nothing moves whatever the staging path names by now.
PublishDownload(j) ==
    /\ pc[j] = "publishing"
    /\ raw[j] = "none" /\ stage[j] # "none"
    /\ raw' = [raw EXCEPT ![j] = stage[j]]
    /\ stage' = [stage EXCEPT ![j] = "none"]
    /\ Goto(j, "published")
    /\ UNCHANGED <<dnsVars, art, redirects, rawBody, archive, src, body, open, releases,
                   owned, index, kept, settled, worldVars>>

CheckDownload(j) ==
    /\ pc[j] = "published"
    /\ \/ /\ raw[j] = "own"
          /\ Goto(j, "metadata")
          /\ releases' = [releases EXCEPT ![j] = @ \cup {<<art[j], "download">>}]
          /\ UNCHANGED <<art, redirects, stage, raw, rawBody, archive, src, body, open,
                         owned, index, kept, settled, worldVars>>
       \/ raw[j] # "own" /\ Abort(j)
    /\ UNCHANGED dnsVars

RawIsLocked(j) == raw[j] = "own" /\ rawBody[j] = "locked"

CheckMetadata(j) ==
    /\ pc[j] = "metadata"
    /\ Check(j, RawIsLocked(j), IF Artifacts[art[j]].archive THEN "validating" ELSE "verifying")

(* validated_zip_members and extract_members.                               *)

AcceptedArchives == {a \in Archives : Accepted(a)}

\* A stable snapshot of the archive is taken, its structure and namespace are
\* validated and its identity is compared with the download's binding.
Validate(j) ==
    /\ pc[j] = "validating"
    /\ \/ \E a \in AcceptedArchives :
            /\ RawIsLocked(j)
            /\ archive' = [archive EXCEPT ![j] = a]
            /\ Goto(j, "extracting")
            /\ UNCHANGED <<art, redirects, stage, raw, rawBody, src, body, open, releases,
                           owned, index, kept, settled, worldVars>>
       \/ (~RawIsLocked(j) \/ Archives # AcceptedArchives) /\ Abort(j)
    /\ UNCHANGED dnsVars

\* The snapshot is taken again and must be the validated one; the members are
\* created exclusively in a private directory.
Extract(j) ==
    /\ pc[j] = "extracting"
    /\ \/ /\ RawIsLocked(j)
          /\ stage' = [stage EXCEPT ![j] = "own"]
          /\ open' = [open EXCEPT ![j] = @ \cup {<<art[j], "members">>}]
          /\ src' = [src EXCEPT ![j] = [o \in OutputSet |-> IF o \in Outs(j) THEN "own" ELSE @[o]]]
          /\ \E b \in Body :
                body' = [body EXCEPT ![j] = [o \in OutputSet |-> IF o \in Outs(j) THEN b ELSE @[o]]]
          /\ archive' = [archive EXCEPT ![j] = None]
          /\ Goto(j, "rechecking")
          /\ UNCHANGED <<art, redirects, raw, rawBody, releases, owned, index, kept, settled,
                         worldVars>>
       \/ ~RawIsLocked(j) /\ Abort(j)
    /\ UNCHANGED dnsVars

RecheckMembers(j) ==
    /\ pc[j] = "rechecking"
    /\ Check(j, \A o \in Outs(j) : src[j][o] = "own", "dirstaged")

CheckDirectory(j) ==
    /\ pc[j] = "dirstaged"
    /\ Check(j, stage[j] = "own", "dirpublishing")

PublishDirectory(j) ==
    /\ pc[j] = "dirpublishing"
    /\ stage[j] # "none"
    /\ src' = [src EXCEPT ![j] = [o \in OutputSet |->
                 IF o \in Outs(j) /\ stage[j] = "foreign" THEN "foreign" ELSE @[o]]]
    /\ Goto(j, "dirpublished")
    /\ UNCHANGED <<dnsVars, art, redirects, stage, raw, rawBody, archive, body, open,
                   releases, owned, index, kept, settled, worldVars>>

CheckPublished(j) ==
    /\ pc[j] = "dirpublished"
    /\ \/ /\ stage[j] = "own"
          /\ Goto(j, "verifying")
          /\ stage' = [stage EXCEPT ![j] = "none"]
          /\ releases' = [releases EXCEPT ![j] = @ \cup {<<art[j], "members">>}]
          /\ UNCHANGED <<art, redirects, raw, rawBody, archive, src, body, open,
                         owned, index, kept, settled, worldVars>>
       \/ stage[j] # "own" /\ Abort(j)
    /\ UNCHANGED dnsVars

\* _verify_bound_output for every output of the artifact: identity, bytes and
\* physical schema.  A direct artifact's output is the download itself; the
\* downloaded path is not looked at again.
VerifyOutputs(j) ==
    /\ pc[j] = "verifying"
    /\ LET direct == ~Artifacts[art[j]].archive
           path(o) == IF direct THEN raw[j] ELSE src[j][o]
           bytes(o) == IF direct THEN rawBody[j] ELSE body[j][o]
           last == art[j] = Len(Artifacts)
       IN  \/ /\ \A o \in Outs(j) : path(o) = "own" /\ bytes(o) = "locked"
              /\ src' = [src EXCEPT ![j] = [o \in OutputSet |-> IF o \in Outs(j) THEN path(o) ELSE @[o]]]
              /\ body' = [body EXCEPT ![j] = [o \in OutputSet |-> IF o \in Outs(j) THEN bytes(o) ELSE @[o]]]
              /\ art' = IF last THEN art ELSE [art EXCEPT ![j] = @ + 1]
              /\ raw' = [raw EXCEPT ![j] = "none"]
              /\ rawBody' = [rawBody EXCEPT ![j] = "other"]
              /\ redirects' = [redirects EXCEPT ![j] = 0]
              /\ Goto(j, IF last THEN "prechecking" ELSE "staging")
              /\ UNCHANGED <<stage, archive, open, releases, owned, index, kept, settled,
                             worldVars>>
           \/ (\E o \in Outs(j) : path(o) # "own" \/ bytes(o) # "locked") /\ Abort(j)
    /\ UNCHANGED dnsVars

(* _publish_verified_files and the end of fetch_http.                       *)
Item(j) == Outputs[index[j]]
Verified(j, o, path) == path = "own" /\ body[j][o] = "locked"
Names(j, o) == IF target[o] = j THEN "own" ELSE "foreign"

Precheck(j) ==
    /\ pc[j] = "prechecking"
    /\ Check(j, \A o \in OutputSet : target[o] = None, "checking")

CheckSource(j) ==
    /\ pc[j] = "checking"
    /\ Check(j, src[j][Item(j)] = "own", "linking")

\* os.link names whatever the source path names by now and never replaces; nothing
\* that can fail lies between it and owned_links.append.
Link(j) ==
    /\ pc[j] = "linking"
    /\ \/ /\ target[Item(j)] = None /\ src[j][Item(j)] # "none"
          /\ target' = [target EXCEPT ![Item(j)] =
                          IF src[j][Item(j)] = "own" THEN j ELSE "foreign"]
          /\ owned' = [owned EXCEPT ![j] = @ + 1]
          /\ Goto(j, "linked")
          /\ UNCHANGED <<art, redirects, stage, raw, rawBody, archive, src, body, open,
                         releases, index, kept, settled, late, tampers>>
       \/ target[Item(j)] # None /\ Abort(j)
    /\ UNCHANGED dnsVars

VerifyLink(j) ==
    /\ pc[j] = "linked"
    /\ LET more == index[j] < Len(Outputs)
           ok == Verified(j, Item(j), Names(j, Item(j)))
       IN  \/ /\ ok
              /\ index' = [index EXCEPT ![j] = IF more THEN @ + 1 ELSE 1]
              /\ Goto(j, IF more THEN "checking" ELSE "unrooting")
              /\ UNCHANGED <<art, redirects, stage, raw, rawBody, archive, src, body, open,
                             releases, owned, kept, settled, worldVars>>
           \/ ~ok /\ Abort(j)
    /\ UNCHANGED dnsVars

\* The private root is removed; the links keep the inodes.
RemoveRoot(j) ==
    /\ pc[j] = "unrooting"
    /\ src' = [src EXCEPT ![j] = [o \in OutputSet |-> "none"]]
    /\ raw' = [raw EXCEPT ![j] = "none"]
    /\ Goto(j, "finishing")
    /\ UNCHANGED <<dnsVars, art, redirects, stage, rawBody, archive, body, open, releases,
                   owned, index, kept, settled, worldVars>>

\* Mutant: the last verification only looks at the path.
FinalVerifyPathOnly(j) ==
    /\ pc[j] = "finishing"
    /\ Names(j, Item(j)) = "own"
    /\ settled' = [settled EXCEPT ![j] = @ \cup {Item(j)}]
    /\ index' = [index EXCEPT ![j] = IF @ < Len(Outputs) THEN @ + 1 ELSE 1]
    /\ Goto(j, IF index[j] < Len(Outputs) THEN "finishing" ELSE "releasing")
    /\ UNCHANGED <<dnsVars, art, redirects, stage, raw, rawBody, archive, src, body, open,
                   releases, owned, kept, worldVars>>

FinalVerify(j) ==
    /\ pc[j] = "finishing"
    /\ LET more == index[j] < Len(Outputs)
           ok == Verified(j, Item(j), Names(j, Item(j)))
       IN  \/ /\ ok
              /\ settled' = [settled EXCEPT ![j] = @ \cup {Item(j)}]
              /\ index' = [index EXCEPT ![j] = IF more THEN @ + 1 ELSE 1]
              /\ Goto(j, IF more THEN "finishing" ELSE "releasing")
              /\ UNCHANGED <<art, redirects, stage, raw, rawBody, archive, src, body, open,
                             releases, owned, kept, worldVars>>
           \/ ~ok /\ Abort(j)
    /\ UNCHANGED dnsVars

ReleaseAndCommit(j) ==
    /\ pc[j] = "releasing"
    /\ open' = [open EXCEPT ![j] = @ \ releases[j]]
    /\ releases' = [releases EXCEPT ![j] = {}]
    /\ Goto(j, "committed")
    /\ UNCHANGED <<dnsVars, art, redirects, stage, raw, rawBody, archive, src, body, owned,
                   index, kept, settled, worldVars>>

\* An operating-system error at any step.
Fails(j) ==
    /\ pc[j] \in Working
    /\ pc[j] = "resolving" => caller[j] = "idle"
    /\ Abort(j)
    /\ UNCHANGED dnsVars

\* Mutant: the request itself has no timeout.
DeadlineAbortsReading(j) ==
    /\ pc[j] = "reading"
    /\ expired[j]
    /\ Abort(j)
    /\ UNCHANGED dnsVars

\* A recv that gets nothing times out at the deadline, and the deadline is looked
\* at after every call; a call that is being fed it does not reach.
DeadlineAborts(j) ==
    /\ pc[j] \in {"requesting", "reading"}
    /\ expired[j]
    /\ Abort(j)
    /\ UNCHANGED dnsVars

\* Mutant: only the last link is taken back.
RollbackLastOnly(j) ==
    /\ pc[j] = "rollback"
    /\ target' = [target EXCEPT ![Outputs[owned[j]]] = None]
    /\ owned' = [owned EXCEPT ![j] = 0]
    /\ Goto(j, "cleaning")
    /\ UNCHANGED <<dnsVars, art, redirects, stage, raw, rawBody, archive, src, body, open,
                   releases, index, kept, settled, late, tampers>>

Touched(o) ==
    [k \in Jobs |-> IF target[o] = k /\ o \in settled[k] THEN late[k] \cup {o} ELSE late[k]]

(* _Publication.rollback, newest link first: the path is renamed to a       *)
(* private name and unlinked there if it is the job's inode; whatever else  *)
(* was moved stays under the private name.  A failure is only noted.        *)
Rollback(j) ==
    /\ pc[j] = "rollback"
    /\ LET o == Outputs[owned[j]]
       IN  \/ /\ target' = [target EXCEPT ![o] = None]
              /\ late' = [Touched(o) EXCEPT ![j] = late[j]]
              /\ UNCHANGED kept
           \/ /\ kept' = [kept EXCEPT ![j] = TRUE]
              /\ UNCHANGED <<target, late>>
    /\ owned' = [owned EXCEPT ![j] = @ - 1]
    /\ Goto(j, IF owned[j] > 1 THEN "rollback" ELSE "cleaning")
    /\ UNCHANGED <<dnsVars, art, redirects, stage, raw, rawBody, archive, src, body, open,
                   releases, index, settled, tampers>>

\* The private root goes and every registered release runs; what the job knew
\* of its private files is gone with it.
Cleanup(j) ==
    /\ pc[j] = "cleaning"
    /\ src' = [src EXCEPT ![j] = [o \in OutputSet |-> "none"]]
    /\ body' = [body EXCEPT ![j] = [o \in OutputSet |-> "other"]]
    /\ raw' = [raw EXCEPT ![j] = "none"]
    /\ rawBody' = [rawBody EXCEPT ![j] = "other"]
    /\ open' = [open EXCEPT ![j] = @ \ releases[j]]
    /\ releases' = [releases EXCEPT ![j] = {}]
    /\ archive' = [archive EXCEPT ![j] = None]
    /\ art' = [art EXCEPT ![j] = 1]
    /\ redirects' = [redirects EXCEPT ![j] = 0]
    /\ index' = [index EXCEPT ![j] = 1]
    /\ settled' = [settled EXCEPT ![j] = {}]
    /\ late' = [late EXCEPT ![j] = {}]
    /\ Goto(j, "failed")
    /\ UNCHANGED <<dnsVars, stage, owned, kept, target, tampers>>

-----------------------------------------------------------------------------
(* Other programs.                                                          *)
TamperPrivate(j) ==
    /\ \/ /\ stage[j] = "own" /\ stage' = [stage EXCEPT ![j] = "foreign"]
          /\ UNCHANGED <<raw, src>>
       \/ /\ raw[j] = "own" /\ raw' = [raw EXCEPT ![j] = "foreign"]
          /\ UNCHANGED <<stage, src>>
       \/ \E o \in OutputSet :
          /\ src[j][o] = "own" /\ src' = [src EXCEPT ![j][o] = "foreign"]
          /\ UNCHANGED <<stage, raw>>
    /\ UNCHANGED <<pc, art, redirects, rawBody, archive, body, open, releases, owned,
                   index, kept, settled, target, late>>

\* An inode that some path names is written to in place.
TamperContent(j) ==
    /\ \/ /\ raw[j] = "own" /\ rawBody[j] = "locked"
          /\ rawBody' = [rawBody EXCEPT ![j] = "other"]
          /\ UNCHANGED <<body, late>>
       \/ \E o \in OutputSet :
          /\ src[j][o] = "own" \/ target[o] = j
          /\ body[j][o] = "locked"
          /\ body' = [body EXCEPT ![j][o] = "other"]
          /\ late' = [late EXCEPT ![j] = IF o \in settled[j] THEN @ \cup {o} ELSE @]
          /\ UNCHANGED rawBody
    /\ UNCHANGED <<pc, art, redirects, stage, raw, archive, src, open, releases, owned,
                   index, kept, settled, target>>

TamperTarget(o) ==
    /\ \E t \in {None, "foreign"} \ {target[o]} : target' = [target EXCEPT ![o] = t]
    /\ late' = Touched(o)
    /\ UNCHANGED jobVars

Tamper ==
    /\ tampers < MaxTampers
    /\ tampers' = tampers + 1
    /\ \/ \E j \in Jobs : TamperPrivate(j) \/ TamperContent(j)
       \/ \E o \in OutputSet : TamperTarget(o)
    /\ UNCHANGED dnsVars

-----------------------------------------------------------------------------
ResolverSteps(j) ==
    /\ CallerSteps(j) \/ LauncherSteps(j) \/ ChildEnds(j)
    /\ UNCHANGED <<jobVars, worldVars>>

\* The deadline matters until the body has been read.
DownloadDeadline(j) ==
    /\ pc[j] \in {"resolving", "requesting", "reading"} \cup Fed
    /\ Deadline(j)
    /\ UNCHANGED <<jobVars, worldVars>>

\* Steps that need nothing from outside.
JobSteps(j) ==
    \/ StageDownload(j) \/ Resolve(j) \/ Resolved(j) \/ DeadlineAborts(j)
    \/ CheckStaging(j) \/ PublishDownload(j) \/ CheckDownload(j) \/ CheckMetadata(j)
    \/ Validate(j) \/ Extract(j) \/ RecheckMembers(j) \/ CheckDirectory(j)
    \/ PublishDirectory(j) \/ CheckPublished(j) \/ VerifyOutputs(j) \/ Precheck(j)
    \/ CheckSource(j) \/ Link(j) \/ VerifyLink(j) \/ RemoveRoot(j) \/ FinalVerify(j)
    \/ ReleaseAndCommit(j) \/ Rollback(j) \/ Cleanup(j)

AcquisitionNext ==
    \/ \E j \in Jobs :
        \/ Begin(j) \/ JobSteps(j) \/ Fails(j)
        \/ Redirected(j) \/ Responded(j) \/ ReadBody(j) \/ Feed(j) \/ StopFeeding(j)
        \/ ResolverSteps(j) \/ DownloadDeadline(j)
    \/ Tamper

(* The job's own thread runs and time passes; nothing is assumed of the     *)
(* server, the launcher thread or the resolver process.                     *)
AcquisitionSpec ==
    /\ AcquisitionInit /\ [][AcquisitionNext]_vars
    /\ \A j \in Jobs :
        /\ WF_vars(JobSteps(j))
        /\ WF_vars(CallerSteps(j) /\ UNCHANGED <<jobVars, worldVars>>)
        /\ WF_vars(DownloadDeadline(j))

-----------------------------------------------------------------------------
(* Properties.                                                              *)

\* A job that returns has all its files in place with the locked bytes, except
\* what others changed after the job's last look: nothing that was replaced or
\* rewritten at any earlier moment gets through (fetch_http).
CommittedIsVerified ==
    \A j \in Jobs : pc[j] = "committed" =>
        \A o \in OutputSet :
            \/ target[o] = j /\ body[j][o] = "locked"
            \/ o \in late[j]

\* A job that fails leaves none of its files in the destination, unless taking
\* one back failed too, and no job that has ended, by any path, still holds a
\* descriptor (_Publication.rollback, _release_all, _BindingOwner.close).
FailureLeavesNothing ==
    /\ AcquisitionTypeOK
    /\ \A j \in Jobs : pc[j] = "failed" /\ ~kept[j] => \A o \in OutputSet : target[o] # j
    /\ \A j \in Jobs : pc[j] \in Ended => open[j] = {}

\* An archive that is extracted has one reading only: a single end record, and
\* members that stay apart when they are flattened into one directory
\* (_selected_eocd, _validated_members).
ArchiveUnambiguous ==
    \A j \in Jobs : archive[j] # None =>
        /\ Cardinality(ConsistentEocds(archive[j])) = 1
        /\ \A i, k \in Files(archive[j]) :
            i # k => ObjectName(archive[j], i) # ObjectName(archive[j], k)

\* Every started job ends, even if the host never resolves, the launcher hangs or
\* the server never answers or falls silent anywhere, as long as no server feeds a
\* single call for ever: the deadlines of download_bounded bound each recv and are
\* looked at between calls, so they end a job that feeding has held up, but not the
\* feeding itself (_DirectTransport.request, download_bounded).
JobsEnd ==
    \A j \in Jobs : []<>(pc[j] \notin Fed) => (pc[j] \in Working ~> pc[j] \in Ended)
=============================================================================
