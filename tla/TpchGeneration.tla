--------------------------- MODULE TpchGeneration ---------------------------
(***************************************************************************)
(* generate_tpch (datasets/sources/tpch.py): a container image is found or *)
(* built and proved canonical, runs in a private directory, and its output *)
(* files are verified and moved into the destination under their final     *)
(* names, or everything is taken back.                                     *)
(*                                                                         *)
(* Directories and files are known by identity (device and inode).  Any    *)
(* program of the same user may move the image tag, replace a directory or *)
(* a file, or write to a file at any moment (Tamper).  A file is a job,    *)
(* for the one that job generated, or the number of the interference that  *)
(* brought it.                                                             *)
(***************************************************************************)
EXTENDS Naturals, Sequences, FiniteSets

CONSTANTS
    Jobs,         \* concurrent generate_tpch calls
    Starts,       \* where each job may start: "idle", "checking" or "failed"
    Outputs,      \* scale.outputs, in order
    Images,       \* image IDs the tag may name
    Labelled,     \* those with the canonical configuration and labels
    Canonical,    \* those whose contents pass the runtime probe as well
    MaxTampers,   \* bound: interferences of other programs
    None

OutputSet == {Outputs[i] : i \in DOMAIN Outputs}
Foreign == 1..MaxTampers
Inode == Jobs \cup Foreign
Dirs == 1..2     \* the destination directory and one that may replace it

ASSUME TpchAssumption ==
    /\ Canonical \subseteq Labelled /\ Labelled \subseteq Images
    /\ Outputs \in Seq(OutputSet) \ {<<>>} /\ MaxTampers \in Nat
    /\ Starts \subseteq [Jobs -> {"idle", "checking", "failed"}]
    /\ \A s \in Starts : Cardinality({j \in Jobs : s[j] # "failed"}) \in 1 .. MaxTampers + 1
    /\ None \notin Images /\ None \notin Inode /\ Jobs \cap Foreign = {}

VARIABLES
    pc,        \* where each job is
    seen,      \* the image of its last inspection
    rebuilt,   \* it has built the image itself
    verified,  \* _verified_image_id
    ran,       \* the image that generated its files
    home,      \* the destination directory it opened
    root,      \* what the path of its transaction directory names
    body,      \* content of each file it generated
    fds,       \* descriptors it holds
    index,     \* the output it is publishing
    staged,    \* file its staging name in the destination names
    sid,       \* identity recorded for that name
    owned,     \* owned_links: identity recorded for each published output
    undo,      \* names left to roll back; 0 is the staging name
    aside,     \* file its cleanup has just renamed, and the name it had
    kept,      \* a rename of its cleanup failed and left an entry, or another
               \* job's cleanup held its file for a moment
    checked,   \* outputs whose bytes it has verified in the destination
    settled,   \* its last look at the destination is past
    late,      \* outputs touched by others after that look, or rewritten
               \* after their bytes were verified
    tag,       \* the image the tag names
    current,   \* the directory the destination path names
    target,    \* what each name in each directory names
    genuine,   \* foreign files that hold the locked bytes
    placed,    \* foreign files others put under a published name and left there
    left,      \* files that stay under a private name of some cleanup
    tampers

jobVars == <<pc, seen, rebuilt, verified, ran, home, root, body, fds, index, staged, sid,
             owned, undo, aside, kept, checked, settled>>
worldVars == <<late, tag, current, target, genuine, placed, left, tampers>>
vars == <<jobVars, worldVars>>

Transaction == {"parent", "destination", "root"}
Publication == {"pub.parent", "pub.destination", "pub.rollback"}
Ended == {"committed", "failed"}
Body == {"locked", "other"}
Nothing == [name |-> 0, file |-> None]

TpchTypeOK ==
    /\ pc \in [Jobs -> {"idle", "inspecting", "probing", "building", "opening", "running",
                        "ran", "verifying", "duplicating", "checking", "linking", "stating",
                        "staging", "renaming", "closing", "final", "binding", "rebinding",
                        "committing", "rollback", "moving", "judging", "releasing",
                        "cleaning"} \cup Ended]
    /\ seen \in [Jobs -> Images \cup {None}] /\ verified \in [Jobs -> Images \cup {None}]
    /\ ran \in [Jobs -> Images \cup {None}] /\ rebuilt \in [Jobs -> BOOLEAN]
    /\ home \in [Jobs -> Dirs] /\ root \in [Jobs -> {"none", "own", "foreign"}]
    /\ body \in [Jobs -> [OutputSet -> Body]]
    /\ fds \in [Jobs -> SUBSET (Transaction \cup Publication)]
    /\ index \in [Jobs -> DOMAIN Outputs] /\ undo \in [Jobs -> SUBSET (0..Len(Outputs))]
    /\ staged \in [Jobs -> Inode \cup {None}] /\ sid \in [Jobs -> Inode \cup {None}]
    /\ owned \in [Jobs -> [OutputSet -> Inode \cup {None}]]
    /\ aside \in [Jobs -> [name : 0..Len(Outputs), file : Inode \cup {None}]]
    /\ kept \in [Jobs -> BOOLEAN] /\ settled \in [Jobs -> BOOLEAN]
    /\ checked \in [Jobs -> SUBSET OutputSet] /\ late \in [Jobs -> SUBSET OutputSet]
    /\ tag \in Images \cup {None} /\ current \in Dirs
    /\ target \in [Dirs -> [OutputSet -> Inode \cup {None}]]
    /\ genuine \subseteq Foreign /\ placed \subseteq Foreign /\ left \subseteq Inode
    /\ tampers \in 0..MaxTampers

(* Until it publishes, a job shares only the tag with others, so besides    *)
(* starting from nothing a job may start where it publishes; one that       *)
(* failed at once stands for a job that never runs.  A second running job   *)
(* takes the place of one interference, to bound the instance.              *)
TpchInit ==
    /\ pc \in Starts
    /\ seen = [j \in Jobs |-> None] /\ rebuilt = [j \in Jobs |-> FALSE]
    /\ verified \in [Jobs -> Canonical \cup {None}]
    /\ \A j \in Jobs : (pc[j] = "checking") <=> (verified[j] # None)
    /\ ran = verified
    /\ home = [j \in Jobs |-> 1]
    /\ root = [j \in Jobs |-> IF pc[j] = "checking" THEN "own" ELSE "none"]
    /\ body = [j \in Jobs |-> [o \in OutputSet |-> IF pc[j] = "checking" THEN "locked" ELSE "other"]]
    /\ fds = [j \in Jobs |-> IF pc[j] = "checking" THEN Transaction \cup Publication ELSE {}]
    /\ index = [j \in Jobs |-> 1] /\ undo = [j \in Jobs |-> {}]
    /\ staged = [j \in Jobs |-> None] /\ sid = [j \in Jobs |-> None]
    /\ owned = [j \in Jobs |-> [o \in OutputSet |-> None]]
    /\ aside = [j \in Jobs |-> Nothing] /\ kept = [j \in Jobs |-> FALSE]
    /\ checked = [j \in Jobs |-> {}] /\ settled = [j \in Jobs |-> FALSE]
    /\ late = [j \in Jobs |-> {}]
    /\ tag \in IF \E j \in Jobs : pc[j] = "idle" THEN Images \cup {None} ELSE Canonical
    /\ current = 1 /\ target = [d \in Dirs |-> [o \in OutputSet |-> None]]
    /\ genuine = {} /\ placed = {} /\ left = {}
    /\ tampers = Cardinality({j \in Jobs : pc[j] # "failed"}) - 1

Goto(j, p) == pc' = [pc EXCEPT ![j] = p]

-----------------------------------------------------------------------------
(* Failure.                                                                 *)

\* A name in the destination by its position in Outputs, 0 for the staging name.
Entry(j, n) == IF n = 0 THEN staged[j] ELSE target[home[j]][Outputs[n]]
Recorded(j, n) == IF n = 0 THEN sid[j] ELSE owned[j][Outputs[n]]

\* owned_links + staged_links; the staging name is only known once its identity
\* was recorded.
Links(j) == {n \in 0..Len(Outputs) : Recorded(j, n) # None}

\* reversed: the staging name first, then the output published last.
Newest(j) ==
    IF 0 \in undo[j] THEN 0 ELSE CHOOSE n \in undo[j] : \A m \in undo[j] : m <= n

\* An exception: with a publication it is rolled back, then the transaction
\* directory is removed if it is still there.
Raise(j) ==
    /\ Goto(j, IF fds[j] \cap Publication # {} THEN "rollback" ELSE "cleaning")
    /\ undo' = [undo EXCEPT ![j] = Links(j)]
    /\ UNCHANGED <<seen, rebuilt, verified, ran, home, root, body, fds, index, staged, sid,
                   owned, aside, kept, checked, settled, worldVars>>

Require(j, ok, p) ==
    \/ ok /\ Goto(j, p) /\ UNCHANGED <<seen, rebuilt, verified, ran, home, root, body, fds,
          index, staged, sid, owned, undo, aside, kept, checked, settled, worldVars>>
    \/ ~ok /\ Raise(j)

\* Docker or the operating system refuses the next step.
Fails(j) ==
    /\ pc[j] \notin Ended \cup {"idle", "stating", "closing", "committing", "rollback",
                          "moving", "judging", "releasing", "cleaning"}
    /\ Raise(j)

\* The staging link was made but its status cannot be read: the name never gets
\* into staged_links, so the rollback that follows does not know of it.
StatFails(j) ==
    /\ pc[j] = "stating"
    /\ Goto(j, "rollback")
    /\ undo' = [undo EXCEPT ![j] = Links(j)]
    /\ UNCHANGED <<seen, rebuilt, verified, ran, home, root, body, fds, index, staged, sid,
                   owned, aside, kept, checked, settled, worldVars>>

-----------------------------------------------------------------------------
(* DockerContainerRunner.                                                   *)

\* The configuration, platform, entry point, environment and labels.
CheapInspectionMatches(i) == i \in Labelled

\* What the container itself reports of its contents, and its base layers.
EvidenceMatches(i) == i \in Canonical

Begin(j) ==
    /\ pc[j] = "idle"
    /\ Goto(j, "inspecting")
    /\ UNCHANGED <<seen, rebuilt, verified, ran, home, root, body, fds, index, staged, sid,
                   owned, undo, aside, kept, checked, settled, worldVars>>

\* The tag is looked up once; what follows is about the ID found.
InspectImage(j) ==
    /\ pc[j] = "inspecting"
    /\ seen' = [seen EXCEPT ![j] = tag]
    /\ LET matches == tag # None /\ CheapInspectionMatches(tag)
       IN  IF ~matches /\ rebuilt[j]
           THEN Goto(j, "cleaning")
           ELSE Goto(j, IF matches THEN "probing" ELSE "building")
    /\ UNCHANGED <<rebuilt, verified, ran, home, root, body, fds, index, staged, sid,
                   owned, undo, aside, kept, checked, settled, worldVars>>

\* The runtime probe starts a container of that ID.
ImageEvidence(j) ==
    /\ pc[j] = "probing"
    /\ IF EvidenceMatches(seen[j])
       THEN /\ verified' = [verified EXCEPT ![j] = seen[j]]
            /\ Goto(j, "opening")
       ELSE /\ Goto(j, IF rebuilt[j] THEN "cleaning" ELSE "building")
            /\ UNCHANGED verified
    /\ UNCHANGED <<seen, rebuilt, ran, home, root, body, fds, index, staged, sid,
                   owned, undo, aside, kept, checked, settled, worldVars>>

\* A build moves the tag to whatever it produced.
BuildImage(j) ==
    /\ pc[j] = "building"
    /\ \E i \in Images : tag' = i
    /\ rebuilt' = [rebuilt EXCEPT ![j] = TRUE]
    /\ Goto(j, "inspecting")
    /\ UNCHANGED <<seen, verified, ran, home, root, body, fds, index, staged, sid, owned,
                   undo, aside, kept, checked, settled, late, current, target, genuine,
                   placed, left, tampers>>

-----------------------------------------------------------------------------
(* owned_directory, run and verify_tpch_outputs.                            *)

StagingBound(j) == root[j] = "own"
DestinationBound(j) == current = home[j]
Bound(j) == StagingBound(j) /\ DestinationBound(j)

OpenTransaction(j) ==
    /\ pc[j] = "opening"
    /\ home' = [home EXCEPT ![j] = current]
    /\ root' = [root EXCEPT ![j] = "own"]
    /\ fds' = [fds EXCEPT ![j] = Transaction]
    /\ Goto(j, "running")
    /\ UNCHANGED <<seen, rebuilt, verified, ran, body, index, staged, sid, owned, undo,
                   aside, kept, checked, settled, worldVars>>

\* Mutant: the container is started by tag.
RunByTag(j) ==
    /\ pc[j] = "running"
    /\ Bound(j) /\ tag # None
    /\ ran' = [ran EXCEPT ![j] = tag]
    /\ body' = [body EXCEPT ![j] = [o \in OutputSet |-> "locked"]]
    /\ Goto(j, "ran")
    /\ UNCHANGED <<seen, rebuilt, verified, home, root, fds, index, staged, sid, owned,
                   undo, aside, kept, checked, settled, worldVars>>

\* docker run by image ID; the files are handed over to the host user and moved
\* up into the transaction directory.  The generator may produce other bytes.
Run(j) ==
    /\ pc[j] = "running"
    /\ \/ /\ Bound(j)
          /\ ran' = [ran EXCEPT ![j] = verified[j]]
          /\ \E b \in [OutputSet -> Body] : body' = [body EXCEPT ![j] = b]
          /\ Goto(j, "ran")
          /\ UNCHANGED <<seen, rebuilt, verified, home, root, fds, index, staged, sid, owned,
                         undo, aside, kept, checked, settled, worldVars>>
       \/ ~Bound(j) /\ Raise(j)

VerifyBindings(j) ==
    /\ pc[j] = "ran"
    /\ Require(j, Bound(j), "verifying")

\* The exporter's metadata and every file under the root's path agree with the lock.
VerifyTpchOutputs(j) ==
    /\ pc[j] = "verifying"
    /\ Require(j, StagingBound(j) /\ \A o \in OutputSet : body[j][o] = "locked", "duplicating")

-----------------------------------------------------------------------------
(* publish_verified_files.                                                  *)

Item(j) == Outputs[index[j]]
Locked(o, f) == IF f \in Jobs THEN body[f][o] = "locked" ELSE f \in genuine

DuplicateDescriptors(j) ==
    /\ pc[j] = "duplicating"
    /\ fds' = [fds EXCEPT ![j] = @ \cup Publication]
    /\ Goto(j, "checking")
    /\ UNCHANGED <<seen, rebuilt, verified, ran, home, root, body, index, staged, sid, owned,
                   undo, aside, kept, checked, settled, worldVars>>

CheckStaging(j) ==
    /\ pc[j] = "checking"
    /\ Require(j, StagingBound(j), "linking")

\* A random name in the destination, through the descriptors held.
LinkStaged(j) ==
    /\ pc[j] = "linking"
    /\ staged' = [staged EXCEPT ![j] = j]
    /\ Goto(j, "stating")
    /\ UNCHANGED <<seen, rebuilt, verified, ran, home, root, body, fds, index, sid, owned,
                   undo, aside, kept, checked, settled, worldVars>>

\* The identity is taken from the name, not from the source file.
StatStaged(j) ==
    /\ pc[j] = "stating"
    /\ \/ /\ staged[j] # None
          /\ sid' = [sid EXCEPT ![j] = staged[j]]
          /\ Goto(j, "staging")
          /\ UNCHANGED <<seen, rebuilt, verified, ran, home, root, body, fds, index, staged,
                         owned, undo, aside, kept, checked, settled, worldVars>>
       \/ staged[j] = None /\ Raise(j)

\* The staged file is opened, is the one recorded, and holds the locked bytes.
VerifyStagedOutput(j) ==
    /\ pc[j] = "staging"
    /\ LET ok == StagingBound(j) /\ staged[j] = sid[j] /\ Locked(Item(j), sid[j])
       IN  \/ /\ ok
              /\ checked' = [checked EXCEPT ![j] = @ \cup {Item(j)}]
              /\ Goto(j, "renaming")
              /\ UNCHANGED <<seen, rebuilt, verified, ran, home, root, body, fds, index,
                             staged, sid, owned, undo, aside, kept, settled, worldVars>>
           \/ ~ok /\ Raise(j)

Put(d, o, f) == target' = [target EXCEPT ![d][o] = f]

\* Other jobs' files that this changes the name of.
Touch(d, o) ==
    late' = [k \in Jobs |->
        IF settled[k] /\ home[k] = d THEN late[k] \cup {o} ELSE late[k]]

\* RENAME_NOREPLACE moves whatever the staging name names by now.
RenameStaged(j) ==
    /\ pc[j] = "renaming"
    /\ \/ /\ target[home[j]][Item(j)] = None /\ staged[j] # None
          /\ Put(home[j], Item(j), staged[j])
          /\ staged' = [staged EXCEPT ![j] = None]
          /\ owned' = [owned EXCEPT ![j][Item(j)] = sid[j]]
          /\ sid' = [sid EXCEPT ![j] = None]
          /\ index' = [index EXCEPT ![j] = IF @ < Len(Outputs) THEN @ + 1 ELSE @]
          /\ Goto(j, IF index[j] < Len(Outputs) THEN "checking" ELSE "closing")
          /\ UNCHANGED <<seen, rebuilt, verified, ran, home, root, body, fds, undo, aside,
                         kept, checked, settled, late, tag, current, genuine, placed, left, tampers>>
       \/ (target[home[j]][Item(j)] # None \/ staged[j] = None) /\ Raise(j)

\* Leaving the with block: the transaction directory is removed if it is still
\* the job's; if it is not, or cannot be, that is an error after the release.
CloseTransaction(j) ==
    /\ pc[j] = "closing"
    /\ fds' = [fds EXCEPT ![j] = @ \ Transaction]
    /\ \/ /\ root[j] # "foreign"
          /\ root' = [root EXCEPT ![j] = "none"]
          /\ Goto(j, "final")
          /\ UNCHANGED undo
       \/ /\ Goto(j, "rollback")
          /\ undo' = [undo EXCEPT ![j] = Links(j)]
          /\ UNCHANGED root
    /\ UNCHANGED <<seen, rebuilt, verified, ran, home, body, index, staged, sid, owned,
                   aside, kept, checked, settled, worldVars>>

\* Mutant: the identities of the published names are not compared again.
VerifyFinalNames(j) ==
    /\ pc[j] = "final"
    /\ settled' = [settled EXCEPT ![j] = TRUE]
    /\ Goto(j, "binding")
    /\ UNCHANGED <<seen, rebuilt, verified, ran, home, root, body, fds, index, staged,
                   sid, owned, undo, aside, kept, checked, worldVars>>

VerifyFinalIdentities(j) ==
    /\ pc[j] = "final"
    /\ LET ok == \A o \in OutputSet : target[home[j]][o] = owned[j][o]
       IN  \/ /\ ok
              /\ settled' = [settled EXCEPT ![j] = TRUE]
              /\ Goto(j, "binding")
              /\ UNCHANGED <<seen, rebuilt, verified, ran, home, root, body, fds, index, staged,
                             sid, owned, undo, aside, kept, checked, worldVars>>
           \/ ~ok /\ Raise(j)

VerifyDestinationBinding(j) ==
    /\ pc[j] \in {"binding", "rebinding"}
    /\ Require(j, DestinationBound(j), IF pc[j] = "binding" THEN "rebinding" ELSE "committing")

\* Both directory descriptors are closed first; an error there still rolls back
\* through the third.
Commit(j) ==
    /\ pc[j] = "committing"
    /\ \/ fds' = [fds EXCEPT ![j] = {}] /\ Goto(j, "committed") /\ UNCHANGED undo
       \/ /\ fds' = [fds EXCEPT ![j] = {"pub.rollback"}]
          /\ Goto(j, "rollback")
          /\ undo' = [undo EXCEPT ![j] = Links(j)]
    /\ UNCHANGED <<seen, rebuilt, verified, ran, home, root, body, index, staged, sid, owned,
                   aside, kept, checked, settled, worldVars>>

-----------------------------------------------------------------------------
(* _Publication.rollback and _remove_owned_entry, for one entry: compare,   *)
(* rename to a private name, compare again, then unlink or give it back.    *)

SetEntry(j, n, f) ==
    IF n = 0
    THEN staged' = [staged EXCEPT ![j] = f] /\ UNCHANGED <<target, late>>
    ELSE Put(home[j], Outputs[n], f) /\ Touch(home[j], Outputs[n]) /\ UNCHANGED staged

Undone(j) == undo' = [undo EXCEPT ![j] = @ \ {Newest(j)}]

\* Mutant: only the published names are taken back.
RollbackPublished(j) ==
    /\ pc[j] = "rollback"
    /\ IF undo[j] = {}
       THEN Goto(j, "releasing") /\ UNCHANGED undo
       ELSE IF Entry(j, Newest(j)) # Recorded(j, Newest(j)) \/ Newest(j) = 0
            THEN Undone(j) /\ Goto(j, "rollback")
            ELSE Goto(j, "moving") /\ UNCHANGED undo
    /\ UNCHANGED <<seen, rebuilt, verified, ran, home, root, body, fds, index, staged, sid,
                   owned, aside, kept, checked, settled, worldVars>>

RollbackEntry(j) ==
    /\ pc[j] = "rollback"
    /\ IF undo[j] = {}
       THEN Goto(j, "releasing") /\ UNCHANGED undo
       ELSE IF Entry(j, Newest(j)) # Recorded(j, Newest(j))
            THEN Undone(j) /\ Goto(j, "rollback")
            ELSE Goto(j, "moving") /\ UNCHANGED undo
    /\ UNCHANGED <<seen, rebuilt, verified, ran, home, root, body, fds, index, staged, sid,
                   owned, aside, kept, checked, settled, worldVars>>

\* Another job's file that is moved by mistake is out of that job's reach until
\* it is given back.
MoveAside(j) ==
    /\ pc[j] = "moving"
    /\ LET n == Newest(j)
       IN  \/ /\ Entry(j, n) # None
              /\ aside' = [aside EXCEPT ![j] = [name |-> n, file |-> Entry(j, n)]]
              /\ SetEntry(j, n, None)
              /\ Goto(j, "judging")
              /\ kept' = [k \in Jobs |-> kept[k] \/ (k # j /\ Entry(j, n) = k)]
              /\ UNCHANGED undo
           \/ /\ kept' = [kept EXCEPT ![j] = TRUE]
              /\ Undone(j) /\ Goto(j, "rollback")
              /\ UNCHANGED <<aside, target, late, staged>>
    /\ UNCHANGED <<seen, rebuilt, verified, ran, home, root, body, fds, index, sid,
                   owned, checked, settled, tag, current, genuine, placed, left, tampers>>

\* Mutant: what was moved aside is unlinked unseen.
UnlinkUnseen(j) ==
    /\ pc[j] = "judging"
    /\ aside' = [aside EXCEPT ![j] = Nothing]
    /\ Undone(j) /\ Goto(j, "rollback")
    /\ UNCHANGED <<seen, rebuilt, verified, ran, home, root, body, fds, index, staged, sid,
                   owned, kept, checked, settled, worldVars>>

\* A file that is not the recorded one goes back under its name unless that has
\* been taken meanwhile; then it stays under the private name.
Judge(j) ==
    /\ pc[j] = "judging"
    /\ LET n == aside[j].name
           f == aside[j].file
       IN  \/ /\ f = Recorded(j, n)
              /\ UNCHANGED <<target, late, staged, left>>
           \/ /\ f # Recorded(j, n) /\ Entry(j, n) = None
              /\ SetEntry(j, n, f)
              /\ UNCHANGED left
           \/ /\ f # Recorded(j, n) /\ Entry(j, n) # None
              /\ left' = left \cup {f}
              /\ UNCHANGED <<target, late, staged>>
    /\ aside' = [aside EXCEPT ![j] = Nothing]
    /\ Undone(j) /\ Goto(j, "rollback")
    /\ UNCHANGED <<seen, rebuilt, verified, ran, home, root, body, fds, index, sid, kept,
                   owned, checked, settled, tag, current, genuine, placed, tampers>>

ReleaseAfterRollback(j) ==
    /\ pc[j] = "releasing"
    /\ fds' = [fds EXCEPT ![j] = @ \ Publication]
    /\ Goto(j, "cleaning")
    /\ UNCHANGED <<seen, rebuilt, verified, ran, home, root, body, index, staged, sid,
                   owned, undo, aside, kept, checked, settled, worldVars>>

\* The finally clause of owned_directory after an error, if it was entered.
CleanUp(j) ==
    /\ pc[j] = "cleaning"
    /\ root' = [root EXCEPT ![j] = IF @ = "own" THEN "none" ELSE @]
    /\ fds' = [fds EXCEPT ![j] = @ \ Transaction]
    /\ Goto(j, "failed")
    /\ UNCHANGED <<seen, rebuilt, verified, ran, home, body, index, staged, sid,
                   owned, undo, aside, kept, checked, settled, worldVars>>

-----------------------------------------------------------------------------
(* Other programs.                                                          *)

Retag ==
    /\ \E j \in Jobs : ran[j] = None
    /\ \E i \in (Images \cup {None}) \ {tag} : tag' = i
    /\ UNCHANGED <<jobVars, late, current, target, genuine, placed, left>>

ReplaceDirectory ==
    /\ \/ /\ current' = IF current = 1 THEN 2 ELSE 1
          /\ late' = [k \in Jobs |->
                 IF pc[k] \in {"committing", "committed"} THEN OutputSet ELSE late[k]]
          /\ UNCHANGED root
       \/ /\ \E j \in Jobs :
              /\ root[j] = "own"
              /\ \E r \in {"none", "foreign"} : root' = [root EXCEPT ![j] = r]
          /\ UNCHANGED <<current, late>>
    /\ UNCHANGED <<pc, seen, rebuilt, verified, ran, home, body, fds, index, staged, sid,
                   owned, undo, aside, kept, checked, settled, tag, target, genuine, placed, left>>

\* A new file or nothing under any name; under a staging name its bytes matter.
ReplaceFile ==
    /\ \/ \E d \in Dirs, o \in OutputSet, f \in {None, tampers + 1} :
          /\ f # target[d][o]
          /\ Put(d, o, f) /\ Touch(d, o)
          /\ placed' = (placed \ {target[d][o]}) \cup ({f} \ {None})
          /\ UNCHANGED <<staged, genuine>>
       \/ /\ \E j \in Jobs, f \in {None, tampers + 1} :
              /\ staged[j] # None
              /\ staged' = [staged EXCEPT ![j] = f]
              /\ genuine' \in {genuine, genuine \cup ({f} \ {None})}
          /\ UNCHANGED <<target, late, placed>>
    /\ UNCHANGED <<pc, seen, rebuilt, verified, ran, home, root, body, fds, index, sid,
                   owned, undo, aside, kept, checked, settled, tag, current, left>>

Rewrite ==
    /\ \E j \in Jobs, o \in OutputSet :
        /\ body[j][o] = "locked"
        /\ body' = [body EXCEPT ![j][o] = "other"]
        /\ late' = [late EXCEPT ![j] = IF o \in checked[j] THEN @ \cup {o} ELSE @]
    /\ UNCHANGED <<pc, seen, rebuilt, verified, ran, home, root, fds, index, staged, sid,
                   owned, undo, aside, kept, checked, settled, tag, current, target, genuine,
                   placed, left>>

Tamper ==
    /\ tampers < MaxTampers
    /\ tampers' = tampers + 1
    /\ Retag \/ ReplaceDirectory \/ ReplaceFile \/ Rewrite

-----------------------------------------------------------------------------
EnsureImage(j) == Begin(j) \/ InspectImage(j) \/ ImageEvidence(j) \/ BuildImage(j)
Generate(j) == OpenTransaction(j) \/ Run(j) \/ VerifyBindings(j) \/ VerifyTpchOutputs(j)
Publish(j) ==
    \/ DuplicateDescriptors(j) \/ CheckStaging(j) \/ LinkStaged(j) \/ StatStaged(j)
    \/ VerifyStagedOutput(j) \/ RenameStaged(j) \/ CloseTransaction(j)
    \/ VerifyFinalIdentities(j) \/ VerifyDestinationBinding(j) \/ Commit(j)
TakeBack(j) ==
    RollbackEntry(j) \/ MoveAside(j) \/ Judge(j) \/ ReleaseAfterRollback(j) \/ CleanUp(j)

TpchNext ==
    \/ \E j \in Jobs :
        EnsureImage(j) \/ Generate(j) \/ Publish(j) \/ TakeBack(j) \/ Fails(j) \/ StatFails(j)
    \/ Tamper

TpchSpec == TpchInit /\ [][TpchNext]_vars

-----------------------------------------------------------------------------
(* Properties.                                                              *)

\* Files only ever come from an image whose configuration and contents were
\* both proved, however often the tag moves between the lookups (ensure_image,
\* run).
RanVerifiedImage == \A j \in Jobs : ran[j] # None => ran[j] \in Canonical

\* A call that returns has left, in the directory its destination names, for
\* every output a file that was verified there, except what others touched
\* after the last look or rewrote after the verification (generate_tpch).
GeneratedIsVerified ==
    \A j \in Jobs : pc[j] = "committed" =>
        \A o \in OutputSet :
            \/ o \in late[j]
            \/ /\ home[j] = current
               /\ target[current][o] = owned[j][o]
               /\ Locked(o, target[current][o])

NotPublished(j) == \A d \in Dirs, o \in OutputSet : target[d][o] # j

\* A call that fails leaves none of its files in the destination under a final
\* name, and under its staging name only a link that it made and never recorded,
\* because os.stat failed right after os.link; everything it did record is taken
\* back, unless a rename of the cleanup failed as well or its file was in the
\* hands of another job's cleanup.  No call that has ended, by any path, still
\* holds a directory descriptor (_Publication.rollback, commit, owned_directory).
GenerationTakenBack ==
    /\ TpchTypeOK
    /\ \A j \in Jobs : pc[j] = "failed" /\ ~kept[j] =>
           NotPublished(j) /\ (staged[j] = j => sid[j] = None)
    /\ \A j \in Jobs : pc[j] \in Ended => fds[j] = {}

\* A file someone else put under a published name is never destroyed by a
\* cleanup that races with it: it is there, or set aside (_remove_owned_entry).
ForeignFilesSurvive ==
    \A f \in placed :
        \/ \E d \in Dirs, o \in OutputSet : target[d][o] = f
        \/ f \in left \/ \E j \in Jobs : aside[j].file = f

=============================================================================
