----------------------- MODULE TpchGenerationProofs ------------------------
(***************************************************************************)
(* The safety of a TPC-H generation for every number of jobs, outputs,     *)
(* images and interferences: only a proved image generates, what a job     *)
(* returns was verified where it lies, a job that fails takes its files    *)
(* back, and no cleanup destroys a file of someone else.                   *)
(***************************************************************************)
EXTENDS TpchGeneration, WellFoundedInduction, TLAPS

-----------------------------------------------------------------------------
(* The inductive invariants, job by job.                                    *)

\* Where a job has no publication yet, where it publishes, where it has
\* published everything, and where it takes back.
Early == {"idle", "inspecting", "probing", "building", "opening", "running", "ran",
          "verifying", "duplicating"}
Publishing == {"checking", "linking", "stating", "staging", "renaming"}
Published == {"closing", "final", "binding", "rebinding", "committing"}
Undoing == {"rollback", "moving", "judging"}
Past == {"releasing", "cleaning", "failed"}

\* Only a proved image is known as verified.
Proved(j) ==
    /\ verified[j] # None => verified[j] \in Canonical
    /\ ran[j] # None => ran[j] \in Canonical

\* Which descriptors are held where.
Held(j) ==
    /\ pc[j] \in {"idle", "inspecting", "probing", "building", "opening"} \cup Ended => fds[j] = {}
    /\ pc[j] \in Publishing \cup Published => Publication \subseteq fds[j]
    /\ pc[j] = "cleaning" => fds[j] \cap Publication = {}

\* What a job records of its names: its own file or one that interference put
\* there.
Own(j) == {j, None} \cup (1..tampers)
Recording(j) ==
    /\ staged[j] \in Own(j) /\ sid[j] \in Own(j) /\ \A o \in OutputSet : owned[j][o] \in Own(j)
    /\ pc[j] \in Early \cup Published \cup {"checking", "linking", "stating", "committed"} => sid[j] = None
    /\ pc[j] \in Early => index[j] = 1 /\ \A o \in OutputSet : owned[j][o] = None
    /\ staged[j] = j =>
           \/ sid[j] = j \/ pc[j] = "stating" \/ kept[j]
           \/ sid[j] = None /\ pc[j] \in Undoing \cup Past

\* What its cleanup has in hand.
InHand(j) ==
    /\ pc[j] # "judging" => aside[j] = Nothing
    /\ pc[j] \in {"moving", "judging"} => undo[j] # {}
    /\ pc[j] = "judging" => aside[j].file # None /\ aside[j].name = Newest(j)
    /\ aside[j].name = 0 => aside[j].file \in Own(j)
    /\ pc[j] \in Undoing /\ 0 \in undo[j] => sid[j] # None

\* Where the job's file is, as long as no cleanup step failed and no other
\* cleanup had it in hand.
Located(j) ==
    ~kept[j] =>
        /\ \A d \in Dirs, o \in OutputSet : target[d][o] = j => d = home[j] /\ owned[j][o] = j
        /\ \A k \in Jobs : aside[k].file = j => k = j /\ Recorded(j, aside[j].name) = j
        /\ pc[j] \in Undoing =>
               /\ staged[j] = j => sid[j] = None \/ 0 \in undo[j]
               /\ \A o \in OutputSet : target[home[j]][o] = j =>
                      \E n \in undo[j] : n # 0 /\ Outputs[n] = o
        /\ pc[j] = "judging" => Entry(j, aside[j].name) # j
        /\ pc[j] \in Past =>
               (staged[j] = j => sid[j] = None) /\ \A o \in OutputSet : target[home[j]][o] # j

\* What a job knows of the bytes under an identity it verified.
Sure(j, o, f) == o \in checked[j] /\ (Locked(o, f) \/ o \in late[j])

Checked(j) ==
    /\ \A o \in OutputSet : owned[j][o] # None => Sure(j, o, owned[j][o])
    /\ pc[j] \in {"staging", "renaming"} => sid[j] # None
    /\ pc[j] = "renaming" => Sure(j, Item(j), sid[j])
    /\ pc[j] \in Publishing => \A i \in 1 .. index[j] - 1 : owned[j][Outputs[i]] # None
    /\ pc[j] \in Published \cup {"committed"} => \A o \in OutputSet : owned[j][o] # None

\* Its last look holds until someone else touches what it saw.
LastLook(j) ==
    /\ settled[j] => pc[j] \notin Early \cup Publishing \cup {"closing", "final"}
    /\ pc[j] \in {"binding", "rebinding", "committing", "committed"} => settled[j]
    /\ settled[j] => \A o \in OutputSet :
           owned[j][o] # None /\ (o \in late[j] \/ target[home[j]][o] = owned[j][o])
    /\ pc[j] \in {"committing", "committed"} => home[j] = current \/ late[j] = OutputSet

\* Foreign files are numbered by the interference that brought them, and what a
\* cleanup may unlink is none of those put under a published name.
Apart ==
    /\ placed \subseteq 1..tampers
    /\ \A d \in Dirs, o \in OutputSet : target[d][o] \in Jobs \cup {None} \cup (1..tampers)
    /\ \A j \in Jobs :
        /\ staged[j] \notin placed /\ sid[j] \notin placed
        /\ \A o \in OutputSet : owned[j][o] \notin placed
        /\ aside[j].name = 0 => aside[j].file \notin placed
        /\ aside[j].file \in Jobs \cup {None} \cup (1..tampers)

JobInv(j) ==
    /\ Proved(j) /\ Held(j) /\ Recording(j) /\ InHand(j) /\ Located(j) /\ Checked(j)
    /\ LastLook(j)
TpchInv == TpchTypeOK /\ Apart /\ ForeignFilesSurvive /\ \A j \in Jobs : JobInv(j)

-----------------------------------------------------------------------------
(* The constants, the order of a rollback and the entries.                  *)

LEMMA Sizes ==
  /\ Len(Outputs) \in Nat \ {0} /\ DOMAIN Outputs = 1..Len(Outputs)
  /\ \A i \in 1..Len(Outputs) : Outputs[i] \in OutputSet
  /\ \A o \in OutputSet : \E i \in 1..Len(Outputs) : Outputs[i] = o
  /\ MaxTampers \in Nat
  /\ None \notin Jobs /\ \A i \in 1..MaxTampers : i \notin Jobs /\ i # None
<1>1. Outputs \in Seq(OutputSet) /\ Outputs # <<>>
  BY TpchAssumption
<1>2. DOMAIN Outputs = 1..Len(Outputs) /\ Len(Outputs) \in Nat \ {0}
  BY <1>1
<1>3. /\ \A i \in 1..Len(Outputs) : Outputs[i] \in OutputSet
      /\ \A o \in OutputSet : \E i \in 1..Len(Outputs) : Outputs[i] = o
  BY <1>2 DEF OutputSet
<1>4. MaxTampers \in Nat /\ None \notin Jobs /\ \A i \in 1..MaxTampers : i \notin Jobs /\ i # None
  BY TpchAssumption DEF Inode, Foreign
<1> QED
  BY <1>2, <1>3, <1>4

\* A rollback that is not finished has a newest name to take back.
LEMMA NewestLeft ==
  ASSUME NEW j \in Jobs, undo[j] \in SUBSET (0..Len(Outputs)), undo[j] # {}
  PROVE  Newest(j) \in undo[j]
<1> DEFINE n == Len(Outputs)
           gaps == {n - p : p \in undo[j]}
<1>1. n \in Nat
  BY Sizes
<1>2. gaps \subseteq Nat /\ gaps # {}
  BY <1>1
<1>3. \E g \in gaps : \A h \in gaps : ~(h < g)
  <2> DEFINE R == OpToRel(<, Nat)
  <2>1. IsWellFoundedOn(R, Nat)
    BY NatLessThanWellFounded
  <2>2. R = {ss \in Nat \X Nat : ss[1] < ss[2]}
    BY DEF OpToRel
  <2> HIDE DEF R, gaps
  <2>3. PICK g \in gaps : \A h \in gaps : ~(<<h, g>> \in R)
    BY <1>2, <2>1, WFMin
  <2>4. \A h \in gaps : h < g => <<h, g>> \in R
    BY <1>2, <2>2
  <2> QED
    BY <2>3, <2>4
<1>4. PICK p \in undo[j] : \A h \in gaps : ~(h < n - p)
  BY <1>3
<1>5. \A q \in undo[j] : q <= p
  <2> SUFFICES ASSUME NEW q \in undo[j] PROVE q <= p
    OBVIOUS
  <2>1. ~(n - q < n - p)
    BY <1>4
  <2>2. p \in Int /\ q \in Int
    OBVIOUS
  <2> QED
    BY <1>1, <2>1, <2>2
<1> QED
  BY <1>5 DEF Newest

\* What putting a file under a name changes.
LEMMA EntrySet ==
  ASSUME TpchTypeOK, NEW j \in Jobs, NEW n \in 0..Len(Outputs), NEW f \in Inode \cup {None},
         SetEntry(j, n, f)
  PROVE  /\ n = 0 => staged' = [staged EXCEPT ![j] = f] /\ UNCHANGED <<target, late>>
         /\ n # 0 => /\ UNCHANGED staged
                     /\ \A k \in Jobs : late'[k] = IF settled[k] /\ home[k] = home[j]
                                                   THEN late[k] \cup {Outputs[n]} ELSE late[k]
         /\ \A d \in Dirs, o \in OutputSet :
                target'[d][o] = IF n # 0 /\ d = home[j] /\ o = Outputs[n] THEN f ELSE target[d][o]
         /\ staged' \in [Jobs -> Inode \cup {None}]
         /\ target' \in [Dirs -> [OutputSet -> Inode \cup {None}]]
         /\ late' \in [Jobs -> SUBSET OutputSet]
<1>1. /\ staged \in [Jobs -> Inode \cup {None}] /\ home \in [Jobs -> Dirs]
      /\ target \in [Dirs -> [OutputSet -> Inode \cup {None}]]
      /\ late \in [Jobs -> SUBSET OutputSet]
  BY DEF TpchTypeOK
<1>2. CASE n = 0
  BY <1>1, <1>2 DEF SetEntry
<1>3. CASE n # 0
  <2>1. Outputs[n] \in OutputSet
    BY <1>3, Sizes
  <2>2. /\ UNCHANGED staged
        /\ target' = [target EXCEPT ![home[j]] = [target[home[j]] EXCEPT ![Outputs[n]] = f]]
        /\ late' = [k \in Jobs |-> IF settled[k] /\ home[k] = home[j]
                                   THEN late[k] \cup {Outputs[n]} ELSE late[k]]
    BY <1>3 DEF SetEntry, Put, Touch
  <2>3. late' \in [Jobs -> SUBSET OutputSet]
    BY <1>1, <2>1, <2>2
  <2> DEFINE row == [target[home[j]] EXCEPT ![Outputs[n]] = f]
  <2>4. row \in [OutputSet -> Inode \cup {None}]
    BY <1>1, <2>1
  <2>5. \A o \in OutputSet : row[o] = IF o = Outputs[n] THEN f ELSE target[home[j]][o]
    BY <1>1, <2>1
  <2> HIDE DEF row
  <2>6. target' = [target EXCEPT ![home[j]] = row]
    BY <2>2 DEF row
  <2>7. target' \in [Dirs -> [OutputSet -> Inode \cup {None}]]
    BY <1>1, <2>4, <2>6
  <2>8. \A d \in Dirs, o \in OutputSet :
            target'[d][o] = IF d = home[j] /\ o = Outputs[n] THEN f ELSE target[d][o]
    BY <1>1, <2>5, <2>6
  <2> QED
    BY <1>1, <1>3, <2>2, <2>3, <2>7, <2>8
<1> QED
  BY <1>2, <1>3

-----------------------------------------------------------------------------
(* Types.                                                                   *)

JobStep(j) ==
    EnsureImage(j) \/ Generate(j) \/ Publish(j) \/ TakeBack(j) \/ Fails(j) \/ StatFails(j)

Point == Early \cup Publishing \cup Published \cup Undoing \cup {"releasing", "cleaning"} \cup Ended

\* A step that only moves on, or decides what there is to take back.
Moves(j) ==
    /\ \E p \in Point : Goto(j, p)
    /\ UNCHANGED undo \/ undo' = [undo EXCEPT ![j] = Links(j)]
    /\ UNCHANGED <<seen, rebuilt, verified, ran, home, root, body, fds, index, staged, sid,
                   owned, aside, kept, checked, settled, worldVars>>

LEMMA MoveTypes ==
  ASSUME TpchTypeOK, NEW j \in Jobs, Moves(j)
  PROVE  TpchTypeOK'
<1>1. pc' \in [Jobs -> Point] /\ undo' \in [Jobs -> SUBSET (0..Len(Outputs))]
  <2>1. Links(j) \in SUBSET (0..Len(Outputs))
    BY DEF Links
  <2>2. pc \in [Jobs -> Point]
    BY DEF TpchTypeOK, Point, Early, Publishing, Published, Undoing, Ended
  <2>3. undo \in [Jobs -> SUBSET (0..Len(Outputs))]
    BY DEF TpchTypeOK
  <2> QED
    BY <2>1, <2>2, <2>3 DEF Moves, Goto
<1>2. pc' \in [Jobs -> {"idle", "inspecting", "probing", "building", "opening", "running",
                        "ran", "verifying", "duplicating", "checking", "linking", "stating",
                        "staging", "renaming", "closing", "final", "binding", "rebinding",
                        "committing", "rollback", "moving", "judging", "releasing",
                        "cleaning"} \cup Ended]
  BY <1>1 DEF Point, Early, Publishing, Published, Undoing, Ended
<1> QED
  BY <1>1, <1>2 DEF Moves, worldVars, TpchTypeOK

LEMMA RaiseMoves ==
  ASSUME NEW j \in Jobs, Raise(j)
  PROVE  Moves(j)
  BY DEF Raise, Moves, Point, Undoing

LEMMA RequireMoves ==
  ASSUME NEW j \in Jobs, NEW ok, NEW p \in Point, Require(j, ok, p)
  PROVE  Moves(j)
  BY RaiseMoves DEF Require, Moves

\* The steps that change nothing but where the job is.
LEMMA PlainSteps ==
  ASSUME NEW j \in Jobs,
         \/ Begin(j) \/ VerifyBindings(j) \/ VerifyTpchOutputs(j) \/ CheckStaging(j)
         \/ VerifyDestinationBinding(j) \/ Fails(j) \/ Raise(j)
  PROVE  Moves(j)
<1>1. CASE Begin(j)
  BY <1>1 DEF Begin, Moves, Point, Early
<1>2. CASE VerifyBindings(j) \/ VerifyTpchOutputs(j) \/ CheckStaging(j) \/ VerifyDestinationBinding(j)
  BY <1>2, RequireMoves
  DEF VerifyBindings, VerifyTpchOutputs, CheckStaging, VerifyDestinationBinding, Point, Early,
      Publishing, Published
<1> QED
  BY <1>1, <1>2, RaiseMoves DEF Fails

LEMMA JobTypes ==
  ASSUME TpchTypeOK, NEW j \in Jobs, JobStep(j), JobInv(j)
  PROVE  TpchTypeOK'
<1> USE DEF TpchTypeOK
<1>1. CASE Moves(j)
  <2> HIDE DEF TpchTypeOK
  <2> QED
    BY <1>1, MoveTypes
<1>2. CASE InspectImage(j)
  BY <1>2 DEF InspectImage, Goto, worldVars
<1>3. CASE ImageEvidence(j)
  <2>1. verified' \in [Jobs -> Images \cup {None}]
    BY <1>3 DEF ImageEvidence
  <2>2. \E p \in {"opening", "cleaning", "building"} : Goto(j, p)
    BY <1>3 DEF ImageEvidence
  <2>3. UNCHANGED <<seen, rebuilt, ran, home, root, body, fds, index, staged, sid,
                    owned, undo, aside, kept, checked, settled, worldVars>>
    BY <1>3 DEF ImageEvidence
  <2> QED
    BY <2>1, <2>2, <2>3 DEF Goto, worldVars
<1>4. CASE BuildImage(j)
  BY <1>4 DEF BuildImage, Goto
<1>5. CASE OpenTransaction(j)
  BY <1>5 DEF OpenTransaction, Goto, worldVars
<1>6. CASE Run(j) /\ ~Raise(j)
  <2>1. PICK b \in [OutputSet -> Body] : body' = [body EXCEPT ![j] = b]
    BY <1>6 DEF Run
  <2>2. /\ ran' = [ran EXCEPT ![j] = verified[j]] /\ Goto(j, "ran")
        /\ UNCHANGED <<seen, rebuilt, verified, home, root, fds, index, staged, sid, owned,
                       undo, aside, kept, checked, settled, worldVars>>
    BY <1>6 DEF Run
  <2> QED
    BY <2>1, <2>2 DEF Goto, worldVars
<1>7. CASE DuplicateDescriptors(j)
  BY <1>7 DEF DuplicateDescriptors, Goto, worldVars
<1>8. CASE LinkStaged(j)
  BY <1>8 DEF LinkStaged, Goto, worldVars, Inode
<1>9. CASE StatStaged(j) /\ ~Raise(j)
  <2>1. /\ sid' = [sid EXCEPT ![j] = staged[j]] /\ Goto(j, "staging")
        /\ UNCHANGED <<seen, rebuilt, verified, ran, home, root, body, fds, index, staged,
                       owned, undo, aside, kept, checked, settled, worldVars>>
    BY <1>9 DEF StatStaged
  <2> QED
    BY <2>1 DEF Goto, worldVars
<1>10. CASE VerifyStagedOutput(j) /\ ~Raise(j)
  <2>1. /\ checked' = [checked EXCEPT ![j] = checked[j] \cup {Item(j)}] /\ Goto(j, "renaming")
        /\ UNCHANGED <<seen, rebuilt, verified, ran, home, root, body, fds, index,
                       staged, sid, owned, undo, aside, kept, settled, worldVars>>
    BY <1>10 DEF VerifyStagedOutput
  <2>2. Item(j) \in OutputSet
    BY Sizes DEF Item
  <2> QED
    BY <2>1, <2>2 DEF Goto, worldVars
<1>11. CASE RenameStaged(j) /\ ~Raise(j)
  <2>1. /\ target' = [target EXCEPT ![home[j]] = [target[home[j]] EXCEPT ![Item(j)] = staged[j]]]
        /\ staged' = [staged EXCEPT ![j] = None]
        /\ owned' = [owned EXCEPT ![j] = [owned[j] EXCEPT ![Item(j)] = sid[j]]]
        /\ sid' = [sid EXCEPT ![j] = None]
        /\ index' = [index EXCEPT ![j] = IF index[j] < Len(Outputs) THEN index[j] + 1 ELSE index[j]]
        /\ Goto(j, IF index[j] < Len(Outputs) THEN "checking" ELSE "closing")
        /\ UNCHANGED <<seen, rebuilt, verified, ran, home, root, body, fds, undo, aside,
                       kept, checked, settled, late, tag, current, genuine, placed, left, tampers>>
    BY <1>11 DEF RenameStaged, Put
  <2>2. Item(j) \in OutputSet
    BY Sizes DEF Item
  <2>3. /\ [target[home[j]] EXCEPT ![Item(j)] = staged[j]] \in [OutputSet -> Inode \cup {None}]
        /\ [owned[j] EXCEPT ![Item(j)] = sid[j]] \in [OutputSet -> Inode \cup {None}]
    BY <2>2
  <2>4. (IF index[j] < Len(Outputs) THEN index[j] + 1 ELSE index[j]) \in DOMAIN Outputs
    BY Sizes
  <2>5. /\ target' \in [Dirs -> [OutputSet -> Inode \cup {None}]]
        /\ owned' \in [Jobs -> [OutputSet -> Inode \cup {None}]]
    BY <2>1, <2>3
  <2>6. staged' \in [Jobs -> Inode \cup {None}] /\ sid' \in [Jobs -> Inode \cup {None}]
    BY <2>1
  <2>7. index' \in [Jobs -> DOMAIN Outputs]
    BY <2>1, <2>4
  <2> QED
    BY <2>1, <2>5, <2>6, <2>7 DEF Goto
<1>12. CASE CloseTransaction(j)
  <2>1. Links(j) \in SUBSET (0..Len(Outputs))
    BY DEF Links
  <2>2. undo' \in [Jobs -> SUBSET (0..Len(Outputs))]
    BY <1>12, <2>1 DEF CloseTransaction
  <2>3. root' \in [Jobs -> {"none", "own", "foreign"}]
    BY <1>12 DEF CloseTransaction
  <2> QED
    BY <1>12, <2>2, <2>3 DEF CloseTransaction, Goto, worldVars
<1>13. CASE VerifyFinalIdentities(j) /\ ~Raise(j)
  <2>1. /\ settled' = [settled EXCEPT ![j] = TRUE] /\ Goto(j, "binding")
        /\ UNCHANGED <<seen, rebuilt, verified, ran, home, root, body, fds, index, staged,
                       sid, owned, undo, aside, kept, checked, worldVars>>
    BY <1>13 DEF VerifyFinalIdentities
  <2> QED
    BY <2>1 DEF Goto, worldVars
<1>14. CASE Commit(j)
  <2>1. Links(j) \in SUBSET (0..Len(Outputs))
    BY DEF Links
  <2>2. undo' \in [Jobs -> SUBSET (0..Len(Outputs))]
    BY <1>14, <2>1 DEF Commit
  <2>3. fds' \in [Jobs -> SUBSET (Transaction \cup Publication)]
    <3>1. {} \in SUBSET (Transaction \cup Publication)
          /\ {"pub.rollback"} \in SUBSET (Transaction \cup Publication)
      BY DEF Publication
    <3>2. fds' = [fds EXCEPT ![j] = {}] \/ fds' = [fds EXCEPT ![j] = {"pub.rollback"}]
      BY <1>14 DEF Commit
    <3> QED
      BY <3>1, <3>2
  <2> QED
    BY <1>14, <2>2, <2>3 DEF Commit, Goto, worldVars, Ended
<1>15. CASE RollbackEntry(j)
  <2>1. undo' \in [Jobs -> SUBSET (0..Len(Outputs))]
    <3>1. UNCHANGED undo \/ undo' = [undo EXCEPT ![j] = undo[j] \ {Newest(j)}]
      BY <1>15 DEF RollbackEntry, Undone
    <3>2. undo \in [Jobs -> SUBSET (0..Len(Outputs))]
      OBVIOUS
    <3> HIDE DEF TpchTypeOK
    <3> QED
      BY <3>1, <3>2
  <2> QED
    BY <1>15, <2>1 DEF RollbackEntry, Goto, worldVars
<1>16. CASE MoveAside(j)
  <2> DEFINE n == Newest(j)
  <2>1. undo[j] # {} /\ undo[j] \in SUBSET (0..Len(Outputs))
    BY <1>16 DEF MoveAside, JobInv, InHand
  <2>2. n \in 0..Len(Outputs) /\ Entry(j, n) \in Inode \cup {None}
    <3>1. n \in 0..Len(Outputs)
      BY <2>1, NewestLeft
    <3>2. n # 0 => Outputs[n] \in OutputSet
      BY <3>1, Sizes
    <3> HIDE DEF n
    <3> QED
      BY <3>1, <3>2 DEF Entry
  <2>3. CASE /\ aside' = [aside EXCEPT ![j] = [name |-> n, file |-> Entry(j, n)]]
             /\ SetEntry(j, n, None)
             /\ kept' = [k \in Jobs |-> kept[k] \/ (k # j /\ Entry(j, n) = k)]
             /\ Goto(j, "judging") /\ UNCHANGED undo
    <3>1. /\ staged' \in [Jobs -> Inode \cup {None}]
          /\ target' \in [Dirs -> [OutputSet -> Inode \cup {None}]]
          /\ late' \in [Jobs -> SUBSET OutputSet]
      <4> HIDE DEF TpchTypeOK
      <4> QED
        BY <2>2, <2>3, EntrySet
    <3>2. aside' \in [Jobs -> [name : 0..Len(Outputs), file : Inode \cup {None}]]
      BY <2>2, <2>3
    <3>3. kept' \in [Jobs -> BOOLEAN]
      BY <2>3
    <3> QED
      BY <1>16, <2>3, <3>1, <3>2, <3>3 DEF MoveAside, Goto
  <2>4. CASE /\ kept' = [kept EXCEPT ![j] = TRUE]
             /\ Undone(j) /\ Goto(j, "rollback")
             /\ UNCHANGED <<aside, target, late, staged>>
    <3>1. undo' \in [Jobs -> SUBSET (0..Len(Outputs))]
      BY <2>4 DEF Undone
    <3> QED
      BY <1>16, <2>4, <3>1 DEF MoveAside, Goto
  <2> QED
    BY <1>16, <2>3, <2>4 DEF MoveAside
<1>17. CASE Judge(j)
  <2> DEFINE n == aside[j].name
             f == aside[j].file
  <2>1. n \in 0..Len(Outputs) /\ f \in Inode \cup {None}
    OBVIOUS
  <2>2. /\ staged' \in [Jobs -> Inode \cup {None}]
        /\ target' \in [Dirs -> [OutputSet -> Inode \cup {None}]]
        /\ late' \in [Jobs -> SUBSET OutputSet]
    <3>1. CASE SetEntry(j, n, f)
      <4> HIDE DEF TpchTypeOK, n, f
      <4> QED
        BY <2>1, <3>1, EntrySet
    <3>2. CASE UNCHANGED <<target, late, staged>>
      BY <3>2
    <3> QED
      BY <1>17, <3>1, <3>2 DEF Judge
  <2>3. left' \subseteq Inode
    <3>1. f # Recorded(j, n) /\ Entry(j, n) # None => f \in Inode
      BY <1>17, <2>1 DEF Judge, JobInv, InHand
    <3> QED
      BY <1>17, <3>1 DEF Judge
  <2>4. /\ undo' \in [Jobs -> SUBSET (0..Len(Outputs))]
        /\ aside' \in [Jobs -> [name : 0..Len(Outputs), file : Inode \cup {None}]]
    <3>1. Nothing \in [name : 0..Len(Outputs), file : Inode \cup {None}]
      BY Sizes DEF Nothing
    <3> QED
      BY <1>17, <3>1 DEF Judge, Undone
  <2> QED
    BY <1>17, <2>2, <2>3, <2>4 DEF Judge, Goto
<1>18. CASE ReleaseAfterRollback(j)
  BY <1>18 DEF ReleaseAfterRollback, Goto, worldVars
<1>19. CASE CleanUp(j)
  <2>1. root' \in [Jobs -> {"none", "own", "foreign"}]
    BY <1>19 DEF CleanUp
  <2> QED
    BY <1>19, <2>1 DEF CleanUp, Goto, worldVars, Ended
<1>20. CASE StatFails(j)
  <2>1. undo' \in [Jobs -> SUBSET (0..Len(Outputs))]
    BY <1>20 DEF StatFails, Links
  <2> QED
    BY <1>20, <2>1 DEF StatFails, Goto, worldVars
<1> HIDE DEF TpchTypeOK
<1> QED
  BY <1>1, <1>2, <1>3, <1>4, <1>5, <1>6, <1>7, <1>8, <1>9, <1>10, <1>11, <1>12, <1>13, <1>14,
     <1>15, <1>16, <1>17, <1>18, <1>19, <1>20, PlainSteps
  DEF JobStep, EnsureImage, Generate, Publish, TakeBack

LEMMA TamperTypes ==
  ASSUME TpchTypeOK, Tamper
  PROVE  TpchTypeOK'
<1> DEFINE f == tampers + 1
<1>1. tampers' \in 0..MaxTampers /\ tampers + 1 \in Foreign /\ tampers + 1 \in Inode
  BY Sizes DEF Tamper, TpchTypeOK, Foreign, Inode
<1>2. CASE Retag
  <2>1. tag' \in Images \cup {None}
    BY <1>2 DEF Retag
  <2>2. UNCHANGED <<jobVars, late, current, target, genuine, placed, left>>
    BY <1>2 DEF Retag
  <2> QED
    BY <1>1, <2>1, <2>2 DEF jobVars, TpchTypeOK
<1>3. CASE ReplaceDirectory
  <2>1. current' \in Dirs
    BY <1>3 DEF ReplaceDirectory, TpchTypeOK, Dirs
  <2>4. late' \in [Jobs -> SUBSET OutputSet]
    <3>1. late \in [Jobs -> SUBSET OutputSet]
      BY DEF TpchTypeOK
    <3> QED
      BY <1>3, <3>1 DEF ReplaceDirectory
  <2>2. root' \in [Jobs -> {"none", "own", "foreign"}]
    BY <1>3 DEF ReplaceDirectory, TpchTypeOK
  <2>3. UNCHANGED <<pc, seen, rebuilt, verified, ran, home, body, fds, index, staged, sid,
                   owned, undo, aside, kept, checked, settled, tag, target, genuine, placed, left>>
    BY <1>3 DEF ReplaceDirectory
  <2> QED
    BY <1>1, <2>1, <2>2, <2>3, <2>4 DEF TpchTypeOK
<1>4. CASE ReplaceFile
  <2>1. UNCHANGED <<pc, seen, rebuilt, verified, ran, home, root, body, fds, index, sid,
                   owned, undo, aside, kept, checked, settled, tag, current, left>>
    BY <1>4 DEF ReplaceFile
  <2>2. CASE \E d \in Dirs, o \in OutputSet, g \in {None, tampers + 1} :
                /\ Put(d, o, g) /\ Touch(d, o)
                /\ placed' = (placed \ {target[d][o]}) \cup ({g} \ {None})
                /\ UNCHANGED <<staged, genuine>>
    <3>1. PICK d \in Dirs, o \in OutputSet, g \in {None, tampers + 1} :
                /\ Put(d, o, g) /\ Touch(d, o)
                /\ placed' = (placed \ {target[d][o]}) \cup ({g} \ {None})
                /\ UNCHANGED <<staged, genuine>>
      BY <2>2
    <3>2. placed' \subseteq Foreign
      BY <1>1, <3>1 DEF TpchTypeOK
    <3>3. late' \in [Jobs -> SUBSET OutputSet]
      BY <3>1 DEF Touch, TpchTypeOK
    <3>4. target' \in [Dirs -> [OutputSet -> Inode \cup {None}]]
      <4> DEFINE row == [target[d] EXCEPT ![o] = g]
      <4>1. row \in [OutputSet -> Inode \cup {None}] /\ target \in [Dirs -> [OutputSet -> Inode \cup {None}]]
        BY <1>1 DEF TpchTypeOK
      <4>2. target' = [target EXCEPT ![d] = row]
        BY <3>1 DEF Put
      <4> HIDE DEF row
      <4> QED
        BY <4>1, <4>2
    <3> QED
      BY <1>1, <2>1, <3>1, <3>2, <3>3, <3>4 DEF TpchTypeOK
  <2>3. CASE /\ \E j \in Jobs, g \in {None, tampers + 1} :
                  /\ staged' = [staged EXCEPT ![j] = g]
                  /\ genuine' \in {genuine, genuine \cup ({g} \ {None})}
             /\ UNCHANGED <<target, late, placed>>
    <3>1. staged' \in [Jobs -> Inode \cup {None}]
      BY <1>1, <2>3 DEF TpchTypeOK
    <3>2. genuine' \subseteq Foreign
      BY <1>1, <2>3 DEF TpchTypeOK
    <3> QED
      BY <1>1, <2>1, <2>3, <3>1, <3>2 DEF TpchTypeOK
  <2> QED
    BY <1>4, <2>2, <2>3 DEF ReplaceFile
<1>5. CASE Rewrite
  <2>1. PICK j \in Jobs, o \in OutputSet :
        /\ body' = [body EXCEPT ![j] = [body[j] EXCEPT ![o] = "other"]]
        /\ late' = [late EXCEPT ![j] = IF o \in checked[j] THEN late[j] \cup {o} ELSE late[j]]
    BY <1>5 DEF Rewrite
  <2>2. UNCHANGED <<pc, seen, rebuilt, verified, ran, home, root, fds, index, staged, sid,
                   owned, undo, aside, kept, checked, settled, tag, current, target, genuine,
                   placed, left>>
    BY <1>5 DEF Rewrite
  <2>3. [body[j] EXCEPT ![o] = "other"] \in [OutputSet -> Body]
    BY DEF TpchTypeOK, Body
  <2>4. body' \in [Jobs -> [OutputSet -> Body]]
    BY <2>1, <2>3 DEF TpchTypeOK
  <2>5. late' \in [Jobs -> SUBSET OutputSet]
    BY <2>1 DEF TpchTypeOK
  <2> QED
    BY <1>1, <2>2, <2>4, <2>5 DEF TpchTypeOK
<1> QED
  BY <1>2, <1>3, <1>4, <1>5 DEF Tamper

-----------------------------------------------------------------------------
(* What a step of another job or of another program may do to a job.        *)

\* It leaves the job's own state alone, but may put a new file under its staging
\* name, rewrite its files and, marked late, touch what the job has published.
Outside(k) ==
    /\ pc'[k] = pc[k] /\ verified'[k] = verified[k] /\ ran'[k] = ran[k] /\ home'[k] = home[k]
    /\ fds'[k] = fds[k] /\ index'[k] = index[k] /\ sid'[k] = sid[k] /\ owned'[k] = owned[k]
    /\ undo'[k] = undo[k] /\ aside'[k] = aside[k] /\ checked'[k] = checked[k]
    /\ settled'[k] = settled[k] /\ (kept[k] => kept'[k])

Interferes(k) ==
    /\ tampers <= tampers'
    /\ staged'[k] = staged[k] \/ staged'[k] = None \/ staged'[k] \in tampers + 1 .. tampers'
    /\ late[k] \subseteq late'[k] /\ genuine \subseteq genuine'
    /\ \A o \in OutputSet : body'[k][o] = body[k][o] \/ o \notin checked[k] \/ o \in late'[k]
    /\ \A d \in Dirs, o \in OutputSet : target'[d][o] = k => target[d][o] = k \/ kept'[k]
    /\ \A i \in Jobs : aside'[i].file = k => aside[i].file = k \/ kept'[k]
    /\ settled[k] => \A o \in OutputSet :
           \/ o \in late'[k] \/ target[home[k]][o] = None
           \/ target'[home[k]][o] = target[home[k]][o]
    /\ pc[k] \in {"committing", "committed"} => current' = current \/ late'[k] = OutputSet

LEMMA OutsideKeeps ==
  ASSUME TpchTypeOK, TpchTypeOK', NEW k \in Jobs, JobInv(k), Outside(k), Interferes(k)
  PROVE  JobInv(k)'
<1>1. /\ tampers \in Nat /\ tampers' \in Nat /\ tampers <= MaxTampers /\ tampers' <= MaxTampers /\ MaxTampers \in Nat
      /\ \A i \in 1..MaxTampers : i # k /\ i # None
      /\ k # None
  BY Sizes DEF TpchTypeOK
<1>2. staged'[k] = k => staged[k] = k
  BY <1>1 DEF Interferes
<1>3. Proved(k)' /\ Held(k)'
  BY DEF JobInv, Proved, Held, Outside
<1>8. InHand(k)'
  <2>1. Own(k) \subseteq Own(k)'
    BY <1>1 DEF Own, Interferes
  <2> QED
    BY <2>1 DEF JobInv, InHand, Outside, Newest
<1>4. Recording(k)'
  <2>1. Own(k) \subseteq Own(k)'
    BY <1>1 DEF Own, Interferes
  <2>2. staged'[k] \in Own(k)'
    <3>1. staged[k] \in Own(k)
      BY DEF JobInv, Recording
    <3> QED
      BY <1>1, <2>1, <3>1 DEF Interferes, Own
  <2>3. sid'[k] \in Own(k)' /\ \A o \in OutputSet : owned'[k][o] \in Own(k)'
    BY <2>1 DEF JobInv, Recording, Outside
  <2> QED
    BY <1>2, <2>2, <2>3 DEF JobInv, Recording, Outside
<1>5. Located(k)'
  <2> SUFFICES ASSUME ~kept'[k] PROVE Located(k)'
    BY DEF Located
  <2>1. ~kept[k]
    BY DEF Outside
  <2>2. \A d \in Dirs, o \in OutputSet : target'[d][o] = k => target[d][o] = k
    BY DEF Interferes
  <2>3. \A i \in Jobs : aside'[i].file = k => aside[i].file = k
    BY DEF Interferes
  <2>4. \A n \in 0..Len(Outputs) : Recorded(k, n)' = Recorded(k, n)
    BY DEF Recorded, Outside
  <2>5. home'[k] = home[k] /\ home[k] \in Dirs
    BY DEF Outside, TpchTypeOK
  <2>6. aside[k].name \in 0..Len(Outputs)
    BY DEF TpchTypeOK
  <2>7. \A n \in 0..Len(Outputs) : Entry(k, n)' = k => Entry(k, n) = k
    <3> SUFFICES ASSUME NEW n \in 0..Len(Outputs), Entry(k, n)' = k PROVE Entry(k, n) = k
      OBVIOUS
    <3>1. n # 0 => Outputs[n] \in OutputSet
      BY Sizes
    <3> QED
      BY <1>2, <2>2, <2>5, <3>1 DEF Entry
  <2>8. /\ \A d \in Dirs, o \in OutputSet : target[d][o] = k => d = home[k] /\ owned[k][o] = k
        /\ \A i \in Jobs : aside[i].file = k => i = k /\ Recorded(k, aside[k].name) = k
        /\ pc[k] \in Undoing =>
               /\ staged[k] = k => sid[k] = None \/ 0 \in undo[k]
               /\ \A o \in OutputSet : target[home[k]][o] = k =>
                      \E n \in undo[k] : n # 0 /\ Outputs[n] = o
        /\ pc[k] = "judging" => Entry(k, aside[k].name) # k
        /\ pc[k] \in Past => (staged[k] = k => sid[k] = None) /\ \A o \in OutputSet : target[home[k]][o] # k
    BY <2>1 DEF JobInv, Located
  <2>9. /\ pc'[k] = pc[k] /\ sid'[k] = sid[k] /\ owned'[k] = owned[k] /\ undo'[k] = undo[k] /\ aside'[k] = aside[k]
    BY DEF Outside
  <2>10. \A d \in Dirs, o \in OutputSet : target'[d][o] = k => d = home'[k] /\ owned'[k][o] = k
    BY <2>2, <2>5, <2>8, <2>9
  <2>11. \A i \in Jobs : aside'[i].file = k => i = k /\ Recorded(k, aside[k].name)' = k
    BY <2>3, <2>4, <2>6, <2>8, <2>9
  <2>12. pc'[k] \in Undoing =>
               /\ staged'[k] = k => sid'[k] = None \/ 0 \in undo'[k]
               /\ \A o \in OutputSet : target'[home'[k]][o] = k =>
                      \E n \in undo'[k] : n # 0 /\ Outputs[n] = o
    BY <1>2, <2>2, <2>5, <2>8, <2>9
  <2>13. pc'[k] = "judging" => Entry(k, aside[k].name)' # k
    BY <2>6, <2>7, <2>8, <2>9
  <2>14. pc'[k] \in Past => (staged'[k] = k => sid'[k] = None) /\ \A o \in OutputSet : target'[home'[k]][o] # k
    BY <1>2, <2>2, <2>5, <2>8, <2>9
  <2> QED
    BY <2>10, <2>11, <2>12, <2>13, <2>14 DEF Located
<1>6. Checked(k)'
  <2>1. \A o \in OutputSet, f \in Own(k) : Sure(k, o, f) => Sure(k, o, f)'
    <3> SUFFICES ASSUME NEW o \in OutputSet, NEW f \in Own(k), Sure(k, o, f) PROVE Sure(k, o, f)'
      OBVIOUS
    <3>1. checked'[k] = checked[k] /\ o \in checked[k] /\ (Locked(o, f) \/ o \in late[k])
      BY DEF Sure, Outside
    <3>2. CASE o \in late[k]
      BY <3>1, <3>2 DEF Sure, Interferes
    <3>3. CASE Locked(o, f)
      <4>1. f = k \/ f \notin Jobs
        BY <1>1, Sizes DEF Own
      <4>2. Locked(o, f)' \/ o \in late'[k]
        BY <3>1, <3>3, <4>1 DEF Locked, Interferes
      <4> QED
        BY <3>1, <4>2 DEF Sure
    <3> QED
      BY <3>1, <3>2, <3>3
  <2>2. /\ sid[k] \in Own(k) /\ \A o \in OutputSet : owned[k][o] \in Own(k)
    BY DEF JobInv, Recording
  <2>3. Item(k)' = Item(k) /\ Item(k) \in OutputSet
    BY Sizes DEF Item, Outside, TpchTypeOK
  <2>4. Checked(k)
    BY DEF JobInv
  <2>5. \A o \in OutputSet : owned'[k][o] # None => Sure(k, o, owned[k][o])'
    BY <2>1, <2>2, <2>4 DEF Checked, Outside
  <2>6. pc'[k] = "renaming" => Sure(k, Item(k), sid[k])'
    BY <2>1, <2>2, <2>3, <2>4 DEF Checked, Outside
  <2> QED
    BY <2>3, <2>4, <2>5, <2>6 DEF Checked, Outside
<1>7. LastLook(k)'
  <2>1. LastLook(k)
    BY DEF JobInv
  <2>2. settled'[k] => \A o \in OutputSet :
           owned'[k][o] # None /\ (o \in late'[k] \/ target'[home'[k]][o] = owned'[k][o])
    BY <2>1 DEF LastLook, Outside, Interferes
  <2>3. late'[k] \subseteq OutputSet
    BY DEF TpchTypeOK
  <2>4. pc'[k] \in {"committing", "committed"} => home'[k] = current' \/ late'[k] = OutputSet
    BY <2>1, <2>3 DEF LastLook, Outside, Interferes
  <2> QED
    BY <2>1, <2>2, <2>4 DEF LastLook, Outside
<1> QED
  BY <1>3, <1>4, <1>5, <1>6, <1>7, <1>8 DEF JobInv

\* A job's step leaves the private state of the others alone.
LEMMA OthersKept ==
  ASSUME TpchTypeOK, NEW j \in Jobs, JobStep(j), NEW k \in Jobs \ {j}
  PROVE  Outside(k) /\ staged'[k] = staged[k] /\ body'[k] = body[k]
<1>1. CASE Moves(j)
  BY <1>1 DEF Moves, Goto, TpchTypeOK, Outside
<1>2. CASE InspectImage(j)
  BY <1>2 DEF InspectImage, Goto, TpchTypeOK, Outside
<1>3. CASE ImageEvidence(j)
  <2>1. (\E p \in Point : Goto(j, p)) /\ verified'[k] = verified[k]
    BY <1>3 DEF ImageEvidence, TpchTypeOK, Point, Early, Goto
  <2> QED
    BY <1>3, <2>1 DEF ImageEvidence, Goto, TpchTypeOK, Outside
<1>4. CASE BuildImage(j)
  BY <1>4 DEF BuildImage, Goto, TpchTypeOK, Outside
<1>5. CASE OpenTransaction(j)
  BY <1>5 DEF OpenTransaction, Goto, TpchTypeOK, Outside
<1>6. CASE Run(j) /\ ~Raise(j)
  <2>1. PICK b \in [OutputSet -> Body] : body' = [body EXCEPT ![j] = b]
    BY <1>6 DEF Run
  <2>2. /\ ran' = [ran EXCEPT ![j] = verified[j]] /\ Goto(j, "ran")
        /\ UNCHANGED <<seen, rebuilt, verified, home, root, fds, index, staged, sid, owned,
                       undo, aside, kept, checked, settled, worldVars>>
    BY <1>6 DEF Run
  <2> QED
    BY <2>1, <2>2 DEF Goto, TpchTypeOK, Outside
<1>7. CASE DuplicateDescriptors(j)
  BY <1>7 DEF DuplicateDescriptors, Goto, TpchTypeOK, Outside
<1>8. CASE LinkStaged(j)
  BY <1>8 DEF LinkStaged, Goto, TpchTypeOK, Outside
<1>9. CASE StatStaged(j) /\ ~Raise(j)
  <2>1. /\ sid' = [sid EXCEPT ![j] = staged[j]] /\ Goto(j, "staging")
        /\ UNCHANGED <<seen, rebuilt, verified, ran, home, root, body, fds, index, staged,
                       owned, undo, aside, kept, checked, settled, worldVars>>
    BY <1>9 DEF StatStaged
  <2> QED
    BY <2>1 DEF Goto, TpchTypeOK, Outside
<1>10. CASE VerifyStagedOutput(j) /\ ~Raise(j)
  <2>1. /\ checked' = [checked EXCEPT ![j] = checked[j] \cup {Item(j)}] /\ Goto(j, "renaming")
        /\ UNCHANGED <<seen, rebuilt, verified, ran, home, root, body, fds, index,
                       staged, sid, owned, undo, aside, kept, settled, worldVars>>
    BY <1>10 DEF VerifyStagedOutput
  <2> QED
    BY <2>1 DEF Goto, TpchTypeOK, Outside
<1>11. CASE RenameStaged(j) /\ ~Raise(j)
  <2>1. /\ staged' = [staged EXCEPT ![j] = None]
        /\ owned' = [owned EXCEPT ![j] = [owned[j] EXCEPT ![Item(j)] = sid[j]]]
        /\ sid' = [sid EXCEPT ![j] = None]
        /\ index' = [index EXCEPT ![j] = IF index[j] < Len(Outputs) THEN index[j] + 1 ELSE index[j]]
        /\ Goto(j, IF index[j] < Len(Outputs) THEN "checking" ELSE "closing")
        /\ UNCHANGED <<seen, rebuilt, verified, ran, home, root, body, fds, undo, aside,
                       kept, checked, settled, late, tag, current, genuine, placed, left, tampers>>
    BY <1>11 DEF RenameStaged
  <2> QED
    BY <2>1 DEF Goto, TpchTypeOK, Outside
<1>12. CASE CloseTransaction(j)
  <2>1. undo'[k] = undo[k] /\ pc'[k] = pc[k]
    BY <1>12 DEF CloseTransaction, Goto, TpchTypeOK
  <2> QED
    BY <1>12, <2>1 DEF CloseTransaction, TpchTypeOK, Outside
<1>13. CASE VerifyFinalIdentities(j) /\ ~Raise(j)
  <2>1. /\ settled' = [settled EXCEPT ![j] = TRUE] /\ Goto(j, "binding")
        /\ UNCHANGED <<seen, rebuilt, verified, ran, home, root, body, fds, index, staged,
                       sid, owned, undo, aside, kept, checked, worldVars>>
    BY <1>13 DEF VerifyFinalIdentities
  <2> QED
    BY <2>1 DEF Goto, TpchTypeOK, Outside
<1>14. CASE Commit(j)
  <2>1. undo'[k] = undo[k] /\ pc'[k] = pc[k] /\ fds'[k] = fds[k]
    BY <1>14 DEF Commit, Goto, TpchTypeOK
  <2> QED
    BY <1>14, <2>1 DEF Commit, TpchTypeOK, Outside
<1>15. CASE RollbackEntry(j)
  <2>1. undo'[k] = undo[k] /\ pc'[k] = pc[k]
    BY <1>15 DEF RollbackEntry, Goto, TpchTypeOK, Undone
  <2> QED
    BY <1>15, <2>1 DEF RollbackEntry, TpchTypeOK, Outside
<1>16. CASE MoveAside(j)
  <2>1. undo'[k] = undo[k] /\ pc'[k] = pc[k]
    BY <1>16 DEF MoveAside, Goto, TpchTypeOK, Undone
  <2>2. aside'[k] = aside[k] /\ (kept[k] => kept'[k])
    BY <1>16 DEF MoveAside, TpchTypeOK
  <2>3. staged'[k] = staged[k]
    BY <1>16 DEF MoveAside, TpchTypeOK, SetEntry
  <2> QED
    BY <1>16, <2>1, <2>2, <2>3 DEF MoveAside, Outside
<1>17. CASE Judge(j)
  <2>1. undo'[k] = undo[k] /\ pc'[k] = pc[k] /\ aside'[k] = aside[k]
    BY <1>17 DEF Judge, Goto, TpchTypeOK, Undone
  <2>2. staged'[k] = staged[k]
    BY <1>17 DEF Judge, TpchTypeOK, SetEntry
  <2> QED
    BY <1>17, <2>1, <2>2 DEF Judge, Outside
<1>18. CASE ReleaseAfterRollback(j)
  BY <1>18 DEF ReleaseAfterRollback, Goto, TpchTypeOK, Outside
<1>19. CASE CleanUp(j)
  BY <1>19 DEF CleanUp, Goto, TpchTypeOK, Outside
<1>20. CASE StatFails(j)
  BY <1>20 DEF StatFails, Goto, TpchTypeOK, Outside
<1> QED
  BY <1>1, <1>2, <1>3, <1>4, <1>5, <1>6, <1>7, <1>8, <1>9, <1>10, <1>11, <1>12, <1>13, <1>14,
     <1>15, <1>16, <1>17, <1>18, <1>19, <1>20, PlainSteps
  DEF JobStep, EnsureImage, Generate, Publish, TakeBack

\* Only three steps of a job change what others see.
Quiet == UNCHANGED <<late, current, target, genuine, placed, left, tampers, aside>>

LEMMA QuietSteps ==
  ASSUME NEW j \in Jobs, JobStep(j)
  PROVE  Quiet \/ (RenameStaged(j) /\ ~Raise(j)) \/ MoveAside(j) \/ Judge(j)
<1>1. CASE Moves(j)
  BY <1>1 DEF Moves, worldVars, Quiet
<1>2. CASE EnsureImage(j) /\ ~Begin(j)
  BY <1>2 DEF EnsureImage, InspectImage, ImageEvidence, BuildImage, worldVars, Quiet
<1>3. CASE OpenTransaction(j) \/ (Run(j) /\ ~Raise(j)) \/ DuplicateDescriptors(j) \/ LinkStaged(j)
  BY <1>3 DEF OpenTransaction, Run, DuplicateDescriptors, LinkStaged, worldVars, Quiet
<1>4. CASE (StatStaged(j) \/ VerifyStagedOutput(j) \/ VerifyFinalIdentities(j)) /\ ~Raise(j)
  BY <1>4 DEF StatStaged, VerifyStagedOutput, VerifyFinalIdentities, worldVars, Quiet
<1>5. CASE CloseTransaction(j) \/ Commit(j) \/ RollbackEntry(j) \/ ReleaseAfterRollback(j)
           \/ CleanUp(j) \/ StatFails(j)
  BY <1>5 DEF CloseTransaction, Commit, RollbackEntry, ReleaseAfterRollback, CleanUp, StatFails,
              worldVars, Quiet
<1> QED
  BY <1>1, <1>2, <1>3, <1>4, <1>5, PlainSteps DEF JobStep, EnsureImage, Generate, Publish, TakeBack

\* What the three steps do to the names.
LEMMA Renamed ==
  ASSUME TpchTypeOK, NEW j \in Jobs, RenameStaged(j), ~Raise(j)
  PROVE  /\ Item(j) \in OutputSet /\ target[home[j]][Item(j)] = None
         /\ staged[j] # None /\ staged[j] \in Inode /\ home[j] \in Dirs
         /\ \A d \in Dirs, o \in OutputSet :
                target'[d][o] = IF d = home[j] /\ o = Item(j) THEN staged[j] ELSE target[d][o]
         /\ \A o \in OutputSet : owned'[j][o] = IF o = Item(j) THEN sid[j] ELSE owned[j][o]
         /\ UNCHANGED <<home, late, aside, current, genuine, placed, left, tampers, body, kept,
                        checked, settled, undo, fds, verified, ran>>
         /\ pc[j] = "renaming" /\ staged'[j] = None /\ sid'[j] = None
         /\ pc'[j] = IF index[j] < Len(Outputs) THEN "checking" ELSE "closing"
         /\ index'[j] = IF index[j] < Len(Outputs) THEN index[j] + 1 ELSE index[j]
<1>1. /\ target' = [target EXCEPT ![home[j]] = [target[home[j]] EXCEPT ![Item(j)] = staged[j]]]
      /\ staged' = [staged EXCEPT ![j] = None]
      /\ owned' = [owned EXCEPT ![j] = [owned[j] EXCEPT ![Item(j)] = sid[j]]]
      /\ sid' = [sid EXCEPT ![j] = None]
      /\ index' = [index EXCEPT ![j] = IF index[j] < Len(Outputs) THEN index[j] + 1 ELSE index[j]]
      /\ Goto(j, IF index[j] < Len(Outputs) THEN "checking" ELSE "closing")
      /\ UNCHANGED <<home, late, aside, current, genuine, placed, left, tampers, body, kept,
                     checked, settled, undo, fds, verified, ran>>
      /\ target[home[j]][Item(j)] = None /\ staged[j] # None /\ pc[j] = "renaming"
  BY DEF RenameStaged, Put
<1>2. Item(j) \in OutputSet
  BY Sizes DEF Item, TpchTypeOK
<1>3. staged[j] \in Inode /\ home[j] \in Dirs
  BY <1>1 DEF TpchTypeOK
<1> DEFINE row == [target[home[j]] EXCEPT ![Item(j)] = staged[j]]
           record == [owned[j] EXCEPT ![Item(j)] = sid[j]]
<1>4. /\ \A o \in OutputSet : row[o] = IF o = Item(j) THEN staged[j] ELSE target[home[j]][o]
      /\ \A o \in OutputSet : record[o] = IF o = Item(j) THEN sid[j] ELSE owned[j][o]
  BY <1>2, <1>3 DEF TpchTypeOK
<1>5. target' = [target EXCEPT ![home[j]] = row] /\ owned' = [owned EXCEPT ![j] = record]
  BY <1>1
<1> HIDE DEF row, record
<1>6. /\ \A d \in Dirs, o \in OutputSet :
            target'[d][o] = IF d = home[j] /\ o = Item(j) THEN staged[j] ELSE target[d][o]
      /\ \A o \in OutputSet : owned'[j][o] = IF o = Item(j) THEN sid[j] ELSE owned[j][o]
  BY <1>3, <1>4, <1>5 DEF TpchTypeOK
<1>7. /\ staged'[j] = None /\ sid'[j] = None
      /\ pc'[j] = IF index[j] < Len(Outputs) THEN "checking" ELSE "closing"
      /\ index'[j] = IF index[j] < Len(Outputs) THEN index[j] + 1 ELSE index[j]
  BY <1>1 DEF TpchTypeOK, Goto
<1> QED
  BY <1>1, <1>2, <1>3, <1>6, <1>7

\* A file in hand, and a name that could not be moved.
Takes(j, n) ==
    /\ Entry(j, n) \in Inode
    /\ aside' = [aside EXCEPT ![j] = [name |-> n, file |-> Entry(j, n)]]
    /\ SetEntry(j, n, None)
    /\ pc'[j] = "judging" /\ undo' = undo
    /\ \A k \in Jobs : kept'[k] = (kept[k] \/ (k # j /\ Entry(j, n) = k))

Skips(j, n) ==
    /\ kept'[j] /\ pc'[j] = "rollback" /\ undo'[j] = undo[j] \ {n}
    /\ UNCHANGED <<aside, target, late, staged>>

LEMMA MovedAside ==
  ASSUME TpchTypeOK, NEW j \in Jobs, JobInv(j), MoveAside(j)
  PROVE  /\ Newest(j) \in undo[j] /\ Newest(j) \in 0..Len(Outputs)
         /\ Takes(j, Newest(j)) \/ Skips(j, Newest(j))
         /\ pc[j] = "moving" /\ aside[j] = Nothing
         /\ UNCHANGED <<home, current, genuine, placed, left, tampers, body, checked, settled, fds,
                        verified, ran, sid, owned, index>>
<1>1. undo[j] # {} /\ undo[j] \in SUBSET (0..Len(Outputs)) /\ aside[j] = Nothing
  BY DEF MoveAside, JobInv, InHand, TpchTypeOK
<1>2. Newest(j) \in undo[j] /\ Newest(j) \in 0..Len(Outputs)
  BY <1>1, NewestLeft
<1>3. Entry(j, Newest(j)) \in Inode \cup {None}
  <2>1. Newest(j) # 0 => Outputs[Newest(j)] \in OutputSet
    BY <1>2, Sizes
  <2> QED
    BY <1>2, <2>1 DEF Entry, TpchTypeOK
<1>4. Takes(j, Newest(j)) \/ Skips(j, Newest(j))
  <2>1. CASE /\ Entry(j, Newest(j)) # None
             /\ aside' = [aside EXCEPT ![j] = [name |-> Newest(j), file |-> Entry(j, Newest(j))]]
             /\ SetEntry(j, Newest(j), None)
             /\ Goto(j, "judging")
             /\ kept' = [k \in Jobs |-> kept[k] \/ (k # j /\ Entry(j, Newest(j)) = k)]
             /\ UNCHANGED undo
    <3>1. pc'[j] = "judging"
      BY <2>1 DEF Goto, TpchTypeOK
    <3> QED
      BY <1>3, <2>1, <3>1 DEF Takes
  <2>2. CASE /\ kept' = [kept EXCEPT ![j] = TRUE]
             /\ Undone(j) /\ Goto(j, "rollback")
             /\ UNCHANGED <<aside, target, late, staged>>
    <3>1. pc'[j] = "rollback" /\ kept'[j] /\ undo'[j] = undo[j] \ {Newest(j)}
      BY <2>2 DEF Goto, Undone, TpchTypeOK
    <3> QED
      BY <2>2, <3>1 DEF Skips
  <2> QED
    BY <2>1, <2>2 DEF MoveAside
<1> QED
  BY <1>1, <1>2, <1>4 DEF MoveAside

\* The three ends of what a cleanup has in hand.
Unlinks(j, n, f) == f = Recorded(j, n) /\ UNCHANGED <<target, late, staged, left>>
Restores(j, n, f) ==
    f # Recorded(j, n) /\ Entry(j, n) = None /\ SetEntry(j, n, f) /\ UNCHANGED left
Strands(j, n, f) ==
    f # Recorded(j, n) /\ left' = left \cup {f} /\ UNCHANGED <<target, late, staged>>

LEMMA Judged ==
  ASSUME TpchTypeOK, NEW j \in Jobs, JobInv(j), Judge(j)
  PROVE  /\ aside[j].name = Newest(j) /\ Newest(j) \in undo[j] /\ Newest(j) \in 0..Len(Outputs)
         /\ aside[j].file \in Inode
         /\ \/ Unlinks(j, aside[j].name, aside[j].file)
            \/ Restores(j, aside[j].name, aside[j].file)
            \/ Strands(j, aside[j].name, aside[j].file)
         /\ pc[j] = "judging" /\ pc'[j] = "rollback" /\ undo'[j] = undo[j] \ {Newest(j)}
         /\ aside'[j] = Nothing /\ \A i \in Jobs \ {j} : aside'[i] = aside[i]
         /\ UNCHANGED <<home, current, genuine, placed, tampers, body, checked, settled, fds,
                        verified, ran, sid, owned, kept, index>>
<1>1. /\ undo[j] # {} /\ undo[j] \in SUBSET (0..Len(Outputs)) /\ aside[j].name = Newest(j)
      /\ aside[j].file \in Inode
  BY DEF Judge, JobInv, InHand, TpchTypeOK
<1>2. Newest(j) \in undo[j] /\ Newest(j) \in 0..Len(Outputs)
  BY <1>1, NewestLeft
<1>3. \/ Unlinks(j, aside[j].name, aside[j].file)
      \/ Restores(j, aside[j].name, aside[j].file)
      \/ Strands(j, aside[j].name, aside[j].file)
  BY DEF Judge, Unlinks, Restores, Strands
<1>4. pc[j] = "judging" /\ pc'[j] = "rollback" /\ undo'[j] = undo[j] \ {Newest(j)}
  BY DEF Judge, Goto, Undone, TpchTypeOK
<1>5. aside'[j] = Nothing /\ \A i \in Jobs \ {j} : aside'[i] = aside[i]
  BY DEF Judge, TpchTypeOK
<1> QED
  BY <1>1, <1>2, <1>3, <1>4, <1>5 DEF Judge

\* A step of one job is no more than an interference to another.
LEMMA OthersInterfered ==
  ASSUME TpchTypeOK, TpchTypeOK', NEW j \in Jobs, JobInv(j), JobStep(j), NEW k \in Jobs \ {j},
         JobInv(k)
  PROVE  Interferes(k)
<1>1. /\ staged'[k] = staged[k] /\ body'[k] = body[k] /\ home'[k] = home[k]
  BY OthersKept DEF Outside
<1>2. tampers \in Nat /\ home \in [Jobs -> Dirs] /\ late \in [Jobs -> SUBSET OutputSet]
  BY DEF TpchTypeOK
<1>3. CASE Quiet
  BY <1>1, <1>2, <1>3 DEF Quiet, Interferes
<1>4. CASE RenameStaged(j) /\ ~Raise(j)
  <2>1. staged[j] # k
    <3>1. staged[j] \in {j, None} \cup (1..tampers) /\ tampers \in 0..MaxTampers
      BY DEF JobInv, Recording, Own, TpchTypeOK
    <3>2. staged[j] \in {j, None} \cup (1..MaxTampers)
      BY <3>1, Sizes
    <3> QED
      BY <3>2, Sizes
  <2>2. \A d \in Dirs, o \in OutputSet : target'[d][o] = k => target[d][o] = k
    BY <1>4, <2>1, Renamed
  <2>3. \A o \in OutputSet :
           target[home[k]][o] = None \/ target'[home[k]][o] = target[home[k]][o]
    BY <1>2, <1>4, Renamed
  <2>4. UNCHANGED <<late, aside, current, genuine, tampers>>
    BY <1>4, Renamed
  <2> QED
    BY <1>1, <1>2, <2>2, <2>3, <2>4 DEF Interferes
<1>5. ASSUME NEW n \in 0..Len(Outputs), NEW f \in Inode \cup {None}, SetEntry(j, n, f)
      PROVE  /\ late[k] \subseteq late'[k]
             /\ \A d \in Dirs, o \in OutputSet : target'[d][o] = k => target[d][o] = k \/ f = k
             /\ settled[k] => \A o \in OutputSet :
                    o \in late'[k] \/ target'[home[k]][o] = target[home[k]][o]
  <2>1. /\ n = 0 => UNCHANGED <<target, late>>
        /\ n # 0 => \A i \in Jobs : late'[i] = IF settled[i] /\ home[i] = home[j]
                                                   THEN late[i] \cup {Outputs[n]} ELSE late[i]
        /\ \A d \in Dirs, o \in OutputSet :
                target'[d][o] = IF n # 0 /\ d = home[j] /\ o = Outputs[n] THEN f ELSE target[d][o]
    <3>1. n = 0 => UNCHANGED <<target, late>>
      BY <1>5, EntrySet
    <3>2. n # 0 => \A i \in Jobs : late'[i] = IF settled[i] /\ home[i] = home[j]
                                             THEN late[i] \cup {Outputs[n]} ELSE late[i]
      BY <1>5, EntrySet
    <3>3. \A d \in Dirs, o \in OutputSet :
              target'[d][o] = IF n # 0 /\ d = home[j] /\ o = Outputs[n] THEN f ELSE target[d][o]
      BY <1>5, EntrySet
    <3> QED
      BY <3>1, <3>2, <3>3
  <2> QED
    BY <1>2, <2>1
<1>6. CASE MoveAside(j)
  <2>1. UNCHANGED <<current, genuine, tampers>>
    BY <1>6, MovedAside
  <2>2. CASE Takes(j, Newest(j))
    <3>1. Newest(j) \in 0..Len(Outputs) /\ SetEntry(j, Newest(j), None)
      BY <1>6, <2>2, MovedAside DEF Takes
    <3>2. k # None
      BY Sizes
    <3>3. \A i \in Jobs : aside'[i].file = k => aside[i].file = k \/ kept'[k]
      BY <2>2 DEF Takes, TpchTypeOK
    <3>4. /\ late[k] \subseteq late'[k]
          /\ \A d \in Dirs, o \in OutputSet : target'[d][o] = k => target[d][o] = k
          /\ settled[k] => \A o \in OutputSet :
                    o \in late'[k] \/ target'[home[k]][o] = target[home[k]][o]
      BY <1>5, <3>1, <3>2
    <3> QED
      BY <1>1, <1>2, <2>1, <3>3, <3>4 DEF Interferes
  <2>3. CASE Skips(j, Newest(j))
    BY <1>1, <1>2, <2>1, <2>3 DEF Skips, Interferes
  <2> QED
    BY <1>6, <2>2, <2>3, MovedAside
<1>7. CASE Judge(j)
  <2>1. /\ UNCHANGED <<current, genuine, tampers>>
        /\ \A i \in Jobs : aside'[i].file = k => aside[i].file = k
    <3>1. k # None
      BY Sizes
    <3> QED
      BY <1>7, <3>1, Judged DEF Nothing
  <2>2. CASE Unlinks(j, aside[j].name, aside[j].file) \/ Strands(j, aside[j].name, aside[j].file)
    BY <1>1, <1>2, <2>1, <2>2 DEF Unlinks, Strands, Interferes
  <2>3. CASE Restores(j, aside[j].name, aside[j].file)
    <3>1. aside[j].file # k \/ kept'[k]
      BY <1>7, Judged DEF JobInv, Located
    <3>2. aside[j].name \in 0..Len(Outputs) /\ aside[j].file \in Inode \cup {None}
      BY DEF TpchTypeOK
    <3>3. /\ late[k] \subseteq late'[k]
          /\ \A d \in Dirs, o \in OutputSet : target'[d][o] = k => target[d][o] = k \/ aside[j].file = k
          /\ settled[k] => \A o \in OutputSet :
                    o \in late'[k] \/ target'[home[k]][o] = target[home[k]][o]
      BY <1>5, <2>3, <3>2 DEF Restores
    <3> QED
      BY <1>1, <1>2, <2>1, <3>1, <3>3 DEF Interferes
  <2> QED
    BY <1>7, <2>2, <2>3, Judged
<1> QED
  BY <1>3, <1>4, <1>6, <1>7, QuietSteps

\* Nor is what other programs do.
LEMMA TamperInterferes ==
  ASSUME TpchTypeOK, Tamper, NEW k \in Jobs
  PROVE  Outside(k) /\ Interferes(k)
<1>1. tampers \in Nat /\ tampers' = tampers + 1 /\ k # None /\ tampers + 1 # k
      /\ late \in [Jobs -> SUBSET OutputSet] /\ home[k] \in Dirs
  BY Sizes DEF Tamper, TpchTypeOK
<1>2. UNCHANGED <<pc, verified, ran, home, fds, index, sid, owned, undo, aside, kept, checked, settled>>
  BY DEF Tamper, Retag, ReplaceDirectory, ReplaceFile, Rewrite, jobVars
<1>3. Outside(k)
  BY <1>2 DEF Outside
<1>4. tampers <= tampers'
  BY <1>1
<1>5. CASE Retag
  <2>1. UNCHANGED <<staged, body, aside, target, genuine, kept, late, current>>
    BY <1>5 DEF Retag, jobVars
  <2> QED
    BY <1>3, <1>4, <2>1 DEF Interferes
<1>6. CASE ReplaceDirectory
  <2>1. UNCHANGED <<staged, body, aside, target, genuine, kept>>
    BY <1>6 DEF ReplaceDirectory
  <2>2. /\ late[k] \subseteq late'[k]
        /\ pc[k] \in {"committing", "committed"} => current' = current \/ late'[k] = OutputSet
    BY <1>1, <1>6 DEF ReplaceDirectory
  <2> QED
    BY <1>3, <1>4, <2>1, <2>2 DEF Interferes
<1>7. CASE ReplaceFile
  <2>1. UNCHANGED <<body, aside, kept, current>>
    BY <1>7 DEF ReplaceFile
  <2>2. CASE \E d \in Dirs, o \in OutputSet, g \in {None, tampers + 1} :
                Put(d, o, g) /\ Touch(d, o) /\ UNCHANGED <<staged, genuine>>
    <3>1. PICK d \in Dirs, o \in OutputSet, g \in {None, tampers + 1} :
                Put(d, o, g) /\ Touch(d, o) /\ UNCHANGED <<staged, genuine>>
      BY <2>2
    <3>2. late'[k] = IF settled[k] /\ home[k] = d THEN late[k] \cup {o} ELSE late[k]
      BY <3>1 DEF Touch
    <3>3. \A e \in Dirs, p \in OutputSet :
              target'[e][p] = IF e = d /\ p = o THEN g ELSE target[e][p]
      <4> DEFINE row == [target[d] EXCEPT ![o] = g]
      <4>1. /\ target \in [Dirs -> [OutputSet -> Inode \cup {None}]]
            /\ \A p \in OutputSet : row[p] = IF p = o THEN g ELSE target[d][p]
        BY DEF TpchTypeOK
      <4>2. target' = [target EXCEPT ![d] = row]
        BY <3>1 DEF Put
      <4> HIDE DEF row
      <4> QED
        BY <4>1, <4>2
    <3>4. g # k
      BY <1>1
    <3>5. \A e \in Dirs, p \in OutputSet : target'[e][p] = k => target[e][p] = k
      BY <3>3, <3>4
    <3>6. settled[k] => \A p \in OutputSet :
              p \in late'[k] \/ target'[home[k]][p] = target[home[k]][p]
      BY <1>1, <3>2, <3>3
    <3>7. late[k] \subseteq late'[k]
      BY <3>2
    <3> QED
      BY <1>3, <1>4, <2>1, <3>1, <3>5, <3>6, <3>7 DEF Interferes
  <2>3. CASE /\ \E j \in Jobs, g \in {None, tampers + 1} :
                  /\ staged' = [staged EXCEPT ![j] = g]
                  /\ genuine' \in {genuine, genuine \cup ({g} \ {None})}
             /\ UNCHANGED <<target, late>>
    <3>1. staged'[k] = staged[k] \/ staged'[k] = None \/ staged'[k] = tampers + 1
      BY <2>3 DEF TpchTypeOK
    <3>2. genuine \subseteq genuine' /\ tampers + 1 \in tampers + 1 .. tampers'
      BY <1>1, <2>3
    <3> QED
      BY <1>3, <1>4, <2>1, <2>3, <3>1, <3>2 DEF Interferes
  <2> QED
    BY <1>7, <2>2, <2>3 DEF ReplaceFile
<1>8. CASE Rewrite
  <2>1. PICK j \in Jobs, o \in OutputSet :
        /\ body' = [body EXCEPT ![j] = [body[j] EXCEPT ![o] = "other"]]
        /\ late' = [late EXCEPT ![j] = IF o \in checked[j] THEN late[j] \cup {o} ELSE late[j]]
    BY <1>8 DEF Rewrite
  <2>2. UNCHANGED <<staged, aside, target, genuine, kept, current>>
    BY <1>8 DEF Rewrite
  <2>3. late[k] \subseteq late'[k]
    BY <1>1, <2>1
  <2>4. \A p \in OutputSet : body'[k][p] = body[k][p] \/ p \notin checked[k] \/ p \in late'[k]
    <3>1. CASE j # k
      BY <2>1, <3>1 DEF TpchTypeOK
    <3>2. CASE j = k
      <4>1. body'[k] = [body[k] EXCEPT ![o] = "other"]
        BY <2>1, <3>2 DEF TpchTypeOK
      <4>2. \A p \in OutputSet : p # o => body'[k][p] = body[k][p]
        BY <4>1 DEF TpchTypeOK
      <4>3. o \in checked[k] => o \in late'[k]
        BY <1>1, <2>1, <3>2
      <4> QED
        BY <4>2, <4>3
    <3> QED
      BY <3>1, <3>2
  <2> QED
    BY <1>3, <1>4, <2>2, <2>3, <2>4 DEF Interferes
<1> QED
  BY <1>3, <1>5, <1>6, <1>7, <1>8 DEF Tamper

-----------------------------------------------------------------------------
(* What a job's own step preserves.                                         *)

LEMMA ProvedKept ==
  ASSUME TpchTypeOK, NEW j \in Jobs, JobInv(j), JobStep(j)
  PROVE  Proved(j)'
<1>1. /\ verified'[j] = verified[j] \/ verified'[j] \in Canonical
      /\ ran'[j] = ran[j] \/ ran'[j] = verified[j]
  <2>1. CASE UNCHANGED <<verified, ran>>
    BY <2>1
  <2>2. CASE ImageEvidence(j)
    BY <2>2 DEF ImageEvidence, EvidenceMatches, TpchTypeOK
  <2>3. CASE Run(j)
    BY <2>3 DEF Run, Raise, TpchTypeOK
  <2>4. CASE Moves(j)
    BY <2>4 DEF Moves
  <2> QED
    BY <2>1, <2>2, <2>3, <2>4, PlainSteps
    DEF JobStep, EnsureImage, Generate, Publish, TakeBack, InspectImage, BuildImage,
        OpenTransaction, DuplicateDescriptors, LinkStaged, StatStaged, VerifyStagedOutput,
        RenameStaged, CloseTransaction, VerifyFinalIdentities, Commit, RollbackEntry, MoveAside,
        Judge, ReleaseAfterRollback, CleanUp, StatFails
<1> QED
  BY <1>1 DEF JobInv, Proved

LEMMA HeldKept ==
  ASSUME TpchTypeOK, NEW j \in Jobs, JobInv(j), JobStep(j)
  PROVE  Held(j)'
<1>1. Held(j) /\ pc \in [Jobs -> Point] /\ fds \in [Jobs -> SUBSET (Transaction \cup Publication)]
  BY DEF JobInv, TpchTypeOK, Point, Early, Publishing, Published, Undoing, Ended
<1>2. Transaction \cap Publication = {} /\ "pub.rollback" \in Publication
  BY DEF Transaction, Publication
<1>3. CASE Raise(j)
  <2>1. fds'[j] = fds[j] /\ pc'[j] = IF fds[j] \cap Publication # {} THEN "rollback" ELSE "cleaning"
    BY <1>1, <1>3 DEF Raise, Goto
  <2> QED
    BY <2>1 DEF Held, Ended, Publishing, Published
<1>4. CASE EnsureImage(j)
  <2>1. fds'[j] = fds[j] /\ fds[j] = {}
    BY <1>1, <1>4
    DEF EnsureImage, Begin, InspectImage, ImageEvidence, BuildImage, Held
  <2>2. pc'[j] \in {"inspecting", "cleaning", "probing", "building", "opening"}
    BY <1>1, <1>4 DEF EnsureImage, Begin, InspectImage, ImageEvidence, BuildImage, Goto
  <2> QED
    BY <2>1, <2>2 DEF Held, Publishing, Published
<1>5. CASE (Generate(j) \/ Publish(j)) /\ ~Raise(j) /\ ~CloseTransaction(j) /\ ~Commit(j)
           /\ ~DuplicateDescriptors(j)
  <2>1. \/ pc'[j] \in {"running", "ran", "verifying", "duplicating"}
        \/ pc[j] \in Publishing \cup Published /\ fds'[j] = fds[j] /\ pc'[j] \in Publishing \cup Published
    <3>1. CASE OpenTransaction(j) \/ Run(j) \/ VerifyBindings(j) \/ VerifyTpchOutputs(j)
      BY <1>1, <1>5, <3>1
      DEF OpenTransaction, Run, VerifyBindings, VerifyTpchOutputs, Require, Goto
    <3>2. CASE CheckStaging(j) \/ LinkStaged(j) \/ StatStaged(j) \/ VerifyStagedOutput(j)
      <4>1. pc[j] \in Publishing /\ fds' = fds
        BY <1>5, <3>2
        DEF CheckStaging, LinkStaged, StatStaged, VerifyStagedOutput, Require, Publishing
      <4>2. \E p \in Publishing : Goto(j, p)
        BY <1>5, <3>2
        DEF CheckStaging, LinkStaged, StatStaged, VerifyStagedOutput, Require, Publishing
      <4> QED
        BY <1>1, <4>1, <4>2 DEF Goto
    <3>3. CASE RenameStaged(j)
      BY <1>5, <3>3, Renamed DEF Publishing, Published
    <3>4. CASE VerifyFinalIdentities(j) \/ VerifyDestinationBinding(j)
      <4>1. pc[j] \in Published /\ fds' = fds
        BY <1>5, <3>4 DEF VerifyFinalIdentities, VerifyDestinationBinding, Require, Published
      <4>2. \E p \in Published : Goto(j, p)
        BY <1>5, <3>4 DEF VerifyFinalIdentities, VerifyDestinationBinding, Require, Published
      <4> QED
        BY <1>1, <4>1, <4>2 DEF Goto
    <3> QED
      BY <1>5, <3>1, <3>2, <3>3, <3>4 DEF Generate, Publish
  <2> QED
    BY <1>1, <2>1 DEF Held, Publishing, Published, Ended
<1>6. CASE DuplicateDescriptors(j)
  BY <1>1, <1>6 DEF DuplicateDescriptors, Goto, Held, Publishing, Published, Ended
<1>7. CASE CloseTransaction(j)
  <2>1. pc'[j] \in {"final", "rollback"} /\ Publication \subseteq fds'[j]
    BY <1>1, <1>2, <1>7 DEF CloseTransaction, Goto, Held, Published
  <2> QED
    BY <2>1 DEF Held, Ended, Publishing, Published
<1>8. CASE Commit(j)
  <2>1. (pc'[j] = "committed" /\ fds'[j] = {}) \/ pc'[j] = "rollback"
    BY <1>1, <1>8 DEF Commit, Goto
  <2> QED
    BY <2>1 DEF Held, Publishing, Published, Ended
<1>9. CASE RollbackEntry(j) \/ MoveAside(j) \/ Judge(j) \/ StatFails(j)
  <2>1. pc'[j] \in Undoing \cup {"releasing"}
    BY <1>1, <1>9 DEF RollbackEntry, MoveAside, Judge, StatFails, Goto, Undoing
  <2> QED
    BY <2>1 DEF Held, Publishing, Published, Ended, Undoing
<1>10. CASE ReleaseAfterRollback(j)
  BY <1>1, <1>10 DEF ReleaseAfterRollback, Goto, Held, Publishing, Published, Ended
<1>11. CASE CleanUp(j)
  <2>1. pc'[j] = "failed" /\ fds'[j] = {}
    BY <1>1, <1>11 DEF CleanUp, Goto, Held
  <2> QED
    BY <2>1 DEF Held, Publishing, Published, Ended
<1> QED
  BY <1>3, <1>4, <1>5, <1>6, <1>7, <1>8, <1>9, <1>10, <1>11 DEF JobStep, TakeBack, Fails

\* A job that publishes nothing yet goes on, or ends without anything to take
\* back.
LEMMA EarlyKept ==
  ASSUME TpchTypeOK, NEW j \in Jobs, JobInv(j),
         pc[j] \in Early, pc'[j] \in Early \cup {"checking", "cleaning"},
         UNCHANGED <<index, staged, sid, owned, undo, aside, kept, checked, settled, late,
                     current, target, genuine, placed, left, tampers>>,
         home'[j] \in Dirs
  PROVE  Recording(j)' /\ InHand(j)' /\ Located(j)' /\ Checked(j)' /\ LastLook(j)'
<1>1. /\ sid[j] = None /\ index[j] = 1 /\ \A o \in OutputSet : owned[j][o] = None
      /\ aside[j] = Nothing /\ ~settled[j] /\ (staged[j] = j => kept[j])
      /\ staged[j] \in Own(j) /\ j # None
  <2>1. pc[j] # "stating" /\ pc[j] # "judging" /\ pc[j] \notin Undoing \cup Past
    BY DEF Early, Undoing, Past
  <2> QED
    BY <2>1, Sizes DEF JobInv, Recording, InHand, LastLook
<1>2. /\ pc'[j] \notin Undoing \cup Published \cup {"committed", "staging", "renaming"}
      /\ pc'[j] \notin {"stating", "moving", "judging", "binding", "rebinding", "committing", "committed"}
  BY DEF Early, Undoing, Published
<1>3. Recording(j)' /\ InHand(j)'
  <2>1. aside'[j] = Nothing /\ Nothing.file \in Own(j)'
    BY <1>1 DEF Nothing, Own
  <2>2. InHand(j)'
    BY <1>2, <2>1 DEF InHand
  <2>3. Recording(j)'
    BY <1>1, <1>2 DEF Recording, Own
  <2> QED
    BY <2>2, <2>3
<1>4. Located(j)'
  <2> SUFFICES ASSUME ~kept[j] PROVE Located(j)'
    BY DEF Located
  <2>1. /\ \A d \in Dirs, o \in OutputSet : target[d][o] # j
        /\ \A k \in Jobs : aside[k].file # j
        /\ staged[j] # j
    BY <1>1 DEF JobInv, Located, Nothing
  <2> QED
    BY <1>2, <2>1 DEF Located
<1>5. Checked(j)' /\ LastLook(j)'
  BY <1>1, <1>2 DEF Checked, LastLook
<1> QED
  BY <1>3, <1>4, <1>5

\* A job that turns back knows every name its file has.
LEMMA TurnedKept ==
  ASSUME TpchTypeOK, NEW j \in Jobs, JobInv(j),
         pc[j] \in Early \cup Publishing \cup Published,
         pc'[j] \in {"rollback", "cleaning"}, pc'[j] = "cleaning" => pc[j] \in Early,
         undo'[j] = Links(j), kept[j] => kept'[j],
         UNCHANGED <<home, body, index, staged, sid, owned, aside, checked, settled, late,
                     current, target, genuine, placed, left, tampers>>
  PROVE  Recording(j)' /\ InHand(j)' /\ Located(j)' /\ Checked(j)' /\ LastLook(j)'
<1>1. /\ pc[j] \notin {"moving", "judging"}
      /\ pc'[j] \notin {"checking", "linking", "stating", "staging", "renaming", "committed",
                        "closing", "final", "binding", "rebinding", "committing", "moving", "judging"}
      /\ pc'[j] \notin Early
  BY DEF Early, Publishing, Published
<1>2. aside[j] = Nothing /\ j # None /\ home[j] \in Dirs
  BY <1>1, Sizes DEF JobInv, InHand, TpchTypeOK
<1>3. Recording(j)' /\ InHand(j)'
  <2>1. Recording(j)
    BY DEF JobInv
  <2>2. aside'[j] = Nothing /\ Nothing.file \in Own(j)'
    BY <1>2 DEF Nothing, Own
  <2>3. InHand(j)'
    BY <1>1, <2>2 DEF InHand, Links, Recorded
  <2>4. Recording(j)'
    BY <1>1, <2>1 DEF Recording, Own, Published, Undoing, Past
  <2> QED
    BY <2>3, <2>4
<1>4. Located(j)'
  <2> SUFFICES ASSUME ~kept'[j] PROVE Located(j)'
    BY DEF Located
  <2>1. /\ \A d \in Dirs, o \in OutputSet : target[d][o] = j => d = home[j] /\ owned[j][o] = j
        /\ \A k \in Jobs : aside[k].file # j
    BY <1>2 DEF JobInv, Located, Nothing
  <2>2. staged[j] = j => sid[j] = j \/ sid[j] = None
    BY DEF JobInv, Recording
  <2>3. staged[j] = j => sid[j] = None \/ 0 \in Links(j)
    BY <1>2, <2>2, Sizes DEF Links, Recorded
  <2>4. ASSUME NEW o \in OutputSet, target[home[j]][o] = j
        PROVE  \E n \in Links(j) : n # 0 /\ Outputs[n] = o
    <3>1. owned[j][o] = j
      BY <1>2, <2>1, <2>4
    <3>2. PICK n \in 1..Len(Outputs) : Outputs[n] = o
      BY Sizes
    <3>3. n \in 0..Len(Outputs) /\ n # 0
      BY Sizes
    <3>4. n \in Links(j)
      BY <1>2, <3>1, <3>2, <3>3 DEF Links, Recorded
    <3> QED
      BY <3>2, <3>3, <3>4
  <2>5. pc[j] \in Early =>
            (staged[j] = j => sid[j] = None) /\ \A o \in OutputSet : target[home[j]][o] # j
    BY <1>2, <2>1, <2>2 DEF JobInv, Recording
  <2>6. pc'[j] \in Undoing =>
               /\ staged'[j] = j => sid'[j] = None \/ 0 \in undo'[j]
               /\ \A o \in OutputSet : target'[home'[j]][o] = j =>
                      \E n \in undo'[j] : n # 0 /\ Outputs[n] = o
    BY <2>3, <2>4
  <2>7. pc'[j] \in Past =>
            (staged'[j] = j => sid'[j] = None) /\ \A o \in OutputSet : target'[home'[j]][o] # j
    BY <2>5 DEF Past
  <2> QED
    BY <1>1, <2>1, <2>6, <2>7 DEF Located
<1>5. Checked(j)'
  <2>1. Checked(j)
    BY DEF JobInv
  <2> QED
    BY <1>1, <2>1 DEF Checked, Sure, Locked, Publishing, Published
<1>6. LastLook(j)'
  <2>1. LastLook(j)
    BY DEF JobInv
  <2> QED
    BY <1>1, <2>1 DEF LastLook, Publishing
<1> QED
  BY <1>3, <1>4, <1>5, <1>6

LEMMA RaiseKept ==
  ASSUME TpchTypeOK, NEW j \in Jobs, JobInv(j), pc[j] \in Early \cup Publishing \cup Published,
         Raise(j), pc[j] = "stating" => staged[j] # j
  PROVE  Recording(j)' /\ InHand(j)' /\ Located(j)' /\ Checked(j)' /\ LastLook(j)'
<1>1. /\ pc'[j] = IF fds[j] \cap Publication # {} THEN "rollback" ELSE "cleaning"
      /\ undo'[j] = Links(j)
  BY DEF Raise, Goto, TpchTypeOK
<1>2. pc'[j] = "cleaning" => pc[j] \in Early
  BY <1>1 DEF JobInv, Held, Publication
<1>3. UNCHANGED <<home, body, index, staged, sid, owned, aside, kept, checked, settled, late,
                  current, target, genuine, placed, left, tampers>>
  BY DEF Raise, worldVars
<1>4. pc'[j] \in {"rollback", "cleaning"}
  BY <1>1
<1> QED
  BY <1>1, <1>2, <1>3, <1>4, TurnedKept

\* A job that goes on from the last of its looks, or to the first link.
LEMMA OnwardKept ==
  ASSUME TpchTypeOK, NEW j \in Jobs, JobInv(j),
         \/ pc[j] = "checking" /\ pc'[j] = "linking"
         \/ pc[j] = "closing" /\ pc'[j] = "final"
         \/ pc[j] = "final" /\ pc'[j] = "binding" /\ settled'[j]
            /\ \A o \in OutputSet : target[home[j]][o] = owned[j][o]
         \/ pc[j] = "binding" /\ pc'[j] = "rebinding"
         \/ pc[j] = "rebinding" /\ pc'[j] = "committing" /\ current = home[j]
         \/ pc[j] = "committing" /\ pc'[j] = "committed",
         pc[j] # "final" => settled'[j] = settled[j],
         UNCHANGED <<home, body, index, staged, sid, owned, undo, aside, kept, checked, late,
                     current, target, genuine, placed, left, tampers>>
  PROVE  Recording(j)' /\ InHand(j)' /\ Located(j)' /\ Checked(j)' /\ LastLook(j)'
<1>1. /\ pc'[j] \notin Early \cup Undoing \cup Past /\ pc'[j] \notin {"stating", "staging", "renaming"}
      /\ pc[j] \notin Early \cup Undoing \cup Past /\ pc[j] # "stating"
      /\ pc'[j] \in Published \cup {"committed"} <=> pc[j] \in Published
      /\ pc'[j] \in Publishing <=> pc[j] \in Publishing
      /\ pc[j] \in Published \cup {"checking"}
  BY DEF Early, Undoing, Past, Published, Publishing
<1>2. Recording(j)' /\ InHand(j)'
  <2>1. Recording(j) /\ InHand(j)
    BY DEF JobInv
  <2> QED
    BY <1>1, <2>1 DEF Recording, InHand, Own, Undoing
<1>3. Located(j)'
  <2>1. Located(j)
    BY DEF JobInv
  <2> QED
    BY <1>1, <2>1 DEF Located, Recorded, Undoing
<1>4. Checked(j)'
  <2>1. Checked(j)
    BY DEF JobInv
  <2> QED
    BY <1>1, <2>1 DEF Checked, Sure, Locked
<1>5. LastLook(j)'
  <2>1. LastLook(j) /\ (pc[j] \in Published => \A o \in OutputSet : owned[j][o] # None)
    BY DEF JobInv, Checked
  <2> QED
    BY <1>1, <2>1 DEF LastLook, Published, Publishing
<1> QED
  BY <1>2, <1>3, <1>4, <1>5

\* The four steps that publish one output.
LEMMA LinkKept ==
  ASSUME TpchTypeOK, NEW j \in Jobs, JobInv(j), LinkStaged(j)
  PROVE  Recording(j)' /\ InHand(j)' /\ Located(j)' /\ Checked(j)' /\ LastLook(j)'
<1>1. /\ pc[j] = "linking" /\ pc'[j] = "stating" /\ staged'[j] = j
      /\ UNCHANGED <<home, body, index, sid, owned, undo, aside, kept, checked, settled, late,
                     current, target, genuine, placed, left, tampers>>
  BY DEF LinkStaged, Goto, TpchTypeOK, worldVars
<1>2. Recording(j) /\ InHand(j) /\ Located(j) /\ Checked(j) /\ LastLook(j)
  BY DEF JobInv
<1>3. Recording(j)' /\ InHand(j)'
  BY <1>1, <1>2 DEF Recording, InHand, Own, Early, Published, Undoing, Past
<1>4. Located(j)'
  <2>1. aside[j] = Nothing /\ j # None
    BY <1>1, <1>2, Sizes DEF InHand
  <2>2. ~kept[j] => \A k \in Jobs : aside[k].file # j
    BY <1>2, <2>1 DEF Located, Nothing
  <2> QED
    BY <1>1, <1>2, <2>2 DEF Located, Undoing, Past
<1>5. Checked(j)' /\ LastLook(j)'
  BY <1>1, <1>2 DEF Checked, LastLook, Sure, Locked, Early, Publishing, Published
<1> QED
  BY <1>3, <1>4, <1>5

LEMMA StatKept ==
  ASSUME TpchTypeOK, NEW j \in Jobs, JobInv(j), StatStaged(j), ~Raise(j)
  PROVE  Recording(j)' /\ InHand(j)' /\ Located(j)' /\ Checked(j)' /\ LastLook(j)'
<1>1. /\ pc[j] = "stating" /\ staged[j] # None /\ sid' = [sid EXCEPT ![j] = staged[j]]
      /\ Goto(j, "staging")
      /\ UNCHANGED <<home, body, index, staged, owned, undo, aside, kept, checked, settled, late,
                     current, target, genuine, placed, left, tampers>>
  BY DEF StatStaged, worldVars
<1>2. pc'[j] = "staging" /\ sid'[j] = staged[j]
  BY <1>1 DEF Goto, TpchTypeOK
<1>3. Recording(j) /\ InHand(j) /\ Located(j) /\ Checked(j) /\ LastLook(j)
  BY DEF JobInv
<1>4. Recording(j)' /\ InHand(j)'
  BY <1>1, <1>2, <1>3 DEF Recording, InHand, Own, Early, Published
<1>5. Located(j)'
  <2>1. aside[j] = Nothing /\ j # None
    BY <1>1, <1>3, Sizes DEF InHand
  <2>2. ~kept[j] => \A k \in Jobs : aside[k].file # j
    BY <1>3, <2>1 DEF Located, Nothing
  <2> QED
    BY <1>1, <1>2, <1>3, <2>2 DEF Located, Undoing, Past
<1>6. Checked(j)' /\ LastLook(j)'
  BY <1>1, <1>2, <1>3 DEF Checked, LastLook, Sure, Locked, Early, Publishing, Published
<1> QED
  BY <1>4, <1>5, <1>6

LEMMA VerifyKept ==
  ASSUME TpchTypeOK, NEW j \in Jobs, JobInv(j), VerifyStagedOutput(j), ~Raise(j)
  PROVE  Recording(j)' /\ InHand(j)' /\ Located(j)' /\ Checked(j)' /\ LastLook(j)'
<1>1. /\ pc[j] = "staging" /\ Locked(Item(j), sid[j])
      /\ checked' = [checked EXCEPT ![j] = checked[j] \cup {Item(j)}]
      /\ Goto(j, "renaming")
      /\ UNCHANGED <<home, body, index, staged, sid, owned, undo, aside, kept, settled, late,
                     current, target, genuine, placed, left, tampers>>
  BY DEF VerifyStagedOutput, worldVars
<1>2. pc'[j] = "renaming" /\ checked'[j] = checked[j] \cup {Item(j)}
  BY <1>1 DEF Goto, TpchTypeOK
<1>3. Recording(j) /\ InHand(j) /\ Located(j) /\ Checked(j) /\ LastLook(j)
  BY DEF JobInv
<1>4. Recording(j)' /\ InHand(j)'
  BY <1>1, <1>2, <1>3 DEF Recording, InHand, Own, Early, Published, Undoing, Past
<1>5. Located(j)'
  BY <1>1, <1>2, <1>3 DEF Located, Recorded, Undoing, Past
<1>6. Checked(j)'
  <2>1. \A o, f : Sure(j, o, f) => Sure(j, o, f)'
    BY <1>1, <1>2 DEF Sure, Locked
  <2>2. Sure(j, Item(j), sid[j])'
    BY <1>1, <1>2 DEF Sure, Locked, Item
  <2> QED
    BY <1>1, <1>2, <1>3, <2>1, <2>2 DEF Checked, Publishing, Published
<1>7. LastLook(j)'
  BY <1>1, <1>2, <1>3 DEF LastLook, Early, Publishing
<1> QED
  BY <1>4, <1>5, <1>6, <1>7

LEMMA RenameKept ==
  ASSUME TpchTypeOK, NEW j \in Jobs, JobInv(j), RenameStaged(j), ~Raise(j)
  PROVE  Recording(j)' /\ InHand(j)' /\ Located(j)' /\ Checked(j)' /\ LastLook(j)'
<1>1. Recording(j) /\ InHand(j) /\ Located(j) /\ Checked(j) /\ LastLook(j)
  BY DEF JobInv
<1>2. /\ pc[j] = "renaming" /\ pc'[j] \in {"checking", "closing"}
      /\ staged'[j] = None /\ sid'[j] = None /\ Item(j) \in OutputSet /\ home[j] \in Dirs
      /\ \A o \in OutputSet : owned'[j][o] = IF o = Item(j) THEN sid[j] ELSE owned[j][o]
      /\ UNCHANGED <<home, late, aside, current, genuine, placed, left, tampers, body, kept,
                     checked, settled, undo>>
  BY Renamed
<1>3. j # None /\ sid[j] # None /\ aside[j] = Nothing
  BY <1>1, <1>2, Sizes DEF Checked, InHand
<1>4. /\ Recording(j)' /\ InHand(j)'
  BY <1>1, <1>2, <1>3 DEF Recording, InHand, Own, Early, Undoing, Past
<1>5. Located(j)'
  <2> SUFFICES ASSUME ~kept[j] PROVE Located(j)'
    BY <1>2 DEF Located
  <2>1. \A k \in Jobs : aside[k].file # j
    BY <1>1, <1>3 DEF Located, Nothing
  <2>2. \A d \in Dirs, o \in OutputSet : target[d][o] = j => d = home[j] /\ owned[j][o] = j
    BY <1>1 DEF Located
  <2>3. staged[j] = j => sid[j] = j
    BY <1>1, <1>2, <1>3 DEF Recording
  <2>4. \A d \in Dirs, o \in OutputSet :
                target'[d][o] = IF d = home[j] /\ o = Item(j) THEN staged[j] ELSE target[d][o]
    BY Renamed
  <2>5. \A d \in Dirs, o \in OutputSet : target'[d][o] = j => d = home'[j] /\ owned'[j][o] = j
    BY <1>2, <2>2, <2>3, <2>4
  <2> QED
    BY <1>2, <2>1, <2>5 DEF Located, Undoing, Past
<1>6. Checked(j)'
  <2>1. \A o \in OutputSet : owned'[j][o] # None => Sure(j, o, owned[j][o])'
    <3>1. \A o, f : Sure(j, o, f) => Sure(j, o, f)'
      BY <1>2 DEF Sure, Locked
    <3> QED
      BY <1>1, <1>2, <3>1 DEF Checked
  <2>2. index[j] \in 1..Len(Outputs) /\ Len(Outputs) \in Nat /\ Item(j) = Outputs[index[j]]
    BY Sizes DEF TpchTypeOK, Item
  <2>3. \A i \in 1..index[j] : owned'[j][Outputs[i]] # None
    <3> SUFFICES ASSUME NEW i \in 1..index[j] PROVE owned'[j][Outputs[i]] # None
      OBVIOUS
    <3>1. Outputs[i] \in OutputSet
      BY <2>2, Sizes
    <3>2. i # index[j] => owned[j][Outputs[i]] # None
      BY <1>1, <1>2, <2>2 DEF Checked, Publishing
    <3> QED
      BY <1>2, <1>3, <2>2, <3>1, <3>2
  <2>4. CASE index[j] < Len(Outputs)
    <3>1. pc'[j] = "checking" /\ index'[j] = index[j] + 1
      BY <2>4, Renamed
    <3>2. \A i \in 1 .. index'[j] - 1 : owned'[j][Outputs[i]] # None
      BY <2>2, <2>3, <3>1
    <3> QED
      BY <2>1, <3>1, <3>2 DEF Checked, Published
  <2>5. CASE ~(index[j] < Len(Outputs))
    <3>1. pc'[j] = "closing"
      BY <2>5, Renamed
    <3>2. ASSUME NEW o \in OutputSet PROVE owned'[j][o] # None
      <4>1. PICK i \in 1..Len(Outputs) : Outputs[i] = o
        BY Sizes
      <4>2. i \in 1..index[j]
        BY <2>2, <2>5
      <4> QED
        BY <2>3, <4>1, <4>2
    <3> QED
      BY <2>1, <3>1, <3>2 DEF Checked, Publishing
  <2> QED
    BY <2>4, <2>5
<1>7. LastLook(j)'
  BY <1>1, <1>2 DEF LastLook, Publishing
<1> QED
  BY <1>4, <1>5, <1>6, <1>7

\* A name that a rollback passes by, or has taken down, is not the job's.
LEMMA RollbackKept ==
  ASSUME TpchTypeOK, NEW j \in Jobs, JobInv(j), RollbackEntry(j)
  PROVE  Recording(j)' /\ InHand(j)' /\ Located(j)' /\ Checked(j)' /\ LastLook(j)'
<1>1. /\ pc[j] = "rollback"
      /\ UNCHANGED <<home, body, index, staged, sid, owned, aside, kept, checked, settled, late,
                     current, target, genuine, placed, left, tampers>>
  BY DEF RollbackEntry, worldVars
<1>2. \/ undo[j] = {} /\ undo' = undo /\ pc'[j] = "releasing"
      \/ /\ undo[j] # {} /\ Entry(j, Newest(j)) # Recorded(j, Newest(j))
         /\ undo'[j] = undo[j] \ {Newest(j)} /\ pc'[j] = "rollback"
      \/ undo[j] # {} /\ undo' = undo /\ pc'[j] = "moving"
  BY DEF RollbackEntry, Undone, Goto, TpchTypeOK
<1>3. Recording(j) /\ InHand(j) /\ Located(j) /\ Checked(j) /\ LastLook(j)
  BY DEF JobInv
<1>4. pc'[j] \in {"releasing", "rollback", "moving"}
  BY <1>2
<1>5. Recording(j)'
  BY <1>1, <1>3, <1>4 DEF Recording, Own, Early, Published, Undoing, Past
<1>6. InHand(j)'
  <2>1. (pc'[j] = "moving" => undo'[j] # {}) /\ undo'[j] \subseteq undo[j]
    BY <1>2
  <2> QED
    BY <1>1, <1>3, <1>4, <2>1 DEF InHand, Own, Undoing
<1>7. Located(j)'
  <2> SUFFICES ASSUME ~kept[j] PROVE Located(j)'
    BY <1>1 DEF Located
  <2>1. /\ \A d \in Dirs, o \in OutputSet : target[d][o] = j => d = home[j] /\ owned[j][o] = j
        /\ \A k \in Jobs : aside[k].file = j => k = j /\ Recorded(j, aside[j].name) = j
        /\ staged[j] = j => sid[j] = None \/ 0 \in undo[j]
        /\ \A o \in OutputSet : target[home[j]][o] = j => \E n \in undo[j] : n # 0 /\ Outputs[n] = o
    BY <1>1, <1>3 DEF Located, Undoing
  <2>2. /\ \A d \in Dirs, o \in OutputSet : target'[d][o] = j => d = home'[j] /\ owned'[j][o] = j
        /\ \A k \in Jobs : aside'[k].file = j => k = j /\ Recorded(j, aside[j].name)' = j
    BY <1>1, <2>1 DEF Recorded
  <2>3. CASE undo[j] = {} /\ pc'[j] = "releasing"
    BY <1>1, <2>1, <2>2, <2>3 DEF Located, Undoing
  <2>4. CASE undo' = undo /\ pc'[j] = "moving"
    BY <1>1, <2>1, <2>2, <2>4 DEF Located, Past
  <2>5. CASE /\ Entry(j, Newest(j)) # Recorded(j, Newest(j))
             /\ undo'[j] = undo[j] \ {Newest(j)} /\ pc'[j] = "rollback"
    <3>1. staged[j] = j => sid[j] = None \/ 0 # Newest(j)
      BY <1>1, <1>3, <2>5 DEF Entry, Recorded, Recording
    <3>2. ASSUME NEW o \in OutputSet, target[home[j]][o] = j
          PROVE  \E n \in undo'[j] : n # 0 /\ Outputs[n] = o
      <4>1. PICK n \in undo[j] : n # 0 /\ Outputs[n] = o
        BY <2>1, <3>2
      <4>2. home[j] \in Dirs
        BY DEF TpchTypeOK
      <4>3. owned[j][o] = j
        BY <2>1, <3>2, <4>2
      <4>4. n # Newest(j)
        BY <2>5, <3>2, <4>1, <4>3 DEF Entry, Recorded
      <4> QED
        BY <2>5, <4>1, <4>4
    <3> QED
      BY <1>1, <2>1, <2>2, <2>5, <3>1, <3>2 DEF Located, Past
  <2> QED
    BY <1>2, <2>3, <2>4, <2>5
<1>8. Checked(j)'
  BY <1>1, <1>3, <1>4 DEF Checked, Sure, Locked, Publishing, Published
<1>9. LastLook(j)'
  BY <1>1, <1>3, <1>4 DEF LastLook, Early, Publishing
<1> QED
  BY <1>5, <1>6, <1>7, <1>8, <1>9

\* What a cleanup changes in the destination is marked late for its own job too.
LEMMA CleanupLooks ==
  ASSUME TpchTypeOK, NEW j \in Jobs, Checked(j), LastLook(j), NEW n \in 0..Len(Outputs),
         NEW f \in Inode \cup {None}, SetEntry(j, n, f) \/ UNCHANGED <<target, late>>,
         pc[j] \in Undoing, pc'[j] \in Undoing,
         UNCHANGED <<home, body, index, sid, owned, checked, settled, current, genuine>>
  PROVE  Checked(j)' /\ LastLook(j)'
<1>1. late[j] \in SUBSET OutputSet /\ home[j] \in Dirs
  BY DEF TpchTypeOK
<1>2. /\ late[j] \subseteq late'[j]
      /\ settled[j] => \A o \in OutputSet :
             o \in late'[j] \/ target'[home[j]][o] = target[home[j]][o]
  <2>1. CASE UNCHANGED <<target, late>>
    BY <2>1
  <2>2. CASE SetEntry(j, n, f)
    <3>1. n = 0 => UNCHANGED <<target, late>>
      BY <2>2, EntrySet
    <3>2. n # 0 => \A i \in Jobs : late'[i] = IF settled[i] /\ home[i] = home[j]
                                             THEN late[i] \cup {Outputs[n]} ELSE late[i]
      BY <2>2, EntrySet
    <3>3. \A d \in Dirs, o \in OutputSet :
              target'[d][o] = IF n # 0 /\ d = home[j] /\ o = Outputs[n] THEN f ELSE target[d][o]
      BY <2>2, EntrySet
    <3> QED
      BY <1>1, <3>1, <3>2, <3>3
  <2> QED
    BY <2>1, <2>2
<1>3. \A o, g : Sure(j, o, g) => Sure(j, o, g)'
  BY <1>2 DEF Sure, Locked
<1>4. Checked(j)'
  BY <1>3 DEF Checked, Undoing, Publishing, Published
<1>5. LastLook(j)'
  BY <1>2 DEF LastLook, Undoing, Early, Publishing
<1> QED
  BY <1>4, <1>5

LEMMA MoveKept ==
  ASSUME TpchTypeOK, NEW j \in Jobs, JobInv(j), MoveAside(j)
  PROVE  Recording(j)' /\ InHand(j)' /\ Located(j)' /\ Checked(j)' /\ LastLook(j)'
<1> DEFINE n == Newest(j)
<1>1. /\ n \in undo[j] /\ n \in 0..Len(Outputs) /\ pc[j] = "moving" /\ aside[j] = Nothing
      /\ Takes(j, n) \/ Skips(j, n)
      /\ UNCHANGED <<home, current, genuine, placed, left, tampers, body, checked, settled, fds,
                     verified, ran, sid, owned, index>>
  BY MovedAside
<1>2. Recording(j) /\ InHand(j) /\ Located(j) /\ Checked(j) /\ LastLook(j)
  BY DEF JobInv
<1>3. /\ j # None /\ home[j] \in Dirs /\ None \in Inode \cup {None} /\ pc[j] \in Undoing
      /\ aside \in [Jobs -> [name : 0..Len(Outputs), file : Inode \cup {None}]]
      /\ n # 0 => Outputs[n] \in OutputSet
  BY <1>1, Sizes DEF TpchTypeOK, Undoing
<1>4. CASE Skips(j, n)
  <2>1. /\ kept'[j] /\ pc'[j] = "rollback" /\ undo'[j] = undo[j] \ {n}
        /\ UNCHANGED <<aside, target, late, staged>>
    BY <1>4 DEF Skips
  <2> HIDE DEF n
  <2>2. Recording(j)'
    BY <1>1, <1>2, <2>1 DEF Recording, Own, Early, Published, Undoing, Past
  <2>3. InHand(j)'
    BY <1>1, <1>2, <1>3, <2>1 DEF InHand, Own
  <2>4. Located(j)'
    BY <2>1 DEF Located
  <2>5. Checked(j)' /\ LastLook(j)'
    BY <1>1, <1>2, <1>3, <2>1, CleanupLooks DEF Undoing
  <2> QED
    BY <2>2, <2>3, <2>4, <2>5
<1>5. CASE Takes(j, n)
  <2>1. /\ Entry(j, n) \in Inode /\ SetEntry(j, n, None) /\ pc'[j] = "judging" /\ undo' = undo
        /\ aside' = [aside EXCEPT ![j] = [name |-> n, file |-> Entry(j, n)]]
        /\ kept[j] => kept'[j]
    BY <1>5 DEF Takes
  <2>2. /\ aside'[j] = [name |-> n, file |-> Entry(j, n)]
        /\ \A k \in Jobs \ {j} : aside'[k] = aside[k]
        /\ Newest(j)' = n /\ Entry(j, n) # None
    BY <1>3, <2>1, TpchAssumption DEF Newest
  <2> HIDE DEF n
  <2>3. staged'[j] = IF n = 0 THEN None ELSE staged[j]
    <3>1. n = 0 => staged' = [staged EXCEPT ![j] = None]
      BY <1>1, <1>3, <2>1, EntrySet
    <3>2. n # 0 => UNCHANGED staged
      BY <1>1, <1>3, <2>1, EntrySet
    <3> QED
      BY <3>1, <3>2 DEF TpchTypeOK
  <2>4. \A d \in Dirs, o \in OutputSet :
            target'[d][o] = IF n # 0 /\ d = home[j] /\ o = Outputs[n] THEN None ELSE target[d][o]
    BY <1>1, <1>3, <2>1, EntrySet
  <2>5. Recording(j)'
    BY <1>1, <1>2, <1>3, <2>1, <2>3 DEF Recording, Own, Early, Published, Undoing, Past
  <2>6. InHand(j)'
    <3>1. n = 0 => Entry(j, n) \in Own(j)'
      BY <1>1, <1>2 DEF Entry, Recording, Own
    <3> QED
      BY <1>1, <1>2, <1>3, <2>1, <2>2, <3>1 DEF InHand
  <2>7. Located(j)'
    <3> SUFFICES ASSUME ~kept'[j] PROVE Located(j)'
      BY DEF Located
    <3>0. ~kept[j]
      BY <2>1
    <3>1. /\ \A d \in Dirs, o \in OutputSet : target[d][o] = j => d = home[j] /\ owned[j][o] = j
          /\ \A k \in Jobs : aside[k].file = j => k = j
          /\ staged[j] = j => sid[j] = None \/ 0 \in undo[j]
          /\ \A o \in OutputSet : target[home[j]][o] = j => \E m \in undo[j] : m # 0 /\ Outputs[m] = o
      BY <1>2, <1>3, <3>0 DEF Located
    <3>2. \A d \in Dirs, o \in OutputSet : target'[d][o] = j => target[d][o] = j
      BY <1>3, <2>4
    <3>3. staged'[j] = j => staged[j] = j
      BY <1>3, <2>3
    <3>4. Entry(j, n) = j => Recorded(j, n) = j
      <4>1. CASE n = 0
        <5>1. sid[j] # None /\ pc[j] # "stating"
          BY <1>1, <1>2, <1>3, <4>1 DEF InHand
        <5> QED
          BY <1>2, <3>0, <4>1, <5>1 DEF Entry, Recorded, Recording
      <4>2. CASE n # 0
        BY <1>3, <3>1, <4>2 DEF Entry, Recorded
      <4> QED
        BY <4>1, <4>2
    <3>5. \A k \in Jobs : aside'[k].file = j => k = j /\ Recorded(j, aside[j].name)' = j
      <4>1. Recorded(j, aside[j].name)' = Recorded(j, n)
        BY <1>1, <2>2 DEF Recorded
      <4> QED
        BY <2>2, <3>1, <3>4, <4>1
    <3>6. Entry(j, aside[j].name)' # j
      BY <1>1, <1>3, <2>2, <2>3, <2>4 DEF Entry
    <3>7. /\ staged'[j] = j => sid'[j] = None \/ 0 \in undo'[j]
          /\ \A o \in OutputSet : target'[home'[j]][o] = j =>
                 \E m \in undo'[j] : m # 0 /\ Outputs[m] = o
      BY <1>1, <1>3, <2>1, <3>1, <3>2, <3>3
    <3>8. \A d \in Dirs, o \in OutputSet : target'[d][o] = j => d = home'[j] /\ owned'[j][o] = j
      BY <1>1, <3>1, <3>2
    <3> QED
      BY <2>1, <3>5, <3>6, <3>7, <3>8 DEF Located, Past
  <2>8. Checked(j)' /\ LastLook(j)'
    BY <1>1, <1>2, <1>3, <2>1, CleanupLooks DEF Undoing
  <2> QED
    BY <2>5, <2>6, <2>7, <2>8
<1> QED
  BY <1>1, <1>4, <1>5

LEMMA JudgeKept ==
  ASSUME TpchTypeOK, NEW j \in Jobs, JobInv(j), Judge(j)
  PROVE  Recording(j)' /\ InHand(j)' /\ Located(j)' /\ Checked(j)' /\ LastLook(j)'
<1> DEFINE n == aside[j].name
           f == aside[j].file
<1>1. /\ n = Newest(j) /\ n \in undo[j] /\ n \in 0..Len(Outputs) /\ f \in Inode
      /\ pc[j] = "judging" /\ pc'[j] = "rollback" /\ undo'[j] = undo[j] \ {n}
      /\ aside'[j] = Nothing /\ \A i \in Jobs \ {j} : aside'[i] = aside[i]
      /\ UNCHANGED <<home, current, genuine, placed, tampers, body, checked, settled, fds,
                     verified, ran, sid, owned, kept, index>>
  BY Judged
<1>2. Recording(j) /\ InHand(j) /\ Located(j) /\ Checked(j) /\ LastLook(j)
  BY DEF JobInv
<1>3. /\ j # None /\ home[j] \in Dirs /\ f \in Inode \cup {None} /\ pc[j] \in Undoing
      /\ pc'[j] \in Undoing
      /\ n # 0 => Outputs[n] \in OutputSet
  BY <1>1, Sizes DEF TpchTypeOK, Undoing
<1>4. \/ UNCHANGED <<target, late, staged>>
      \/ f # Recorded(j, n) /\ SetEntry(j, n, f)
  BY Judged DEF Unlinks, Strands, Restores
<1>5. n = 0 => f \in Own(j)
  BY <1>2 DEF InHand
<1>6. ~kept[j] => Entry(j, n) # j /\ (f = j => Recorded(j, n) = j)
  BY <1>1, <1>2 DEF Located
<1> HIDE DEF n, f
<1>7. /\ staged'[j] = staged[j] \/ (n = 0 /\ staged'[j] = f /\ f # Recorded(j, n))
      /\ \A d \in Dirs, o \in OutputSet :
            \/ target'[d][o] = target[d][o]
            \/ n # 0 /\ target'[d][o] = f /\ f # Recorded(j, n)
  <2>1. CASE UNCHANGED <<target, late, staged>>
    BY <2>1
  <2>2. CASE f # Recorded(j, n) /\ SetEntry(j, n, f)
    <3>1. n = 0 => staged' = [staged EXCEPT ![j] = f]
      BY <1>1, <1>3, <2>2, EntrySet
    <3>2. n # 0 => UNCHANGED staged
      BY <1>1, <1>3, <2>2, EntrySet
    <3>3. \A d \in Dirs, o \in OutputSet :
            target'[d][o] = IF n # 0 /\ d = home[j] /\ o = Outputs[n] THEN f ELSE target[d][o]
      BY <1>1, <1>3, <2>2, EntrySet
    <3>4. staged'[j] = IF n = 0 THEN f ELSE staged[j]
      BY <3>1, <3>2 DEF TpchTypeOK
    <3> QED
      BY <2>2, <3>3, <3>4
  <2> QED
    BY <1>4, <2>1, <2>2
<1>8. Recording(j)'
  <2>1. staged'[j] \in Own(j)'
    BY <1>1, <1>2, <1>5, <1>7 DEF Recording, Own
  <2>2. ~kept[j] => (staged'[j] = j => staged[j] = j)
    BY <1>6, <1>7
  <2> QED
    BY <1>1, <1>2, <2>1, <2>2 DEF Recording, Own, Early, Published, Undoing, Past
<1>9. InHand(j)'
  <2>1. Nothing.file \in Own(j)'
    BY DEF Nothing, Own
  <2> QED
    BY <1>1, <1>2, <1>3, <2>1 DEF InHand
<1>10. Located(j)'
  <2> SUFFICES ASSUME ~kept[j] PROVE Located(j)'
    BY <1>1 DEF Located
  <2>1. /\ \A d \in Dirs, o \in OutputSet : target[d][o] = j => d = home[j] /\ owned[j][o] = j
        /\ \A k \in Jobs : aside[k].file = j => k = j
        /\ staged[j] = j => sid[j] = None \/ 0 \in undo[j]
        /\ \A o \in OutputSet : target[home[j]][o] = j => \E m \in undo[j] : m # 0 /\ Outputs[m] = o
    BY <1>2, <1>3 DEF Located
  <2>2. /\ staged'[j] = j => staged[j] = j
        /\ \A d \in Dirs, o \in OutputSet : target'[d][o] = j => target[d][o] = j
    BY <1>6, <1>7
  <2>3. \A k \in Jobs : aside'[k].file # j
    BY <1>1, <1>3, <2>1 DEF Nothing
  <2>4. staged'[j] = j => sid'[j] = None \/ 0 \in undo'[j]
    BY <1>1, <1>6, <2>1, <2>2 DEF Entry
  <2>5. ASSUME NEW o \in OutputSet, target'[home'[j]][o] = j
        PROVE  \E m \in undo'[j] : m # 0 /\ Outputs[m] = o
    <3>1. target[home[j]][o] = j
      BY <1>1, <1>3, <2>2, <2>5
    <3>2. PICK m \in undo[j] : m # 0 /\ Outputs[m] = o
      BY <2>1, <3>1
    <3>3. m # n
      BY <1>6, <3>1, <3>2 DEF Entry
    <3> QED
      BY <1>1, <3>2, <3>3
  <2>6. \A d \in Dirs, o \in OutputSet : target'[d][o] = j => d = home'[j] /\ owned'[j][o] = j
    BY <1>1, <2>1, <2>2
  <2> QED
    BY <1>1, <2>3, <2>4, <2>5, <2>6 DEF Located, Past
<1>11. Checked(j)' /\ LastLook(j)'
  <2>1. SetEntry(j, n, f) \/ UNCHANGED <<target, late>>
    BY <1>4
  <2>2. Checked(j) /\ LastLook(j) /\ n \in 0..Len(Outputs) /\ f \in Inode \cup {None}
    BY <1>1, <1>2, <1>3
  <2>3. UNCHANGED <<home, body, index, sid, owned, checked, settled, current, genuine>>
    BY <1>1
  <2>4. pc[j] \in Undoing /\ pc'[j] \in Undoing
    BY <1>3
  <2> QED
    BY <2>1, <2>2, <2>3, <2>4, CleanupLooks
<1> QED
  BY <1>8, <1>9, <1>10, <1>11

\* A job that has taken back everything only lets go.
LEMMA PastKept ==
  ASSUME TpchTypeOK, NEW j \in Jobs, JobInv(j), ReleaseAfterRollback(j) \/ CleanUp(j)
  PROVE  Recording(j)' /\ InHand(j)' /\ Located(j)' /\ Checked(j)' /\ LastLook(j)'
<1>1. /\ pc[j] \in {"releasing", "cleaning"} /\ pc'[j] \in {"cleaning", "failed"}
      /\ UNCHANGED <<home, body, index, staged, sid, owned, undo, aside, kept, checked, settled,
                     late, current, target, genuine, tampers>>
  BY DEF ReleaseAfterRollback, CleanUp, Goto, TpchTypeOK, worldVars
<1>2. Recording(j) /\ InHand(j) /\ Located(j) /\ Checked(j) /\ LastLook(j)
  BY DEF JobInv
<1>3. Recording(j)' /\ InHand(j)'
  BY <1>1, <1>2 DEF Recording, InHand, Own, Early, Published, Undoing, Past
<1>4. Located(j)'
  BY <1>1, <1>2 DEF Located, Recorded, Undoing, Past
<1>5. Checked(j)' /\ LastLook(j)'
  BY <1>1, <1>2 DEF Checked, LastLook, Sure, Locked, Early, Publishing, Published
<1> QED
  BY <1>3, <1>4, <1>5

LEMMA OwnStep ==
  ASSUME TpchTypeOK, TpchTypeOK', NEW j \in Jobs, JobInv(j), JobStep(j)
  PROVE  JobInv(j)'
<1> DEFINE Rest == Recording(j)' /\ InHand(j)' /\ Located(j)' /\ Checked(j)' /\ LastLook(j)'
<1> SUFFICES Rest
  BY ProvedKept, HeldKept DEF JobInv
<1>1. pc \in [Jobs -> Point] /\ home'[j] \in Dirs
  BY DEF TpchTypeOK, Point, Early, Publishing, Published, Undoing, Ended
<1>2. CASE Raise(j) /\ pc[j] \in Early \cup Publishing \cup Published /\ (pc[j] = "stating" => staged[j] # j)
  BY <1>2, RaiseKept
<1>3. CASE EnsureImage(j)
  <2>1. /\ pc[j] \in Early
        /\ UNCHANGED <<index, staged, sid, owned, undo, aside, kept, checked, settled, late,
                       current, target, genuine, placed, left, tampers>>
    BY <1>3
    DEF EnsureImage, Begin, InspectImage, ImageEvidence, BuildImage, worldVars, Early
  <2>2. pc'[j] \in Early \cup {"checking", "cleaning"}
    BY <1>1, <1>3 DEF EnsureImage, Begin, InspectImage, ImageEvidence, BuildImage, Goto, Early
  <2> QED
    BY <1>1, <2>1, <2>2, EarlyKept
<1>4. CASE (Generate(j) \/ DuplicateDescriptors(j)) /\ ~Raise(j)
  <2>1. /\ pc[j] \in Early
        /\ UNCHANGED <<index, staged, sid, owned, undo, aside, kept, checked, settled, late,
                       current, target, genuine, placed, left, tampers>>
    BY <1>4
    DEF Generate, OpenTransaction, Run, VerifyBindings, VerifyTpchOutputs, Require,
        DuplicateDescriptors, worldVars, Early
  <2>2. \E p \in Early \cup {"checking"} : Goto(j, p)
    BY <1>4
    DEF Generate, OpenTransaction, Run, VerifyBindings, VerifyTpchOutputs, Require,
        DuplicateDescriptors, Early
  <2>3. pc'[j] \in Early \cup {"checking", "cleaning"}
    BY <1>1, <2>2 DEF Goto
  <2> QED
    BY <1>1, <2>1, <2>3, EarlyKept
<1>5. CASE (CheckStaging(j) \/ VerifyDestinationBinding(j)) /\ ~Raise(j)
  <2>1. UNCHANGED <<home, body, index, staged, sid, owned, undo, aside, kept, checked, settled, late,
                    current, target, genuine, placed, left, tampers>>
    BY <1>5 DEF CheckStaging, VerifyDestinationBinding, Require, worldVars
  <2>2. \/ pc[j] = "checking" /\ pc'[j] = "linking"
        \/ pc[j] = "binding" /\ pc'[j] = "rebinding"
        \/ pc[j] = "rebinding" /\ pc'[j] = "committing" /\ current = home[j]
    BY <1>1, <1>5 DEF CheckStaging, VerifyDestinationBinding, DestinationBound, Require, Goto
  <2> QED
    BY <2>1, <2>2, OnwardKept
<1>6. CASE VerifyFinalIdentities(j) /\ ~Raise(j)
  <2>1. /\ pc[j] = "final" /\ settled' = [settled EXCEPT ![j] = TRUE] /\ Goto(j, "binding")
        /\ \A o \in OutputSet : target[home[j]][o] = owned[j][o]
        /\ UNCHANGED <<home, body, index, staged, sid, owned, undo, aside, kept, checked, late,
                       current, target, genuine, placed, left, tampers>>
    BY <1>6 DEF VerifyFinalIdentities, worldVars
  <2>2. pc'[j] = "binding" /\ settled'[j]
    BY <1>1, <2>1 DEF Goto, TpchTypeOK
  <2> QED
    BY <2>1, <2>2, OnwardKept
<1>7. CASE CloseTransaction(j) \/ Commit(j)
  <2>1. UNCHANGED <<home, body, index, staged, sid, owned, aside, kept, checked, settled, late,
                    current, target, genuine, placed, left, tampers>>
    BY <1>7 DEF CloseTransaction, Commit, worldVars
  <2>2. \/ pc[j] = "closing" /\ pc'[j] = "final" /\ undo' = undo
        \/ pc[j] = "committing" /\ pc'[j] = "committed" /\ undo' = undo
        \/ pc[j] \in {"closing", "committing"} /\ pc'[j] = "rollback" /\ undo'[j] = Links(j)
    BY <1>1, <1>7 DEF CloseTransaction, Commit, Goto, TpchTypeOK
  <2>3. CASE undo' = undo /\ pc'[j] # "rollback"
    BY <2>1, <2>2, <2>3, OnwardKept
  <2>4. CASE pc[j] \in {"closing", "committing"} /\ pc'[j] = "rollback" /\ undo'[j] = Links(j)
    <3>1. pc[j] \in Early \cup Publishing \cup Published /\ pc[j] # "stating"
      BY <2>4 DEF Published
    <3> QED
      BY <2>1, <2>4, <3>1, TurnedKept
  <2> QED
    BY <2>2, <2>3, <2>4
<1>8. CASE StatFails(j)
  <2>1. /\ pc[j] = "stating" /\ pc'[j] = "rollback" /\ undo'[j] = Links(j)
        /\ UNCHANGED <<home, body, index, staged, sid, owned, aside, kept, checked, settled, late,
                       current, target, genuine, placed, left, tampers>>
    BY <1>1, <1>8 DEF StatFails, Goto, TpchTypeOK, worldVars
  <2>2. pc[j] \in Early \cup Publishing \cup Published
    BY <2>1 DEF Publishing
  <2> QED
    BY <2>1, <2>2, TurnedKept
<1>9. CASE LinkStaged(j)
  BY <1>9, LinkKept
<1>10. CASE (StatStaged(j) \/ VerifyStagedOutput(j) \/ RenameStaged(j)) /\ ~Raise(j)
  BY <1>10, StatKept, VerifyKept, RenameKept
<1>11. CASE TakeBack(j)
  BY <1>11, RollbackKept, MoveKept, JudgeKept, PastKept DEF TakeBack
<1>12. CASE Raise(j) /\ (Generate(j) \/ Publish(j) \/ Fails(j))
            /\ ~CloseTransaction(j) /\ ~Commit(j) /\ ~LinkStaged(j)
  <2>1. pc[j] \in Early \cup Publishing \cup Published
    <3>1. CASE Generate(j) \/ DuplicateDescriptors(j)
      BY <3>1
      DEF Generate, OpenTransaction, Run, VerifyBindings, VerifyTpchOutputs, DuplicateDescriptors, Early
    <3>2. CASE CheckStaging(j) \/ StatStaged(j) \/ VerifyStagedOutput(j) \/ RenameStaged(j)
      BY <3>2 DEF CheckStaging, StatStaged, VerifyStagedOutput, RenameStaged, Publishing
    <3>3. CASE VerifyFinalIdentities(j) \/ VerifyDestinationBinding(j)
      BY <3>3 DEF VerifyFinalIdentities, VerifyDestinationBinding, Published
    <3>4. CASE Fails(j)
      BY <1>1, <3>4 DEF Fails, Point, Undoing, Ended
    <3> QED
      BY <1>12, <3>1, <3>2, <3>3, <3>4 DEF Publish
  <2>2. pc[j] = "stating" => staged[j] # j
    <3>1. pc[j] = "stating" => staged[j] = None
      <4>1. pc[j] = "stating" => StatStaged(j)
        BY <1>12
        DEF Generate, OpenTransaction, Run, VerifyBindings, VerifyTpchOutputs, DuplicateDescriptors,
            CheckStaging, VerifyStagedOutput, RenameStaged, VerifyFinalIdentities,
            VerifyDestinationBinding, Fails, Publish
      <4>2. Raise(j) => pc'[j] # "staging"
        BY <1>1 DEF Raise, Goto
      <4>3. StatStaged(j) => staged[j] = None \/ pc'[j] = "staging"
        BY <1>1 DEF StatStaged, Goto
      <4> QED
        BY <1>12, <4>1, <4>2, <4>3
    <3> QED
      BY <3>1, Sizes
  <2> QED
    BY <1>2, <1>12, <2>1, <2>2
<1> HIDE DEF Rest
<1> QED
  BY <1>3, <1>4, <1>5, <1>6, <1>7, <1>8, <1>9, <1>10, <1>11, <1>12
  DEF JobStep, Publish, Fails

-----------------------------------------------------------------------------
(* Foreign files.                                                           *)

Files == Jobs \cup {None} \cup (1..tampers)

LEMMA ForeignKept ==
  ASSUME TpchTypeOK, NEW j \in Jobs, JobInv(j), JobStep(j), Apart, ForeignFilesSurvive
  PROVE  Apart' /\ ForeignFilesSurvive'
<1>1. /\ placed \subseteq 1..tampers /\ tampers \in 0..MaxTampers /\ None \notin placed
      /\ \A k \in Jobs : k \notin placed
  <2>1. placed \subseteq 1..tampers /\ tampers \in 0..MaxTampers
    BY DEF Apart, TpchTypeOK
  <2>2. \A f \in placed : f \in 1..MaxTampers
    BY <2>1, Sizes
  <2> QED
    BY <2>1, <2>2, Sizes
<1>2. \A k \in Jobs \ {j} : /\ sid'[k] = sid[k] /\ owned'[k] = owned[k] /\ aside'[k] = aside[k]
                            /\ staged'[k] = staged[k]
  BY OthersKept DEF Outside
<1>3. /\ \A d \in Dirs, o \in OutputSet : target[d][o] \in Files
      /\ \A k \in Jobs : /\ staged[k] \notin placed /\ sid[k] \notin placed
                         /\ \A o \in OutputSet : owned[k][o] \notin placed
                         /\ aside[k].name = 0 => aside[k].file \notin placed
                         /\ aside[k].file \in Files
  BY DEF Apart, Files
<1>4. ASSUME UNCHANGED <<tampers, placed>>,
             \A d \in Dirs, o \in OutputSet : target'[d][o] \in Files,
             staged'[j] \notin placed, sid'[j] \notin placed,
             \A o \in OutputSet : owned'[j][o] \notin placed,
             aside'[j].name = 0 => aside'[j].file \notin placed,
             aside'[j].file \in Files
      PROVE  Apart'
  <2>1. /\ \A k \in Jobs : /\ staged'[k] \notin placed /\ sid'[k] \notin placed
                           /\ \A o \in OutputSet : owned'[k][o] \notin placed
                           /\ aside'[k].name = 0 => aside'[k].file \notin placed
                           /\ aside'[k].file \in Files
    BY <1>2, <1>3, <1>4
  <2> QED
    BY <1>1, <1>4, <2>1 DEF Apart, Files
<1>5. CASE Quiet
  <2>1. UNCHANGED <<tampers, placed, target, aside, left>>
    BY <1>5 DEF Quiet
  <2>2. ForeignFilesSurvive'
    BY <2>1 DEF ForeignFilesSurvive
  <2>3. /\ staged'[j] = staged[j] \/ staged'[j] = j
        /\ sid'[j] = sid[j] \/ sid'[j] = staged[j] \/ sid'[j] = None
        /\ \A o \in OutputSet : owned'[j][o] = owned[j][o] \/ owned'[j][o] = sid[j]
    <3>1. CASE UNCHANGED <<staged, sid, owned>>
      BY <3>1
    <3>2. CASE LinkStaged(j)
      BY <3>2 DEF LinkStaged, TpchTypeOK
    <3>3. CASE StatStaged(j)
      BY <3>3 DEF StatStaged, Raise, TpchTypeOK
    <3>4. CASE RenameStaged(j)
      <4>1. CASE Raise(j)
        BY <4>1 DEF Raise
      <4>2. CASE ~Raise(j)
        <5>1. \E d \in Dirs, o \in OutputSet : target'[d][o] # target[d][o]
          BY <3>4, <4>2, Renamed
        <5> QED
          BY <2>1, <5>1
      <4> QED
        BY <4>1, <4>2
    <3>5. CASE MoveAside(j)
      <4>1. Skips(j, Newest(j))
        <5>1. ~Takes(j, Newest(j))
          <6>1. aside[j] = Nothing
            BY <3>5, MovedAside
          <6>2. Takes(j, Newest(j)) => aside'[j].file # None
            BY TpchAssumption DEF Takes, TpchTypeOK
          <6> QED
            BY <2>1, <6>1, <6>2 DEF Nothing
        <5> QED
          BY <3>5, <5>1, MovedAside
      <4> QED
        BY <3>5, <4>1 DEF MoveAside, Skips
    <3>6. CASE Judge(j)
      <4>1. aside'[j] # aside[j]
        BY <3>6, Judged, TpchAssumption DEF Nothing
      <4> QED
        BY <2>1, <4>1
    <3>7. CASE Moves(j)
      BY <3>7 DEF Moves
    <3> QED
      BY <3>1, <3>2, <3>3, <3>4, <3>5, <3>6, <3>7, PlainSteps
      DEF JobStep, EnsureImage, Generate, Publish, TakeBack, InspectImage, ImageEvidence, BuildImage,
          OpenTransaction, Run, DuplicateDescriptors, VerifyStagedOutput,
          CloseTransaction, VerifyFinalIdentities, Commit, RollbackEntry,
          ReleaseAfterRollback, CleanUp, StatFails
  <2>4. Apart'
    BY <1>1, <1>3, <1>4, <2>1, <2>3
  <2> QED
    BY <2>2, <2>4
<1>6. CASE RenameStaged(j) /\ ~Raise(j)
  <2>1. /\ target[home[j]][Item(j)] = None
        /\ \A d \in Dirs, o \in OutputSet :
                target'[d][o] = IF d = home[j] /\ o = Item(j) THEN staged[j] ELSE target[d][o]
        /\ \A o \in OutputSet : owned'[j][o] = IF o = Item(j) THEN sid[j] ELSE owned[j][o]
        /\ UNCHANGED <<aside, placed, left, tampers>> /\ staged'[j] = None /\ sid'[j] = None
    BY <1>6, Renamed
  <2>2. staged[j] \in Files
    BY DEF JobInv, Recording, Own, Files
  <2>3. Apart'
    BY <1>1, <1>3, <1>4, <2>1, <2>2
  <2>4. \A d \in Dirs, o \in OutputSet : target[d][o] \in placed => target'[d][o] = target[d][o]
    BY <1>1, <2>1
  <2>5. ForeignFilesSurvive'
    BY <2>1, <2>4 DEF ForeignFilesSurvive
  <2> QED
    BY <2>3, <2>5
<1>7. CASE MoveAside(j)
  <2> DEFINE n == Newest(j)
  <2>1. /\ n \in 0..Len(Outputs) /\ aside[j] = Nothing
        /\ UNCHANGED <<placed, left, tampers, sid, owned>> /\ None \in Inode \cup {None}
        /\ Takes(j, n) \/ Skips(j, n)
    BY <1>7, MovedAside
  <2>2. /\ home[j] \in Dirs /\ aside \in [Jobs -> [name : 0..Len(Outputs), file : Inode \cup {None}]]
        /\ n # 0 => Outputs[n] \in OutputSet
    BY <2>1, Sizes DEF TpchTypeOK
  <2> HIDE DEF n
  <2>3. CASE Skips(j, n)
    <3>1. UNCHANGED <<aside, target, staged>>
      BY <2>3 DEF Skips
    <3>2. ForeignFilesSurvive'
      BY <2>1, <3>1 DEF ForeignFilesSurvive
    <3>3. Apart'
      BY <1>3, <1>4, <2>1, <3>1
    <3> QED
      BY <3>2, <3>3
  <2>4. CASE Takes(j, n)
    <3>1. /\ aside' = [aside EXCEPT ![j] = [name |-> n, file |-> Entry(j, n)]]
          /\ SetEntry(j, n, None)
      BY <2>4 DEF Takes
    <3>2. /\ aside'[j] = [name |-> n, file |-> Entry(j, n)]
          /\ \A k \in Jobs \ {j} : aside'[k] = aside[k]
      BY <2>2, <3>1
    <3>3. \A d \in Dirs, o \in OutputSet :
              target'[d][o] = IF n # 0 /\ d = home[j] /\ o = Outputs[n] THEN None ELSE target[d][o]
      BY <2>1, <3>1, EntrySet
    <3>4. staged'[j] = IF n = 0 THEN None ELSE staged[j]
      <4>1. n = 0 => staged' = [staged EXCEPT ![j] = None]
        BY <2>1, <3>1, EntrySet
      <4>2. n # 0 => UNCHANGED staged
        BY <2>1, <3>1, EntrySet
      <4> QED
        BY <4>1, <4>2 DEF TpchTypeOK
    <3>5. Entry(j, n) \in Files /\ None \in Files /\ (n = 0 => Entry(j, n) \notin placed)
      <4>1. staged[j] \in Files
        BY DEF JobInv, Recording, Own, Files
      <4> QED
        BY <1>3, <2>2, <4>1 DEF Entry, Files
    <3>6. Apart'
      <4>1. \A d \in Dirs, o \in OutputSet : target'[d][o] \in Files
        BY <1>3, <3>3, <3>5
      <4>2. staged'[j] \notin placed
        BY <1>1, <1>3, <3>4
      <4>3. (aside'[j].name = 0 => aside'[j].file \notin placed) /\ aside'[j].file \in Files
        BY <3>2, <3>5
      <4> QED
        BY <1>3, <1>4, <2>1, <4>1, <4>2, <4>3
    <3>7. ForeignFilesSurvive'
      <4> SUFFICES ASSUME NEW f \in placed
                   PROVE  \/ \E d \in Dirs, o \in OutputSet : target'[d][o] = f
                          \/ f \in left \/ \E k \in Jobs : aside'[k].file = f
        BY <2>1 DEF ForeignFilesSurvive
      <4>1. CASE \E d \in Dirs, o \in OutputSet : target[d][o] = f
        <5>1. PICK d \in Dirs, o \in OutputSet : target[d][o] = f
          BY <4>1
        <5>2. n # 0 /\ d = home[j] /\ o = Outputs[n] => aside'[j].file = f
          BY <3>2, <5>1 DEF Entry
        <5> QED
          BY <3>3, <5>1, <5>2
      <4>2. CASE \E k \in Jobs : aside[k].file = f
        <5>1. PICK k \in Jobs : aside[k].file = f
          BY <4>2
        <5>2. k # j
          BY <1>1, <2>1, <5>1 DEF Nothing
        <5> QED
          BY <3>2, <5>1, <5>2
      <4> QED
        BY <4>1, <4>2 DEF ForeignFilesSurvive
    <3> QED
      BY <3>6, <3>7
  <2> QED
    BY <2>1, <2>3, <2>4
<1>8. CASE Judge(j)
  <2> DEFINE n == aside[j].name
             f == aside[j].file
  <2>1. /\ n \in 0..Len(Outputs) /\ f \in Inode \cup {None} /\ f \in Files
        /\ aside'[j] = Nothing /\ \A k \in Jobs \ {j} : aside'[k] = aside[k]
        /\ UNCHANGED <<placed, tampers, sid, owned>>
        /\ Unlinks(j, n, f) \/ Restores(j, n, f) \/ Strands(j, n, f)
    BY <1>3, <1>8, Judged
  <2>2. /\ home[j] \in Dirs
        /\ n # 0 => Outputs[n] \in OutputSet
    BY <2>1, Sizes DEF TpchTypeOK
  <2>3. n = 0 => f \notin placed
    BY <1>3
  <2>4. Nothing.file = None /\ None \in Files /\ None \notin placed
    BY <1>1 DEF Nothing, Files
  <2>5. \A k \in Jobs \ {j}, g \in placed : aside[k].file = g => \E i \in Jobs : aside'[i].file = g
    BY <2>1
  <2>6. \A g \in placed : aside[j].file = g => f = g
    OBVIOUS
  <2> HIDE DEF n, f
  <2>7. CASE Unlinks(j, n, f) \/ Strands(j, n, f)
    <3>1. UNCHANGED <<target, staged>> /\ left \subseteq left' /\ (f \in placed => f \in left')
      <4>1. f = Recorded(j, n) => f \notin placed
        BY <1>3, <2>2 DEF Recorded
      <4> QED
        BY <2>7, <4>1 DEF Unlinks, Strands
    <3>2. Apart'
      BY <1>3, <1>4, <2>1, <2>4, <3>1
    <3>3. ForeignFilesSurvive'
      BY <2>1, <2>5, <2>6, <3>1 DEF ForeignFilesSurvive
    <3> QED
      BY <3>2, <3>3
  <2>8. CASE Restores(j, n, f)
    <3>1. Entry(j, n) = None /\ SetEntry(j, n, f) /\ left' = left
      BY <2>8 DEF Restores
    <3>2. \A d \in Dirs, o \in OutputSet :
              target'[d][o] = IF n # 0 /\ d = home[j] /\ o = Outputs[n] THEN f ELSE target[d][o]
      BY <2>1, <3>1, EntrySet
    <3>3. staged'[j] = IF n = 0 THEN f ELSE staged[j]
      <4>1. n = 0 => staged' = [staged EXCEPT ![j] = f]
        BY <2>1, <3>1, EntrySet
      <4>2. n # 0 => UNCHANGED staged
        BY <2>1, <3>1, EntrySet
      <4> QED
        BY <4>1, <4>2 DEF TpchTypeOK
    <3>4. Apart'
      <4>1. \A d \in Dirs, o \in OutputSet : target'[d][o] \in Files
        BY <1>3, <2>1, <3>2
      <4>2. staged'[j] \notin placed
        BY <1>3, <2>3, <3>3
      <4> QED
        BY <1>3, <1>4, <2>1, <2>4, <4>1, <4>2
    <3>5. \A d \in Dirs, o \in OutputSet : target[d][o] \in placed => target'[d][o] = target[d][o]
      BY <2>4, <3>1, <3>2 DEF Entry
    <3>6. f \in placed => \E d \in Dirs, o \in OutputSet : target'[d][o] = f
      BY <2>2, <2>3, <3>2
    <3>7. ForeignFilesSurvive'
      <4> SUFFICES ASSUME NEW g \in placed
                   PROVE  \/ \E d \in Dirs, o \in OutputSet : target'[d][o] = g
                          \/ g \in left \/ \E k \in Jobs : aside'[k].file = g
        BY <2>1, <3>1 DEF ForeignFilesSurvive
      <4>1. CASE \E d \in Dirs, o \in OutputSet : target[d][o] = g
        BY <3>5, <4>1
      <4>2. CASE \E k \in Jobs : aside[k].file = g
        BY <2>5, <2>6, <3>6, <4>2
      <4> QED
        BY <4>1, <4>2 DEF ForeignFilesSurvive
    <3> QED
      BY <3>4, <3>7
  <2> QED
    BY <2>1, <2>7, <2>8
<1> QED
  BY <1>5, <1>6, <1>7, <1>8, QuietSteps

LEMMA ForeignTampered ==
  ASSUME TpchTypeOK, Tamper, Apart, ForeignFilesSurvive, \A k \in Jobs : JobInv(k)
  PROVE  Apart' /\ ForeignFilesSurvive'
<1> DEFINE t == tampers + 1
<1>1. /\ tampers \in Nat /\ tampers' = t /\ 1..tampers \subseteq 1..tampers' /\ t \in 1..tampers'
      /\ t \notin 1..tampers /\ t # None /\ t \notin Jobs
  BY Sizes DEF Tamper, TpchTypeOK
<1>2. /\ placed \subseteq 1..tampers
      /\ \A d \in Dirs, o \in OutputSet : target[d][o] \in Files
      /\ \A k \in Jobs : /\ staged[k] \notin placed /\ sid[k] \notin placed
                         /\ \A o \in OutputSet : owned[k][o] \notin placed
                         /\ aside[k].name = 0 => aside[k].file \notin placed
                         /\ aside[k].file \in Files
  BY DEF Apart, Files
<1>3. Files \subseteq Files' /\ t \in Files' /\ t \notin Files /\ None \in Files'
  BY <1>1 DEF Files
<1>4. \A k \in Jobs : /\ staged[k] # t /\ sid[k] # t /\ aside[k].file # t
                      /\ \A o \in OutputSet : owned[k][o] # t
  <2> SUFFICES ASSUME NEW k \in Jobs
               PROVE  /\ staged[k] # t /\ sid[k] # t /\ aside[k].file # t
                      /\ \A o \in OutputSet : owned[k][o] # t
    OBVIOUS
  <2>1. t \notin Own(k)
    BY <1>1 DEF Own
  <2> HIDE DEF t
  <2> QED
    BY <1>2, <1>3, <2>1 DEF JobInv, Recording
<1> HIDE DEF t
<1>5. ASSUME UNCHANGED <<sid, owned, aside>>, placed' \subseteq placed \cup {t},
             \A d \in Dirs, o \in OutputSet : target'[d][o] \in Files',
             \A k \in Jobs : staged'[k] \notin placed'
      PROVE  Apart'
  <2>1. placed' \subseteq 1..tampers'
    BY <1>1, <1>2, <1>5
  <2>2. /\ \A k \in Jobs : /\ staged'[k] \notin placed' /\ sid'[k] \notin placed'
                           /\ \A o \in OutputSet : owned'[k][o] \notin placed'
                           /\ aside'[k].name = 0 => aside'[k].file \notin placed'
                           /\ aside'[k].file \in Files'
    BY <1>2, <1>3, <1>4, <1>5
  <2> QED
    BY <1>5, <2>1, <2>2 DEF Apart, Files
<1>6. CASE UNCHANGED <<sid, owned, aside, placed, target, staged, left>>
  <2>1. ForeignFilesSurvive'
    BY <1>6 DEF ForeignFilesSurvive
  <2> QED
    BY <1>2, <1>3, <1>5, <1>6, <2>1
<1>7. CASE ReplaceFile
  <2>1. UNCHANGED <<sid, owned, aside, left>>
    BY <1>7 DEF ReplaceFile
  <2>2. CASE \E d \in Dirs, o \in OutputSet, g \in {None, t} :
                /\ Put(d, o, g)
                /\ placed' = (placed \ {target[d][o]}) \cup ({g} \ {None})
                /\ UNCHANGED staged
    <3>1. PICK d \in Dirs, o \in OutputSet, g \in {None, t} :
                /\ Put(d, o, g)
                /\ placed' = (placed \ {target[d][o]}) \cup ({g} \ {None})
                /\ UNCHANGED staged
      BY <2>2
    <3>2. \A e \in Dirs, p \in OutputSet :
              target'[e][p] = IF e = d /\ p = o THEN g ELSE target[e][p]
      <4> DEFINE row == [target[d] EXCEPT ![o] = g]
      <4>1. /\ target \in [Dirs -> [OutputSet -> Inode \cup {None}]]
            /\ \A p \in OutputSet : row[p] = IF p = o THEN g ELSE target[d][p]
        BY DEF TpchTypeOK
      <4>2. target' = [target EXCEPT ![d] = row]
        BY <3>1 DEF Put
      <4> HIDE DEF row
      <4> QED
        BY <4>1, <4>2
    <3>3. Apart'
      <4>1. \A e \in Dirs, p \in OutputSet : target'[e][p] \in Files'
        BY <1>2, <1>3, <3>2
      <4>2. placed' \subseteq placed \cup {t}
        BY <3>1
      <4>3. \A k \in Jobs : staged'[k] \notin placed'
        BY <1>2, <1>4, <3>1, <4>2
      <4> QED
        BY <1>5, <2>1, <4>1, <4>2, <4>3
    <3>4. ForeignFilesSurvive'
      <4> SUFFICES ASSUME NEW f \in placed'
                   PROVE  \/ \E e \in Dirs, p \in OutputSet : target'[e][p] = f
                          \/ f \in left \/ \E k \in Jobs : aside[k].file = f
        BY <2>1 DEF ForeignFilesSurvive
      <4>1. CASE f = g
        BY <3>2, <4>1
      <4>2. CASE f # g
        <5>1. f \in placed /\ f # target[d][o]
          BY <3>1, <4>2
        <5>2. \A e \in Dirs, p \in OutputSet : target[e][p] = f => target'[e][p] = f
          BY <3>2, <5>1
        <5> QED
          BY <5>1, <5>2 DEF ForeignFilesSurvive
      <4> QED
        BY <4>1, <4>2
    <3> QED
      BY <3>3, <3>4
  <2>3. CASE /\ \E j \in Jobs, g \in {None, t} : staged' = [staged EXCEPT ![j] = g]
             /\ UNCHANGED <<target, placed>>
    <3>1. \A k \in Jobs : staged'[k] = staged[k] \/ staged'[k] = None \/ staged'[k] = t
      BY <2>3 DEF TpchTypeOK
    <3>2. None \notin placed /\ t \notin placed
      <4>1. tampers \in 0..MaxTampers
        BY DEF TpchTypeOK
      <4>2. \A f \in placed : f \in 1..MaxTampers
        BY <1>2, <4>1, Sizes
      <4> QED
        BY <1>1, <1>2, <4>2, Sizes
    <3>3. \A k \in Jobs : staged'[k] \notin placed'
      BY <1>2, <2>3, <3>1, <3>2
    <3>4. \A d \in Dirs, o \in OutputSet : target'[d][o] \in Files'
      BY <1>2, <1>3, <2>3
    <3>5. Apart'
      BY <1>5, <2>1, <2>3, <3>3, <3>4
    <3>6. ForeignFilesSurvive'
      BY <2>1, <2>3 DEF ForeignFilesSurvive
    <3> QED
      BY <3>5, <3>6
  <2> QED
    BY <1>7, <2>2, <2>3 DEF ReplaceFile, t
<1> QED
  BY <1>6, <1>7 DEF Tamper, Retag, ReplaceDirectory, Rewrite, jobVars

-----------------------------------------------------------------------------
(* The invariant.                                                           *)

LEMMA TpchStep == TpchInv /\ [TpchNext]_vars => TpchInv'
<1> SUFFICES ASSUME TpchInv, [TpchNext]_vars PROVE TpchInv'
  OBVIOUS
<1>1. TpchTypeOK /\ Apart /\ ForeignFilesSurvive /\ \A k \in Jobs : JobInv(k)
  BY DEF TpchInv
<1>2. CASE UNCHANGED vars
  <2>1. TpchTypeOK' /\ Apart' /\ ForeignFilesSurvive'
    BY <1>1, <1>2 DEF vars, jobVars, worldVars, TpchTypeOK, Apart, ForeignFilesSurvive
  <2>2. ASSUME NEW k \in Jobs PROVE JobInv(k)'
    <3>1. Outside(k) /\ Interferes(k)
      BY <1>1, <1>2 DEF vars, jobVars, worldVars, Outside, Interferes, TpchTypeOK
    <3> QED
      BY <1>1, <2>1, <3>1, OutsideKeeps
  <2> QED
    BY <2>1, <2>2 DEF TpchInv
<1>3. CASE Tamper
  <2>1. TpchTypeOK'
    BY <1>1, <1>3, TamperTypes
  <2>2. Apart' /\ ForeignFilesSurvive'
    BY <1>1, <1>3, ForeignTampered
  <2>3. \A k \in Jobs : JobInv(k)'
    BY <1>1, <1>3, <2>1, TamperInterferes, OutsideKeeps
  <2> QED
    BY <2>1, <2>2, <2>3 DEF TpchInv
<1>4. ASSUME NEW j \in Jobs, JobStep(j) PROVE TpchInv'
  <2>1. TpchTypeOK'
    BY <1>1, <1>4, JobTypes
  <2>2. Apart' /\ ForeignFilesSurvive'
    BY <1>1, <1>4, ForeignKept
  <2>3. ASSUME NEW k \in Jobs PROVE JobInv(k)'
    <3>1. CASE k = j
      BY <1>1, <1>4, <2>1, <3>1, OwnStep
    <3>2. CASE k # j
      <4>1. Outside(k)
        BY <1>1, <1>4, <3>2, OthersKept
      <4>2. Interferes(k)
        BY <1>1, <1>4, <2>1, <3>2, OthersInterfered
      <4> QED
        BY <1>1, <2>1, <4>1, <4>2, OutsideKeeps
    <3> QED
      BY <3>1, <3>2
  <2> QED
    BY <2>1, <2>2, <2>3 DEF TpchInv
<1> QED
  BY <1>2, <1>3, <1>4 DEF TpchNext, JobStep

LEMMA TpchStarts == TpchInit => TpchInv
<1> SUFFICES ASSUME TpchInit PROVE TpchInv
  OBVIOUS
<1>1. pc \in [Jobs -> {"idle", "checking", "failed"}] /\ tampers \in 0..MaxTampers
  <2>1. pc \in Starts
    BY DEF TpchInit
  <2>2. pc \in [Jobs -> {"idle", "checking", "failed"}]
    BY <2>1, TpchAssumption
  <2>3. Cardinality({j \in Jobs : pc[j] # "failed"}) \in 1 .. MaxTampers + 1 /\ MaxTampers \in Nat
    BY <2>1, TpchAssumption
  <2> QED
    BY <2>2, <2>3 DEF TpchInit
<1>2. /\ target = [d \in Dirs |-> [o \in OutputSet |-> None]] /\ current = 1
      /\ owned = [j \in Jobs |-> [o \in OutputSet |-> None]]
      /\ staged = [j \in Jobs |-> None] /\ sid = [j \in Jobs |-> None]
      /\ aside = [j \in Jobs |-> Nothing] /\ undo = [j \in Jobs |-> {}]
      /\ placed = {} /\ settled = [j \in Jobs |-> FALSE] /\ home = [j \in Jobs |-> 1]
      /\ index = [j \in Jobs |-> 1] /\ ran = verified
      /\ verified \in [Jobs -> Canonical \cup {None}]
      /\ fds = [j \in Jobs |-> IF pc[j] = "checking" THEN Transaction \cup Publication ELSE {}]
  BY DEF TpchInit
<1>3. 1 \in Dirs /\ Nothing \in [name : 0..Len(Outputs), file : Inode \cup {None}]
      /\ Nothing.file = None /\ 1 \in DOMAIN Outputs
  BY Sizes DEF Dirs, Nothing
<1>4. TpchTypeOK
  <2>1. pc \in [Jobs -> {"idle", "inspecting", "probing", "building", "opening", "running",
                        "ran", "verifying", "duplicating", "checking", "linking", "stating",
                        "staging", "renaming", "closing", "final", "binding", "rebinding",
                        "committing", "rollback", "moving", "judging", "releasing",
                        "cleaning"} \cup Ended]
    BY <1>1 DEF Ended
  <2>2. /\ verified \in [Jobs -> Images \cup {None}] /\ ran \in [Jobs -> Images \cup {None}]
        /\ tag \in Images \cup {None} /\ seen \in [Jobs -> Images \cup {None}]
    BY <1>2, TpchAssumption DEF TpchInit
  <2>3. /\ rebuilt \in [Jobs -> BOOLEAN] /\ root \in [Jobs -> {"none", "own", "foreign"}]
        /\ body \in [Jobs -> [OutputSet -> Body]] /\ kept \in [Jobs -> BOOLEAN]
        /\ checked \in [Jobs -> SUBSET OutputSet] /\ late \in [Jobs -> SUBSET OutputSet]
        /\ genuine \subseteq Foreign /\ left \subseteq Inode
    BY DEF TpchInit, Body
  <2>4. fds \in [Jobs -> SUBSET (Transaction \cup Publication)]
    BY <1>2
  <2>5. /\ home \in [Jobs -> Dirs] /\ index \in [Jobs -> DOMAIN Outputs]
        /\ undo \in [Jobs -> SUBSET (0..Len(Outputs))] /\ settled \in [Jobs -> BOOLEAN]
        /\ aside \in [Jobs -> [name : 0..Len(Outputs), file : Inode \cup {None}]]
        /\ staged \in [Jobs -> Inode \cup {None}] /\ sid \in [Jobs -> Inode \cup {None}]
        /\ owned \in [Jobs -> [OutputSet -> Inode \cup {None}]]
        /\ target \in [Dirs -> [OutputSet -> Inode \cup {None}]]
        /\ current \in Dirs /\ placed \subseteq Foreign
    BY <1>2, <1>3
  <2> QED
    BY <1>1, <2>1, <2>2, <2>3, <2>4, <2>5 DEF TpchTypeOK
<1>5. Apart /\ ForeignFilesSurvive
  BY <1>2, <1>3 DEF Apart, ForeignFilesSurvive
<1>6. ASSUME NEW j \in Jobs PROVE JobInv(j)
  <2>1. /\ pc[j] \in {"idle", "checking", "failed"} /\ j # None
        /\ pc[j] \notin Published \cup Undoing
        /\ pc[j] \notin {"stating", "staging", "renaming", "cleaning", "moving", "judging", "releasing"}
        /\ pc[j] \notin {"binding", "rebinding", "committing", "committed"}
    BY <1>1, Sizes DEF Published, Undoing
  <2>2. /\ staged[j] = None /\ sid[j] = None /\ aside[j] = Nothing /\ ~settled[j]
        /\ index[j] = 1 /\ home[j] = 1 /\ \A o \in OutputSet : owned[j][o] = None
    BY <1>2
  <2>3. \A d \in Dirs, o \in OutputSet : target[d][o] = None
    BY <1>2
  <2>4. Proved(j)
    BY <1>2 DEF Proved
  <2>5. Held(j)
    BY <1>2, <2>1 DEF Held, Ended, Publishing, Publication, Transaction
  <2>6. Recording(j) /\ InHand(j)
    BY <1>3, <2>1, <2>2 DEF Recording, InHand, Own
  <2>7. Located(j)
    BY <1>2, <1>3, <2>1, <2>2, <2>3 DEF Located
  <2>8. Checked(j) /\ LastLook(j)
    BY <2>1, <2>2 DEF Checked, LastLook
  <2> QED
    BY <2>4, <2>5, <2>6, <2>7, <2>8 DEF JobInv
<1> QED
  BY <1>4, <1>5, <1>6 DEF TpchInv

LEMMA TpchHolds == TpchSpec => []TpchInv
  BY TpchStarts, TpchStep, PTL DEF TpchSpec

-----------------------------------------------------------------------------
(* The theorems.                                                            *)

\* Only an image whose configuration and contents were both proved generates
\* files, wherever the tag has moved meanwhile (ensure_image, run).
THEOREM OnlyProvedImagesRun == TpchSpec => []RanVerifiedImage
<1>1. TpchInv => RanVerifiedImage
  BY DEF TpchInv, JobInv, Proved, RanVerifiedImage
<1> QED
  BY <1>1, TpchHolds, PTL

\* What a call that returns has left was verified where it lies, but for what
\* others did after the last look (publish_verified_files, commit).
THEOREM ReturnedFilesVerified == TpchSpec => []GeneratedIsVerified
<1>1. TpchInv => GeneratedIsVerified
  <2> SUFFICES ASSUME TpchInv, NEW j \in Jobs, pc[j] = "committed", NEW o \in OutputSet,
                      o \notin late[j]
               PROVE  /\ home[j] = current /\ target[current][o] = owned[j][o]
                      /\ Locked(o, target[current][o])
    BY DEF GeneratedIsVerified
  <2>1. Checked(j) /\ LastLook(j)
    BY DEF TpchInv, JobInv
  <2>2. home[j] = current /\ target[home[j]][o] = owned[j][o] /\ owned[j][o] # None
    BY <2>1 DEF LastLook
  <2>3. Locked(o, owned[j][o])
    BY <2>1, <2>2 DEF Checked, Sure
  <2> QED
    BY <2>2, <2>3
<1> QED
  BY <1>1, TpchHolds, PTL

\* A call that fails takes back every name it recorded, unless a rename of the
\* cleanup failed or another cleanup held its file; all that may stay is a staging
\* link whose os.stat failed before it was recorded.  A call that has ended holds
\* no descriptor (_Publication.rollback, owned_directory).
THEOREM FailedCallTakenBack == TpchSpec => []GenerationTakenBack
<1>1. TpchInv => GenerationTakenBack
  <2> SUFFICES ASSUME TpchInv PROVE GenerationTakenBack
    OBVIOUS
  <2>1. ASSUME NEW j \in Jobs, pc[j] = "failed", ~kept[j]
        PROVE  NotPublished(j) /\ (staged[j] = j => sid[j] = None)
    <3>1. Located(j)
      BY DEF TpchInv, JobInv
    <3> QED
      BY <2>1, <3>1 DEF Located, Past, NotPublished
  <2>2. ASSUME NEW j \in Jobs, pc[j] \in Ended PROVE fds[j] = {}
    BY <2>2 DEF TpchInv, JobInv, Held
  <2>3. TpchTypeOK
    BY DEF TpchInv
  <2> QED
    BY <2>1, <2>2, <2>3 DEF GenerationTakenBack
<1> QED
  BY <1>1, TpchHolds, PTL

\* No cleanup destroys a file that someone else put under a published name,
\* however the two race (_remove_owned_entry).
THEOREM ForeignFilesKept == TpchSpec => []ForeignFilesSurvive
<1>1. TpchInv => ForeignFilesSurvive
  BY DEF TpchInv
<1> QED
  BY <1>1, TpchHolds, PTL
=============================================================================
