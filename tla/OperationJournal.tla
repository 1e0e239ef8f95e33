-------------------------- MODULE OperationJournal --------------------------
(***************************************************************************)
(* What the retention service promises to whoever reads the evidence of    *)
(* its operations: what is to be deleted is reviewed once, nothing leaves  *)
(* the leaf before the operation has an attempt on record, and each        *)
(* attempt goes into the journal once, after all the others, saying what   *)
(* is gone at that moment and no less than was said before.  A completed   *)
(* attempt is the last one.  RetentionOperations, with its plans, locks,   *)
(* audits, lost answers, crashes and retries, implements it as long as an  *)
(* operation's requests come one at a time.                                *)
(***************************************************************************)
EXTENDS Naturals, Sequences

CONSTANTS
    Ops,        \* operations
    Objects,    \* object versions, each with the key it is stored under
    None

VARIABLES
    leaf,       \* the versions in the leaf
    manifest,   \* the reviewed versions of each operation, or None
    journal     \* the attempts of each operation, oldest first

journalVars == <<leaf, manifest, journal>>

JournalInit ==
    /\ leaf = {}
    /\ manifest = [o \in Ops |-> None]
    /\ journal = [o \in Ops |-> <<>>]

Attempts(o) == {journal[o][i] : i \in DOMAIN journal[o]}

\* A writer stores a version that no attempt ever called deleted.
Written(r) ==
    /\ \A o \in Ops : \A a \in Attempts(o) : r \notin a.deleted
    /\ leaf' = {s \in leaf : s.key # r.key} \cup {r}
    /\ UNCHANGED <<manifest, journal>>

Reviewed(o, records) ==
    /\ manifest[o] = None /\ records # None
    /\ records \subseteq Objects
    /\ manifest' = [manifest EXCEPT ![o] = records]
    /\ UNCHANGED <<leaf, journal>>

\* A delete names keys; what it meets under them is gone.
Deleted(o) ==
    /\ journal[o] # <<>>
    /\ leaf' \subseteq leaf
    /\ \A r \in leaf \ leaf' : \E s \in manifest[o] : s.key = r.key
    /\ UNCHANGED <<manifest, journal>>

\* First the preparation, then what was not ready, then what was tried.
Stage(state) == CASE state = "prepared"             -> 0
                  [] state = "not_ready"            -> 1
                  [] state \in {"refused", "partial"} -> 2
                  [] state = "completed"            -> 3

MayFollow(last, a) ==
    /\ last.state # "completed"
    /\ Stage(last.state) <= Stage(a.state)
    /\ last.deleted \subseteq a.deleted
    /\ last.occurred_at <= a.occurred_at

Attempted(o, a) ==
    /\ manifest[o] # None
    /\ journal[o] = <<>> <=> a.state = "prepared"
    /\ journal[o] # <<>> => MayFollow(journal[o][Len(journal[o])], a)
    /\ a.state \in {"prepared", "not_ready"} => a.deleted = {}
    /\ a.state = "partial" => a.deleted # {}
    /\ a.deleted \subseteq manifest[o] \ leaf
    /\ a.state = "completed" => a.deleted = manifest[o]
    /\ journal' = [journal EXCEPT ![o] = Append(@, a)]
    /\ UNCHANGED <<leaf, manifest>>

JournalNext ==
    \/ \E r \in leaf' : Written(r)
    \/ \E o \in Ops : \/ Reviewed(o, manifest'[o])
                      \/ Deleted(o)
                      \/ \E a \in Attempts(o)' : Attempted(o, a)

JournalSpec == JournalInit /\ [][JournalNext]_journalVars
=============================================================================
