-------------------------- MODULE DatasetRegister ---------------------------
(***************************************************************************)
(* What the publication of a dataset promises to its readers: objects are  *)
(* only added, a manifest appears once and only over all of its objects,   *)
(* it follows nothing or a manifest that was active, and the active        *)
(* pointer only ever moves to a stored manifest.  DatasetPublication, with *)
(* its leases, lost answers, late puts, deaths and rollbacks, implements   *)
(* it; the readers of PublishedStore rely on nothing else.                 *)
(***************************************************************************)
EXTENDS Naturals

CONSTANTS
    Publications, \* one generation of the dataset each
    Files,        \* outputs of a publication
    None

VARIABLES
    objects,      \* files stored under each publication's prefix
    manifests,    \* the stored manifest of each publication, or None
    active,       \* the publication active/{dataset}.json names, or None
    activated     \* the publications the pointer has named

registerVars == <<objects, manifests, active, activated>>

RegisterInit ==
    /\ objects = [p \in Publications |-> {}]
    /\ manifests = [p \in Publications |-> None]
    /\ active = None
    /\ activated = {}

Upload(p, f) ==
    /\ objects' = [objects EXCEPT ![p] = @ \cup {f}]
    /\ UNCHANGED <<manifests, active, activated>>

Commit(p, base) ==
    /\ manifests[p] = None
    /\ objects[p] = Files
    /\ base \in activated \cup {None}
    /\ manifests' = [manifests EXCEPT ![p] = [previous |-> base]]
    /\ UNCHANGED <<objects, active, activated>>

Repoint(p) ==
    /\ manifests[p] # None
    /\ active' = p
    /\ activated' = activated \cup {p}
    /\ UNCHANGED <<objects, manifests>>

RegisterNext ==
    \E p \in Publications :
        \/ \E f \in Files : Upload(p, f)
        \/ \E base \in Publications \cup {None} : Commit(p, base)
        \/ Repoint(p)

RegisterSpec == RegisterInit /\ [][RegisterNext]_registerVars
=============================================================================
