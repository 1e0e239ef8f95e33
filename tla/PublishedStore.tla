--------------------------- MODULE PublishedStore ---------------------------
(***************************************************************************)
(* The published datasets as their readers meet them: the register, kept   *)
(* in an object store that may lose or damage what it holds.  A reader     *)
(* gets no snapshot: each GET sees the store of its own moment.            *)
(***************************************************************************)
EXTENDS DatasetRegister, FiniteSets

CONSTANTS
    Scale,        \* the scale each publication was selected for
    MaxDamage     \* bound: things that get damaged

ASSUME StoreAssumption ==
    /\ Files # {}
    /\ None \notin Publications
    /\ None \notin [previous : Publications \cup {None}]
    /\ DOMAIN Scale = Publications
    /\ MaxDamage \in Nat

VARIABLE damaged  \* what no longer reads as what was stored

storeVars == <<registerVars, damaged>>

ThePointer == <<"pointer">>
TheManifest(p) == <<"manifest", p>>
TheObject(p, f) == <<"object", p, f>>

Scales == {Scale[p] : p \in Publications}

StoreInit == RegisterInit /\ damaged = {}

\* Writing the pointer replaces damaged bytes; immutable keys stay as they are.
Publish ==
    /\ RegisterNext
    /\ damaged' = IF active' = active THEN damaged ELSE damaged \ {ThePointer}

Damage(x) ==
    /\ x \notin damaged
    /\ Cardinality(damaged) < MaxDamage
    /\ damaged' = damaged \cup {x}
    /\ UNCHANGED registerVars

DamageControl ==
    \/ active # None /\ Damage(ThePointer)
    \/ \E p \in Publications : manifests[p] # None /\ Damage(TheManifest(p))

DamageObject == \E p \in Publications : \E f \in objects[p] : Damage(TheObject(p, f))

\* A canonical pointer of this dataset, whose key follows from its digest.
PointerReadable == active # None /\ ThePointer \notin damaged

\* The digest of the bytes is the one the key names, and they decode.
ManifestReadable(p) == manifests[p] # None /\ TheManifest(p) \notin damaged

\* Dataset, scale, plan, prefix and objects are those of the selected plan.
ForPlan(p, scale) == Scale[p] = scale

\* Size, digest and physical schema of the bytes that a full GET returns.
ObjectVerifies(p, f) == f \in objects[p] /\ TheObject(p, f) \notin damaged

\* Everything a reader of publication p checks is as it was published.
Intact(p) == ManifestReadable(p) /\ \A f \in Files : ObjectVerifies(p, f)
=============================================================================
