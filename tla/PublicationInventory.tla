------------------------ MODULE PublicationInventory ------------------------
(***************************************************************************)
(* The inventory a dry run or a rollback reports (datasets/publication.py, *)
(* _attach_verified_history): the manifests reached from the one it is     *)
(* about, the manifests nobody refers to, and, if every manifest could be  *)
(* read, the generations no manifest names.  It walks, lists and reads one *)
(* request at a time beside publishers that go on publishing; nothing      *)
(* locks the dataset for it.                                               *)
(***************************************************************************)
EXTENDS PublishedStore, Sequences

CONSTANTS
    Order,        \* the publications in the order the store lists their keys
    PageSize,     \* bound: keys on one page of a listing
    MaxRequests,  \* _MAX_LEGACY_LIST_PAGES, the budget of one inventory
    MaxHistory    \* _MAX_HISTORY_DEPTH

ASSUME InventoryAssumption ==
    /\ Order \in Seq(Publications) /\ \A p \in Publications : \E i \in DOMAIN Order : Order[i] = p
    /\ PageSize \in Nat \ {0} /\ MaxRequests \in Nat /\ MaxHistory \in Nat

VARIABLE inv

Modes == {"default", "refresh", "rollback"}

Unbegun == [at |-> "idle", scale |-> None, current |-> None, roots |-> {},
            trail |-> None, depth |-> 0, reached |-> {}, requests |-> 0, position |-> 0,
            listed |-> {}, plans |-> {}, unreferenced |-> {}, ambiguous |-> {}, before |-> {}]

InventoryInit == inv = Unbegun

Committed == {p \in Publications : manifests[p] # None}

\* _InventoryBudget.request counts a request even when it refuses it.
Spent(n) == IF n > MaxRequests THEN n ELSE n + 1

Exhausted == inv.requests >= MaxRequests
Request(locals) == inv' = [locals EXCEPT !.requests = Spent(@)]
Fail == inv' = [Unbegun EXCEPT !.at = "failed"]

-----------------------------------------------------------------------------
\* publish_dataset, dry run: what the inventory is about.  A corrupt pointer
\* fails a default run and leaves a refresh without an inventory.
Begin(mode, scale, target) ==
    LET begun == [Unbegun EXCEPT !.before = Committed] IN
    /\ inv.at = "idle"
    /\ CASE active = None /\ mode = "rollback" -> Fail
         [] active = None /\ mode = "default" -> inv' = [begun EXCEPT !.at = "legacy"]
         [] active = None /\ mode = "refresh" -> inv' = [begun EXCEPT !.at = "list"]
         [] active # None /\ ~PointerReadable ->
                IF mode = "refresh" THEN inv' = [Unbegun EXCEPT !.at = "unavailable"] ELSE Fail
         [] PointerReadable /\ mode = "rollback" ->
                inv' = [begun EXCEPT !.at = "verify", !.scale = scale,
                                     !.current = target, !.roots = {active}]
         [] OTHER -> inv' = [begun EXCEPT !.at = "verify", !.scale = scale, !.current = active]

\* Objects of the old layout are all there and good, or there are none.
Legacy ==
    /\ inv.at = "legacy"
    /\ inv' = [inv EXCEPT !.at = "list"]

\* The manifest it is about resolves, with every object verified; of a rollback
\* the pointer's own manifest is only read.
VerifyCurrent ==
    /\ inv.at = "verify"
    /\ IF /\ \A p \in inv.roots : ManifestReadable(p)
          /\ Intact(inv.current)
          /\ ForPlan(inv.current, inv.scale)
       THEN inv' = [inv EXCEPT !.at = "walk", !.scale = None, !.current = None,
                               !.reached = {inv.current},
                               !.trail = manifests[inv.current].previous]
       ELSE Fail

\* _manifest_history: along previous_manifest_key, first from the current
\* manifest, then from the additional one.
WalkHistory ==
    /\ inv.at = "walk"
    /\ inv.depth < MaxHistory
    /\ inv.trail # None
    /\ IF ~Exhausted /\ ManifestReadable(inv.trail)
       THEN Request([inv EXCEPT !.reached = @ \cup {inv.trail}, !.depth = @ + 1,
                                !.trail = manifests[inv.trail].previous])
       ELSE Fail

WalkEnds ==
    /\ inv.at = "walk"
    /\ inv.depth < MaxHistory
    /\ inv.trail = None
    /\ IF inv.roots = {}
       THEN inv' = [inv EXCEPT !.at = "list", !.depth = 0]
       ELSE LET root == CHOOSE p \in inv.roots : TRUE IN
            inv' = [inv EXCEPT !.roots = @ \ {root}, !.reached = @ \cup {root}, !.depth = 0,
                               !.trail = manifests[root].previous]

\* The loop ends after MaxHistory manifests, even with the last one.
WalkTooDeep ==
    /\ inv.at = "walk"
    /\ inv.depth = MaxHistory
    /\ inv' = [Unbegun EXCEPT !.at = "too deep"]

\* The keys of S from the token's position on, in the store's order.
Rest(S, position) == {Order[i] : i \in {j \in position + 1 .. Len(Order) : Order[j] \in S}}

\* One page of a listing of S up to position last: the store may send fewer
\* keys than it could, even none.
PageEnds(S, last) ==
    /\ \/ last = inv.position
       \/ last > inv.position /\ Order[last] \in S
    /\ Cardinality(Rest(S, inv.position) \ Rest(S, last)) <= PageSize
Page(S, last) == inv.listed \cup (Rest(S, inv.position) \ Rest(S, last))

\* IsTruncated.
Truncated(S, last) == Rest(S, last) # {}

\* _bounded_object_keys: then each listed manifest that was not reached is read.
ListManifests(last) ==
    /\ inv.at = "list"
    /\ PageEnds(Committed, last)
    /\ IF Exhausted THEN Fail
       ELSE IF Truncated(Committed, last)
       THEN Request([inv EXCEPT !.listed = Page(Committed, last), !.position = last])
       ELSE Request([inv EXCEPT !.at = "read", !.position = 0,
                                !.listed = Page(Committed, last) \ inv.reached])

\* Mutant: a manifest that cannot be read is passed over.
SkipUnreadable ==
    /\ inv.at = "read"
    /\ \E p \in inv.listed :
           Request([inv EXCEPT !.listed = @ \ {p},
                        !.unreferenced = @ \cup ({p} \cap {q \in Publications : ManifestReadable(q)})])

\* A manifest nobody refers to still names its generation.  One that cannot be
\* read, for lack of budget too, is ambiguous.
ReadUnreferenced ==
    /\ inv.at = "read"
    /\ \E p \in inv.listed :
           \/ /\ ~Exhausted /\ ManifestReadable(p)
              /\ Request([inv EXCEPT !.listed = @ \ {p}, !.unreferenced = @ \cup {p}])
           \/ Request([inv EXCEPT !.listed = @ \ {p}, !.ambiguous = @ \cup {p}])

AllRead ==
    /\ inv.at = "read"
    /\ inv.listed = {}
    /\ inv' = [inv EXCEPT !.at = IF inv.ambiguous = {} THEN "plans" ELSE "partial"]

Generations == {p \in Publications : objects[p] # {}}
GenerationsOf(plan) == {p \in Generations : Scale[p] = plan}

\* _inactive_generation_prefixes: the plans that have generations, then the
\* generations of each.
ListPlans ==
    /\ inv.at = "plans"
    /\ IF Exhausted THEN Fail
       ELSE Request([inv EXCEPT !.at = "prefixes", !.plans = {Scale[p] : p \in Generations}])

ListPrefixes(last) ==
    LET plan == CHOOSE s \in inv.plans : TRUE
        S == GenerationsOf(plan)
    IN  /\ inv.at = "prefixes"
        /\ inv.plans # {}
        /\ PageEnds(S, last)
        /\ IF Exhausted THEN Fail
           ELSE IF Truncated(S, last)
           THEN Request([inv EXCEPT !.listed = Page(S, last), !.position = last])
           ELSE Request([inv EXCEPT !.listed = Page(S, last), !.position = 0,
                                    !.plans = @ \ {plan}])

\* The generations left over are the candidates.
Report ==
    /\ inv.at = "prefixes"
    /\ inv.plans = {}
    /\ inv' = [inv EXCEPT !.at = "complete",
                          !.listed = @ \ (inv.reached \cup inv.unreferenced)]

\* A request fails or its answer is malformed, or its token was seen before.
InventoryFails ==
    /\ inv.at \in {"legacy", "verify", "walk", "list", "plans", "prefixes"}
    /\ Fail

InventoryStep ==
    \/ Legacy \/ VerifyCurrent \/ WalkHistory \/ WalkEnds \/ WalkTooDeep
    \/ ReadUnreferenced \/ AllRead \/ ListPlans \/ Report \/ InventoryFails
    \/ \E last \in 0..Len(Order) : ListManifests(last) \/ ListPrefixes(last)

InventoryNext ==
    \/ InventoryStep
    \/ \E m \in Modes, s \in Scales, p \in Publications : Begin(m, s, p)

\* The process runs, and no S3 call waits forever.
InventoryFairness == WF_inv(InventoryStep)

-----------------------------------------------------------------------------
(* Properties.                                                              *)

Ends == {"complete", "partial", "unavailable", "too deep", "failed"}

InventoryTypeOK ==
    /\ inv.at \in Ends \cup {"idle", "legacy", "verify", "walk", "list", "read", "plans", "prefixes"}
    /\ inv.scale \in Scales \cup {None}
    /\ inv.current \in Publications \cup {None}
    /\ inv.trail \in Publications \cup {None}
    /\ inv.depth \in 0..MaxHistory
    /\ inv.requests \in 0 .. MaxRequests + 1
    /\ inv.position \in 0..Len(Order)
    /\ inv.plans \subseteq Scales
    /\ UNION {inv.roots, inv.reached, inv.listed, inv.unreferenced, inv.ambiguous, inv.before}
           \subseteq Publications

\* An inventory accounts for every manifest that was stored when it began, though
\* keys appear between its pages, and no generation committed by then is a
\* candidate, whoever publishes and repoints meanwhile and whatever has become
\* unreadable (_attach_verified_history, _inactive_generation_prefixes).
CandidatesUncommitted ==
    /\ InventoryTypeOK
    /\ inv.at \in {"complete", "partial"} =>
           inv.before \subseteq inv.reached \cup inv.unreferenced \cup inv.ambiguous
    /\ inv.at = "complete" => inv.listed \cap inv.before = {}

\* An inventory ends, even if the store keeps sending empty pages
\* (_InventoryBudget).
InventoryEnds == <>[](inv.at \in Ends \cup {"idle"})
=============================================================================
