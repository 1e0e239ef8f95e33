------------------------ MODULE DatasetReadersProofs -------------------------
(***************************************************************************)
(* What the readers of a dataset can rely on, for every number of          *)
(* connections, slots, publications, files and pages: the resolver's slots *)
(* are accounted for, its S3 client outlives its handlers, what it answers *)
(* was active and intact at one moment, and an inventory accounts for      *)
(* every manifest there was when it began.  No bound of DatasetReaders and *)
(* no separation of its three situations is used.                          *)
(***************************************************************************)
EXTENDS DatasetReaders, FiniteSetTheorems, SequenceTheorems, TLAPS

(* The store.                                                               *)

Manifest == [previous : Publications \cup {None}]

\* What DatasetRegister leaves to a reader: a manifest stands over all of its
\* objects, and the pointer names a stored manifest.
StoreInv ==
    /\ objects \in [Publications -> SUBSET Files]
    /\ manifests \in [Publications -> Manifest \cup {None}]
    /\ active \in Publications \cup {None}
    /\ activated \subseteq Publications
    /\ \A p \in Publications : manifests[p] # None => objects[p] = Files
    /\ active # None => manifests[active] # None

\* What a step of the store never takes back.
StoreGrows ==
    /\ \A p \in Publications : manifests[p] # None => manifests'[p] # None
    /\ damaged \ {ThePointer} \subseteq damaged'

-----------------------------------------------------------------------------
(* The resolver.                                                            *)

Handler == [at : Steps, left : 0..MaxBody, document : Documents,
            scale : Scales \cup {None}, found : Publications \cup {None},
            todo : SUBSET Files, seen : SUBSET Publications]

\* The connections whose handler is at one of some steps.
Holding(points) == {c \in Connections : conn[c].at \in points}

\* Steps with a connection slot: process_request, then the handler's thread.
Seated == Running \cup {"admitted"}

\* Where the main thread is between taking a slot and starting the thread.
MainPlaced ==
    main.at \in {"admitted", "listed"} =>
        main.conn \in Connections /\ conn[main.conn].at = "admitted"

SlotInv ==
    /\ ResolverTypeOK
    /\ MainPlaced
    /\ IsFiniteSet(Holding(Resolving))
    /\ IsFiniteSet(Holding(Seated))
    /\ work + Cardinality(Holding(Resolving)) = MaxResolverWork
    /\ main.at \in Accepting => slots + Cardinality(Holding(Seated)) = MaxConnections

IsListed(c) == \E i \in 1..Len(threads) : threads[i] = c

\* Whom the shutdown waits for.
ClientInv ==
    /\ services = "closed" => main.at = "closed"
    /\ main.at = "closed" => \A c \in Connections : ~Alive(c)
    /\ main.at \in Accepting \cup {"joining"} =>
           \A c \in Connections : Alive(c) => IsListed(c)
    /\ main.at = "listed" => IsListed(main.conn)

\* A publication that was not active and intact while the request was being
\* resolved has something wrong with it that the reads to come will meet.
Grounded(c) ==
    LET h == conn[c] IN
    /\ h.at \in Resolving => ActiveNow \subseteq h.seen
    /\ h.at = "manifest" =>
           /\ h.found # None
           /\ \/ h.found \in h.seen
              \/ TheManifest(h.found) \in damaged
              \/ \E f \in Files : TheObject(h.found, f) \in damaged
    /\ h.at = "object" =>
           /\ h.found # None
           /\ Scale[h.found] = h.scale
           /\ h.found \in h.seen \/ \E f \in h.todo : TheObject(h.found, f) \in damaged
    /\ h.at = "respond" /\ h.found # None =>
           h.found \in h.seen /\ Scale[h.found] = h.scale

AnswerInv == StoreInv /\ \A c \in Connections : Grounded(c)

-----------------------------------------------------------------------------
(* The inventory.                                                           *)

InventorySteps ==
    Ends \cup {"idle", "legacy", "verify", "walk", "list", "read", "plans", "prefixes"}

InventoryRecord ==
    [at : InventorySteps, scale : Scales \cup {None}, current : Publications \cup {None},
     roots : SUBSET Publications, trail : Publications \cup {None}, depth : 0..MaxHistory,
     reached : SUBSET Publications, requests : 0 .. MaxRequests + 1, position : 0..Len(Order),
     listed : SUBSET Publications, plans : SUBSET Scales, unreferenced : SUBSET Publications,
     ambiguous : SUBSET Publications, before : SUBSET Publications]

\* Where each manifest of the beginning is, step by step.
AccountInv ==
    /\ StoreInv
    /\ inv \in InventoryRecord
    /\ inv.before \subseteq Committed
    /\ inv.at = "verify" => inv.current # None
    /\ inv.at = "walk" => inv.roots \subseteq Committed
    /\ inv.at \in {"legacy", "verify", "walk"} => inv.position = 0
    /\ inv.at = "list" =>
           inv.before \subseteq inv.reached \cup inv.listed \cup Rest(Committed, inv.position)
    /\ inv.at = "read" =>
           inv.before \subseteq
               inv.reached \cup inv.listed \cup inv.unreferenced \cup inv.ambiguous
    /\ inv.at \in {"plans", "prefixes", "complete"} =>
           inv.before \subseteq inv.reached \cup inv.unreferenced
    /\ inv.at = "partial" =>
           inv.before \subseteq inv.reached \cup inv.unreferenced \cup inv.ambiguous
    /\ inv.at = "complete" => inv.listed \cap inv.before = {}

-----------------------------------------------------------------------------
(* The store's steps.                                                       *)

\* The readers begin over an empty store or over one publication.
LEMMA StoreBegins ==
  ASSUME ReadersInit
  PROVE  StoreInv
<1>1. None \notin Manifest /\ None \notin Publications
  BY StoreAssumption DEF Manifest
<1>2. [previous |-> None] \in Manifest
  BY DEF Manifest
<1>3. CASE Published
  BY <1>1, <1>2, <1>3, ReadersAssumption DEF Published, StoreInv
<1>4. CASE StoreInit
  BY <1>1, <1>4 DEF StoreInit, RegisterInit, StoreInv
<1> QED
  BY <1>3, <1>4 DEF ReadersInit

\* Damage touches nothing the register holds, and nothing that is damaged
\* recovers but the pointer, which is rewritten.
LEMMA StoreMoves ==
  ASSUME StoreInv, Publish \/ DamageControl \/ DamageObject
  PROVE  StoreInv' /\ StoreGrows
<1>1. None \notin Manifest /\ None \notin Publications
  BY StoreAssumption DEF Manifest
<1>2. CASE UNCHANGED registerVars /\ \E x : damaged' = damaged \cup {x}
  BY <1>2 DEF registerVars, StoreInv, StoreGrows
<1>3. ASSUME Publish
      PROVE  StoreInv' /\ StoreGrows
  <2>1. damaged \ {ThePointer} \subseteq damaged'
    BY <1>3 DEF Publish
  <2>2. PICK p \in Publications :
            \/ \E f \in Files : Upload(p, f)
            \/ \E base \in Publications \cup {None} : Commit(p, base)
            \/ Repoint(p)
    BY <1>3 DEF Publish, RegisterNext
  <2>3. ASSUME NEW f \in Files, Upload(p, f)
        PROVE  StoreInv' /\ StoreGrows
    BY <2>1, <2>3 DEF Upload, StoreInv, StoreGrows
  <2>4. ASSUME NEW base \in Publications \cup {None}, Commit(p, base)
        PROVE  StoreInv' /\ StoreGrows
    <3>1. [previous |-> base] \in Manifest
      BY DEF Manifest
    <3> QED
      BY <1>1, <2>1, <2>4, <3>1 DEF Commit, StoreInv, StoreGrows
  <2>5. ASSUME Repoint(p)
        PROVE  StoreInv' /\ StoreGrows
    BY <1>1, <2>1, <2>5 DEF Repoint, StoreInv, StoreGrows
  <2> QED
    BY <2>2, <2>3, <2>4, <2>5
<1>4. CASE DamageControl
  BY <1>2, <1>4 DEF DamageControl, Damage
<1>5. CASE DamageObject
  BY <1>2, <1>5 DEF DamageObject, Damage
<1> QED
  BY <1>3, <1>4, <1>5

\* The three kinds of step, as far as the store is concerned.
LEMMA StoreKept ==
  ASSUME StoreInv, [ReadersNext]_readerVars
  PROVE  StoreInv' /\ StoreGrows
<1>1. CASE UNCHANGED storeVars
  BY <1>1 DEF storeVars, registerVars, StoreInv, StoreGrows
<1>2. CASE StoreStep
  BY <1>2, StoreMoves DEF StoreStep
<1> QED
  BY <1>1, <1>2 DEF ReadersNext, ResolverStep, readerVars

-----------------------------------------------------------------------------
(* The inventory's account.                                                 *)

\* A listing from its start holds everything.
LEMMA RestOfAll ==
  ASSUME NEW S \in SUBSET Publications
  PROVE  S \subseteq Rest(S, 0)
<1> SUFFICES ASSUME NEW p \in S PROVE p \in Rest(S, 0)
  OBVIOUS
<1>1. PICK i \in DOMAIN Order : Order[i] = p
  BY InventoryAssumption
<1>2. i \in 0 + 1 .. Len(Order)
  BY InventoryAssumption
<1> QED
  BY <1>1, <1>2 DEF Rest

\* What is left to list grows with the store.
LEMMA RestGrows ==
  ASSUME NEW S, NEW T, S \subseteq T, NEW n \in Nat
  PROVE  Rest(S, n) \subseteq Rest(T, n)
BY DEF Rest

\* A listing only yields publications.
LEMMA RestOfPublications ==
  ASSUME NEW S \in SUBSET Publications, NEW n \in Nat
  PROVE  Rest(S, n) \subseteq Publications
BY DEF Rest

\* The counter of requests stops one beyond the budget.
LEMMA SpentType ==
  ASSUME NEW n \in 0 .. MaxRequests + 1
  PROVE  Spent(n) \in 0 .. MaxRequests + 1
BY InventoryAssumption DEF Spent

\* Every counter can start at zero.
LEMMA ZeroTypes == 0 \in 0..MaxHistory /\ 0 \in 0 .. MaxRequests + 1 /\ 0 \in 0..Len(Order)
BY InventoryAssumption

\* An inventory that has not begun.
LEMMA UnbegunType ==
  /\ Unbegun \in InventoryRecord
  /\ Unbegun.position = 0 /\ Unbegun.before = {} /\ Unbegun.roots = {}
  /\ Unbegun.reached = {} /\ Unbegun.listed = {} /\ Unbegun.at = "idle"
BY ZeroTypes DEF Unbegun, InventoryRecord, InventorySteps

\* An inventory that has failed says nothing.
LEMMA FailAccount ==
  ASSUME StoreInv', Fail
  PROVE  AccountInv'
<1>1. inv' = [Unbegun EXCEPT !.at = "failed"]
  BY DEF Fail
<1>2. inv' \in InventoryRecord /\ inv'.at = "failed" /\ inv'.before = {}
  BY <1>1, UnbegunType, ZenonT(60) DEF InventoryRecord, InventorySteps, Ends
<1> QED
  BY <1>2 DEF AccountInv

\* Beginning an inventory.
LEMMA BeginAccount ==
  ASSUME AccountInv, StoreInv', NEW m \in Modes, NEW s \in Scales, NEW t \in Publications,
         Begin(m, s, t), UNCHANGED storeVars
  PROVE  AccountInv'
<1> DEFINE begun == [Unbegun EXCEPT !.before = Committed]
<1>1. /\ StoreInv /\ Committed' = Committed /\ Committed \subseteq Publications
      /\ None \notin Publications
  BY StoreAssumption DEF AccountInv, Committed, storeVars, registerVars
<1>2. /\ begun \in InventoryRecord /\ begun.position = 0 /\ begun.before = Committed
      /\ begun.roots = {} /\ begun.reached = {} /\ begun.listed = {}
  BY <1>1, UnbegunType, ZenonT(60) DEF InventoryRecord, InventorySteps, Ends
<1>3. Committed \subseteq Rest(Committed, 0) /\ Rest(Committed', 0) = Rest(Committed, 0)
  BY <1>1, RestOfAll
<1>4. CASE inv' = [begun EXCEPT !.at = "legacy"]
  BY <1>1, <1>2, <1>4, ZenonT(60) DEF AccountInv, InventoryRecord, InventorySteps
<1>5. CASE inv' = [begun EXCEPT !.at = "list"]
  <2>1. /\ inv' \in InventoryRecord /\ inv'.at = "list" /\ inv'.before = Committed
        /\ inv'.position = 0
    BY <1>2, <1>5 DEF InventoryRecord, InventorySteps
  <2> QED
    BY <1>1, <1>3, <2>1 DEF AccountInv
<1>6. CASE \E p \in Publications, R \in SUBSET Publications :
               inv' = [begun EXCEPT !.at = "verify", !.scale = s, !.current = p, !.roots = R]
  <2>1. PICK p \in Publications, R \in SUBSET Publications :
            inv' = [begun EXCEPT !.at = "verify", !.scale = s, !.current = p, !.roots = R]
    BY <1>6
  <2>2. /\ inv' \in InventoryRecord /\ inv'.at = "verify" /\ inv'.before = Committed
        /\ inv'.position = 0 /\ inv'.current = p
    BY <1>2, <2>1 DEF InventoryRecord, InventorySteps
  <2> QED
    BY <1>1, <2>2 DEF AccountInv
<1>7. CASE inv' = [Unbegun EXCEPT !.at = "unavailable"]
  <2>1. inv' \in InventoryRecord /\ inv'.at = "unavailable" /\ inv'.before = {}
    BY <1>7, UnbegunType DEF InventoryRecord, InventorySteps, Ends
  <2> QED
    BY <2>1 DEF AccountInv
<1>8. CASE PointerReadable /\ m = "rollback"
  <2>1. active \in Publications
    BY <1>1, <1>8 DEF PointerReadable, StoreInv
  <2>2. inv' = [begun EXCEPT !.at = "verify", !.scale = s, !.current = t, !.roots = {active}]
    BY <1>8 DEF Begin, PointerReadable
  <2> QED
    BY <1>6, <2>1, <2>2
<1>9. CASE PointerReadable /\ m # "rollback"
  <2>1. active \in Publications
    BY <1>1, <1>9 DEF PointerReadable, StoreInv
  <2>2. inv' = [begun EXCEPT !.at = "verify", !.scale = s, !.current = active]
    BY <1>9 DEF Begin, PointerReadable
  <2>3. inv' = [begun EXCEPT !.at = "verify", !.scale = s, !.current = active, !.roots = {}]
    BY <1>2, <2>2 DEF InventoryRecord
  <2> QED
    BY <1>6, <2>1, <2>3
<1>10. CASE ~PointerReadable
  <2>1. \/ Fail \/ inv' = [begun EXCEPT !.at = "legacy"] \/ inv' = [begun EXCEPT !.at = "list"]
        \/ inv' = [Unbegun EXCEPT !.at = "unavailable"]
    BY <1>10 DEF Begin, PointerReadable, Modes
  <2> QED
    BY <1>4, <1>5, <1>7, <2>1, FailAccount
<1> QED
  BY <1>8, <1>9, <1>10

\* A request changes nothing but what it is made for.
LEMMA RequestType ==
  ASSUME NEW l \in InventoryRecord, Request(l)
  PROVE  /\ inv' \in InventoryRecord
         /\ inv'.at = l.at /\ inv'.before = l.before /\ inv'.reached = l.reached
         /\ inv'.listed = l.listed /\ inv'.position = l.position /\ inv'.roots = l.roots
         /\ inv'.unreferenced = l.unreferenced /\ inv'.ambiguous = l.ambiguous
<1>1. inv' = [l EXCEPT !.requests = Spent(l.requests)]
  BY DEF Request
<1>2. Spent(l.requests) \in 0 .. MaxRequests + 1
  BY SpentType DEF InventoryRecord
<1> QED
  BY <1>1, <1>2 DEF InventoryRecord

\* The walk: what is current, what it follows, and what the pointer names.
LEMMA WalkAccount ==
  ASSUME AccountInv, StoreInv', UNCHANGED storeVars,
         Legacy \/ VerifyCurrent \/ WalkHistory \/ WalkEnds \/ WalkTooDeep
  PROVE  AccountInv'
<1>1. /\ StoreInv /\ Committed' = Committed /\ Committed \subseteq Publications
      /\ inv \in InventoryRecord /\ inv.before \subseteq Committed
      /\ UNCHANGED <<manifests, damaged>> /\ None \notin Publications
  BY StoreAssumption DEF AccountInv, Committed, storeVars, registerVars
<1>2. Committed \subseteq Rest(Committed, 0) /\ Rest(Committed', 0) = Rest(Committed, 0)
  BY <1>1, RestOfAll
<1>3. \A p \in Committed : manifests[p].previous \in Publications \cup {None}
  BY <1>1 DEF StoreInv, Committed, Manifest
<1>4. CASE Legacy
  <2>1. /\ inv' \in InventoryRecord /\ inv'.at = "list" /\ inv'.before = inv.before
        /\ inv'.position = 0
    BY <1>1, <1>4 DEF Legacy, AccountInv, InventoryRecord, InventorySteps
  <2> QED
    BY <1>1, <1>2, <2>1 DEF AccountInv
<1>5. CASE VerifyCurrent
  <2>1. CASE Fail
    BY <2>1, FailAccount
  <2>2. CASE ~Fail
    <3>1. /\ inv.at = "verify"
          /\ \A p \in inv.roots : ManifestReadable(p)
          /\ Intact(inv.current)
          /\ inv' = [inv EXCEPT !.at = "walk", !.scale = None, !.current = None,
                                !.reached = {inv.current},
                                !.trail = manifests[inv.current].previous]
      BY <1>5, <2>2 DEF VerifyCurrent
    <3>2. inv.current \in Committed
      BY <1>1, <3>1 DEF Intact, ManifestReadable, Committed, AccountInv, InventoryRecord
    <3>3. inv.roots \subseteq Committed
      BY <1>1, <3>1 DEF ManifestReadable, Committed, InventoryRecord
    <3>4. /\ inv' \in InventoryRecord /\ inv'.at = "walk" /\ inv'.before = inv.before
          /\ inv'.position = inv.position /\ inv'.roots = inv.roots
      BY <1>1, <1>3, <3>1, <3>2 DEF InventoryRecord, InventorySteps
    <3>5. inv.position = 0
      BY <3>1 DEF AccountInv
    <3> QED
      BY <1>1, <3>3, <3>4, <3>5 DEF AccountInv
  <2> QED
    BY <2>1, <2>2
<1>6. CASE WalkHistory
  <2>1. CASE Fail
    BY <2>1, FailAccount
  <2>2. CASE ~Fail
    <3> DEFINE l == [inv EXCEPT !.reached = inv.reached \cup {inv.trail}, !.depth = inv.depth + 1,
                                !.trail = manifests[inv.trail].previous]
    <3>1. /\ inv.at = "walk" /\ inv.depth < MaxHistory /\ inv.trail # None
          /\ ManifestReadable(inv.trail) /\ Request(l)
      BY <1>6, <2>2 DEF WalkHistory
    <3>2. inv.trail \in Committed
      BY <1>1, <3>1 DEF ManifestReadable, Committed, InventoryRecord
    <3>3. inv.depth + 1 \in 0..MaxHistory
      BY <1>1, <3>1, InventoryAssumption DEF InventoryRecord
    <3>4. /\ l \in InventoryRecord /\ l.at = "walk" /\ l.before = inv.before
          /\ l.position = inv.position /\ l.roots = inv.roots
      BY <1>1, <1>3, <3>1, <3>2, <3>3 DEF InventoryRecord
    <3>5. inv.position = 0 /\ inv.roots \subseteq Committed
      BY <3>1 DEF AccountInv
    <3> HIDE DEF l
    <3>6. /\ inv' \in InventoryRecord /\ inv'.at = "walk" /\ inv'.before = inv.before
          /\ inv'.position = 0 /\ inv'.roots = inv.roots
      BY <3>1, <3>4, <3>5, RequestType
    <3> QED
      BY <1>1, <3>5, <3>6 DEF AccountInv
  <2> QED
    BY <2>1, <2>2
<1>7. CASE WalkEnds
  <2>1. inv.at = "walk" /\ inv.position = 0 /\ inv.roots \subseteq Committed
    BY <1>7 DEF WalkEnds, AccountInv
  <2>2. CASE inv.roots = {}
    <3>1. inv' = [inv EXCEPT !.at = "list", !.depth = 0]
      BY <1>7, <2>2 DEF WalkEnds
    <3>2. /\ inv' \in InventoryRecord /\ inv'.at = "list" /\ inv'.before = inv.before
          /\ inv'.position = 0
      BY <1>1, <2>1, <3>1, ZeroTypes DEF InventoryRecord, InventorySteps
    <3> QED
      BY <1>1, <1>2, <3>2 DEF AccountInv
  <2>3. CASE inv.roots # {}
    <3>1. PICK root \in inv.roots :
              inv' = [inv EXCEPT !.roots = inv.roots \ {root},
                                 !.reached = inv.reached \cup {root}, !.depth = 0,
                                 !.trail = manifests[root].previous]
      BY <1>7, <2>3 DEF WalkEnds
    <3>2. /\ inv' \in InventoryRecord /\ inv'.at = "walk" /\ inv'.before = inv.before
          /\ inv'.position = 0 /\ inv'.roots \subseteq inv.roots
      BY <1>1, <1>3, <2>1, <3>1, ZeroTypes DEF InventoryRecord
    <3> QED
      BY <1>1, <2>1, <3>2 DEF AccountInv
  <2> QED
    BY <2>2, <2>3
<1>8. CASE WalkTooDeep
  <2>1. inv' \in InventoryRecord /\ inv'.at = "too deep" /\ inv'.before = {}
    BY <1>8, UnbegunType DEF WalkTooDeep, InventoryRecord, InventorySteps, Ends
  <2> QED
    BY <2>1 DEF AccountInv
<1> QED
  BY <1>4, <1>5, <1>6, <1>7, <1>8

\* The listing of the manifests: what was stored at the beginning has been
\* reached or listed, or is still to come.
LEMMA ListAccount ==
  ASSUME AccountInv, StoreInv', UNCHANGED storeVars,
         NEW last \in 0..Len(Order), ListManifests(last)
  PROVE  AccountInv'
<1> DEFINE gone == Rest(Committed, inv.position) \ Rest(Committed, last)
<1>1. /\ StoreInv /\ Committed' = Committed /\ Committed \subseteq Publications
      /\ inv \in InventoryRecord /\ inv.before \subseteq Committed /\ inv.at = "list"
      /\ inv.before \subseteq inv.reached \cup inv.listed \cup Rest(Committed, inv.position)
  BY DEF AccountInv, Committed, storeVars, registerVars, ListManifests
<1>2. /\ inv.position \in Nat /\ last \in Nat /\ gone \subseteq Publications
      /\ inv.listed \in SUBSET Publications /\ inv.reached \in SUBSET Publications
  BY <1>1, InventoryAssumption, RestOfPublications DEF InventoryRecord
<1>3. CASE Fail
  BY <1>3, FailAccount
<1>4. CASE Request([inv EXCEPT !.listed = Page(Committed, last), !.position = last])
  <2> DEFINE l == [inv EXCEPT !.listed = Page(Committed, last), !.position = last]
  <2>1. /\ l \in InventoryRecord /\ l.at = "list" /\ l.before = inv.before
        /\ l.position = last /\ l.reached = inv.reached /\ l.listed = inv.listed \cup gone
    BY <1>1, <1>2 DEF InventoryRecord, Page
  <2> HIDE DEF l
  <2>2. /\ inv' \in InventoryRecord /\ inv'.at = "list" /\ inv'.before = inv.before
        /\ inv'.position = last /\ inv'.reached = inv.reached
        /\ inv'.listed = inv.listed \cup gone
    BY <1>4, <2>1, RequestType DEF l
  <2>3. Rest(Committed', last) = Rest(Committed, last)
    BY <1>1
  <2> QED
    BY <1>1, <2>2, <2>3 DEF AccountInv
<1>5. CASE /\ ~Truncated(Committed, last)
           /\ Request([inv EXCEPT !.at = "read", !.position = 0,
                                  !.listed = Page(Committed, last) \ inv.reached])
  <2> DEFINE l == [inv EXCEPT !.at = "read", !.position = 0,
                              !.listed = Page(Committed, last) \ inv.reached]
  <2>1. /\ l \in InventoryRecord /\ l.at = "read" /\ l.before = inv.before
        /\ l.reached = inv.reached /\ l.listed = (inv.listed \cup gone) \ inv.reached
    BY <1>1, <1>2, ZeroTypes DEF InventoryRecord, InventorySteps, Page
  <2> HIDE DEF l
  <2>2. /\ inv' \in InventoryRecord /\ inv'.at = "read" /\ inv'.before = inv.before
        /\ inv'.reached = inv.reached
        /\ inv'.listed = (inv.listed \cup gone) \ inv.reached
    BY <1>5, <2>1, RequestType DEF l
  <2>3. gone = Rest(Committed, inv.position)
    BY <1>5 DEF Truncated
  <2> QED
    BY <1>1, <2>2, <2>3 DEF AccountInv
<1> QED
  BY <1>3, <1>4, <1>5 DEF ListManifests

\* Reading what nobody refers to: read, or ambiguous, but not passed over.
LEMMA ReadAccount ==
  ASSUME AccountInv, StoreInv', UNCHANGED storeVars, ReadUnreferenced \/ AllRead
  PROVE  AccountInv'
<1>1. /\ StoreInv /\ Committed' = Committed /\ inv.at = "read"
      /\ inv \in InventoryRecord /\ inv.before \subseteq Committed
      /\ inv.before \subseteq
             inv.reached \cup inv.listed \cup inv.unreferenced \cup inv.ambiguous
  BY DEF AccountInv, Committed, storeVars, registerVars, ReadUnreferenced, AllRead
<1>2. CASE ReadUnreferenced
  <2>1. PICK p \in inv.listed :
            \/ Request([inv EXCEPT !.listed = inv.listed \ {p},
                                   !.unreferenced = inv.unreferenced \cup {p}])
            \/ Request([inv EXCEPT !.listed = inv.listed \ {p},
                                   !.ambiguous = inv.ambiguous \cup {p}])
    BY <1>2 DEF ReadUnreferenced
  <2> DEFINE l == [inv EXCEPT !.listed = inv.listed \ {p},
                              !.unreferenced = inv.unreferenced \cup {p}]
             k == [inv EXCEPT !.listed = inv.listed \ {p},
                              !.ambiguous = inv.ambiguous \cup {p}]
  <2>2. CASE Request(l)
    <3>1. /\ l \in InventoryRecord /\ l.at = "read" /\ l.before = inv.before
          /\ l.reached = inv.reached /\ l.listed = inv.listed \ {p}
          /\ l.unreferenced = inv.unreferenced \cup {p} /\ l.ambiguous = inv.ambiguous
      BY <1>1 DEF InventoryRecord
    <3> HIDE DEF l
    <3>2. /\ inv' \in InventoryRecord /\ inv'.at = "read" /\ inv'.before = inv.before
          /\ inv'.reached = inv.reached /\ inv'.listed = inv.listed \ {p}
          /\ inv'.unreferenced = inv.unreferenced \cup {p} /\ inv'.ambiguous = inv.ambiguous
      BY <2>2, <3>1, RequestType
    <3> QED
      BY <1>1, <3>2 DEF AccountInv
  <2>3. CASE Request(k)
    <3>1. /\ k \in InventoryRecord /\ k.at = "read" /\ k.before = inv.before
          /\ k.reached = inv.reached /\ k.listed = inv.listed \ {p}
          /\ k.unreferenced = inv.unreferenced /\ k.ambiguous = inv.ambiguous \cup {p}
      BY <1>1 DEF InventoryRecord
    <3> HIDE DEF k
    <3>2. /\ inv' \in InventoryRecord /\ inv'.at = "read" /\ inv'.before = inv.before
          /\ inv'.reached = inv.reached /\ inv'.listed = inv.listed \ {p}
          /\ inv'.unreferenced = inv.unreferenced /\ inv'.ambiguous = inv.ambiguous \cup {p}
      BY <2>3, <3>1, RequestType
    <3> QED
      BY <1>1, <3>2 DEF AccountInv
  <2> QED
    BY <2>1, <2>2, <2>3
<1>3. CASE AllRead
  <2>1. /\ inv' \in InventoryRecord
        /\ inv'.at = IF inv.ambiguous = {} THEN "plans" ELSE "partial"
        /\ inv'.before = inv.before /\ inv'.reached = inv.reached
        /\ inv'.unreferenced = inv.unreferenced /\ inv'.ambiguous = inv.ambiguous
    BY <1>1, <1>3, ZenonT(60) DEF AllRead, InventoryRecord, InventorySteps, Ends
  <2>2. inv.listed = {}
    BY <1>3 DEF AllRead
  <2> QED
    BY <1>1, <2>1, <2>2 DEF AccountInv
<1> QED
  BY <1>2, <1>3

\* The generations: once every manifest was read, nothing that was committed
\* is left over.
LEMMA PrefixAccount ==
  ASSUME AccountInv, StoreInv', UNCHANGED storeVars,
         \/ ListPlans \/ Report
         \/ \E last \in 0..Len(Order) : ListPrefixes(last)
  PROVE  AccountInv'
<1>1. /\ StoreInv /\ Committed' = Committed /\ inv.at \in {"plans", "prefixes"}
      /\ inv \in InventoryRecord /\ inv.before \subseteq Committed
      /\ inv.before \subseteq inv.reached \cup inv.unreferenced
  BY DEF AccountInv, Committed, storeVars, registerVars, ListPlans, Report, ListPrefixes
<1>2. ASSUME inv' \in InventoryRecord, inv'.at = "prefixes", inv'.before = inv.before,
             inv'.reached = inv.reached, inv'.unreferenced = inv.unreferenced
      PROVE  AccountInv'
  BY <1>1, <1>2 DEF AccountInv
<1>3. CASE Fail
  BY <1>3, FailAccount
<1>4. CASE ListPlans /\ ~Fail
  <2> DEFINE l == [inv EXCEPT !.at = "prefixes", !.plans = {Scale[p] : p \in Generations}]
  <2>1. Request(l)
    BY <1>4 DEF ListPlans
  <2>2. {Scale[p] : p \in Generations} \in SUBSET Scales
    BY DEF Generations, Scales
  <2>3. /\ l \in InventoryRecord /\ l.at = "prefixes" /\ l.before = inv.before
        /\ l.reached = inv.reached /\ l.unreferenced = inv.unreferenced
    BY <1>1, <2>2, ZenonT(60) DEF InventoryRecord, InventorySteps
  <2> HIDE DEF l
  <2> QED
    BY <1>2, <2>1, <2>3, RequestType
<1>5. ASSUME NEW last \in 0..Len(Order), ListPrefixes(last), ~Fail
      PROVE  AccountInv'
  <2> DEFINE plan == CHOOSE s \in inv.plans : TRUE
             S == GenerationsOf(plan)
             l == [inv EXCEPT !.listed = Page(S, last), !.position = last]
             k == [inv EXCEPT !.listed = Page(S, last), !.position = 0,
                              !.plans = inv.plans \ {plan}]
  <2>1. inv.at = "prefixes" /\ (Request(l) \/ Request(k))
    BY <1>5 DEF ListPrefixes
  <2>2. S \in SUBSET Publications /\ last \in Nat /\ inv.position \in Nat
    BY <1>1, InventoryAssumption DEF GenerationsOf, Generations, InventoryRecord
  <2> HIDE DEF plan, S
  <2>3. Page(S, last) \in SUBSET Publications
    BY <1>1, <2>2, RestOfPublications DEF Page, InventoryRecord
  <2>4. /\ l \in InventoryRecord /\ l.at = "prefixes" /\ l.before = inv.before
        /\ l.reached = inv.reached /\ l.unreferenced = inv.unreferenced
    BY <1>1, <2>1, <2>3 DEF InventoryRecord
  <2>5. /\ k \in InventoryRecord /\ k.at = "prefixes" /\ k.before = inv.before
        /\ k.reached = inv.reached /\ k.unreferenced = inv.unreferenced
    BY <1>1, <2>1, <2>3, ZeroTypes DEF InventoryRecord
  <2> HIDE DEF l, k
  <2>6. CASE Request(l)
    BY <1>2, <2>4, <2>6, RequestType
  <2>7. CASE Request(k)
    BY <1>2, <2>5, <2>7, RequestType
  <2> QED
    BY <2>1, <2>6, <2>7
<1>6. CASE Report
  <2>1. /\ inv' \in InventoryRecord /\ inv'.at = "complete" /\ inv'.before = inv.before
        /\ inv'.reached = inv.reached /\ inv'.unreferenced = inv.unreferenced
        /\ inv'.listed = inv.listed \ (inv.reached \cup inv.unreferenced)
    BY <1>1, <1>6 DEF Report, InventoryRecord, InventorySteps, Ends
  <2> QED
    BY <1>1, <2>1 DEF AccountInv
<1> QED
  BY <1>3, <1>4, <1>5, <1>6

\* The store moves under an inventory.
LEMMA MovesAccount ==
  ASSUME AccountInv, StoreInv', StoreGrows, UNCHANGED inv
  PROVE  AccountInv'
<1>1. Committed \subseteq Committed'
  BY DEF Committed, StoreGrows
<1>2. inv.position \in Nat
  BY InventoryAssumption DEF AccountInv, InventoryRecord
<1>3. Rest(Committed, inv.position) \subseteq Rest(Committed', inv.position)
  BY <1>1, <1>2, RestGrows
<1> QED
  BY <1>1, <1>3 DEF AccountInv

\* The account is inductive.
LEMMA AccountNext ==
  ASSUME AccountInv, [ReadersNext]_readerVars
  PROVE  AccountInv'
<1>1. StoreInv' /\ StoreGrows
  BY StoreKept DEF AccountInv
<1>2. CASE UNCHANGED inv
  BY <1>1, <1>2, MovesAccount
<1>3. CASE InventoryNext /\ UNCHANGED storeVars
  <2>1. CASE Legacy \/ VerifyCurrent \/ WalkHistory \/ WalkEnds \/ WalkTooDeep
    BY <1>1, <1>3, <2>1, WalkAccount
  <2>2. CASE ReadUnreferenced \/ AllRead
    BY <1>1, <1>3, <2>2, ReadAccount
  <2>3. CASE ListPlans \/ Report \/ \E last \in 0..Len(Order) : ListPrefixes(last)
    BY <1>1, <1>3, <2>3, PrefixAccount
  <2>4. ASSUME NEW last \in 0..Len(Order), ListManifests(last)
        PROVE  AccountInv'
    BY <1>1, <1>3, <2>4, ListAccount
  <2>5. CASE InventoryFails
    BY <1>1, <2>5, FailAccount DEF InventoryFails
  <2>6. ASSUME NEW m \in Modes, NEW s \in Scales, NEW p \in Publications, Begin(m, s, p)
        PROVE  AccountInv'
    BY <1>1, <1>3, <2>6, BeginAccount
  <2> QED
    BY <1>3, <2>1, <2>2, <2>3, <2>4, <2>5, <2>6 DEF InventoryNext, InventoryStep
<1> QED
  BY <1>2, <1>3 DEF ReadersNext, StoreStep, ResolverStep, readerVars

\* However the store moves between its requests, an inventory accounts for
\* every manifest there was when it began, and no generation that was committed
\* by then is among its candidates (_attach_verified_history,
\* _inactive_generation_prefixes).
THEOREM InventoryAccounts == ReadersSpec => []CandidatesUncommitted
<1>1. ASSUME ReadersInit
      PROVE  AccountInv
  <2>1. StoreInv /\ inv = Unbegun
    BY <1>1, StoreBegins DEF ReadersInit, InventoryInit
  <2> QED
    BY <2>1, UnbegunType DEF AccountInv
<1>2. AccountInv => CandidatesUncommitted
  BY DEF AccountInv, InventoryRecord, InventorySteps, CandidatesUncommitted, InventoryTypeOK
<1> QED
  BY <1>1, <1>2, AccountNext, PTL DEF ReadersSpec

-----------------------------------------------------------------------------
(* What a resolution answers.                                               *)

\* A connection nothing has been done for.
LEMMA FreshType == Fresh \in Handler /\ Fresh.at = "away" /\ "away" \notin Resolving
BY ResolverAssumption DEF Fresh, Handler, Steps, Documents, Resolving

\* The steps of a handler that reads nothing leave what it says of a
\* publication alone, or forget it.
LEMMA AnswerSteps ==
  ASSUME AnswerInv, ResolverTypeOK, ResolverNext, UNCHANGED storeVars
  PROVE  \A c \in Connections : Grounded(c)'
<1> SUFFICES ASSUME NEW c \in Connections PROVE Grounded(c)'
  OBVIOUS
<1>1. /\ StoreInv /\ Grounded(c) /\ ActiveNow' = ActiveNow /\ UNCHANGED damaged
      /\ None \notin Publications
  BY StoreAssumption
  DEF AnswerInv, storeVars, registerVars, ActiveNow, Intact, ManifestReadable, ObjectVerifies
<1>2. conn \in [Connections -> Handler]
  BY DEF ResolverTypeOK, Handler
<1>3. CASE conn'[c] = conn[c]
  BY <1>1, <1>3 DEF Grounded
<1>4. CASE conn'[c].at \notin Resolving
  BY <1>1, <1>4 DEF Grounded, Resolving
<1>5. CASE conn'[c].at = "respond" /\ conn'[c].found = None /\ conn'[c].seen = conn[c].seen
           /\ conn[c].at \in Resolving
  BY <1>1, <1>5 DEF Grounded, Resolving
<1>6. ASSUME MainStep \/ Interrupt \/ InterruptJoin
      PROVE  conn'[c] = conn[c] \/ conn'[c].at \notin Resolving
  <2>1. \A a \in {"ended", "admitted", "stillborn"} :
            [Fresh EXCEPT !.at = a].at = a /\ a \notin Resolving
    BY FreshType DEF Handler, Resolving
  <2>2. CASE UNCHANGED conn
    BY <2>2
  <2>3. ASSUME NEW d \in Connections, TurnAway(d) \/ Admit(d)
        PROVE  conn'[c] = conn[c] \/ conn'[c].at \notin Resolving
    BY <1>2, <2>1, <2>3 DEF TurnAway, Admit, Goto
  <2>4. CASE StartThread
    <3>1. CASE main.conn = c
      <4>1. conn'[c] = [conn[c] EXCEPT !.at = "request"]
        BY <1>2, <2>4, <3>1 DEF StartThread, Goto
      <4> QED
        BY <1>2, <4>1 DEF Handler, Resolving
    <3>2. CASE main.conn # c
      BY <1>2, <2>4, <3>2 DEF StartThread, Goto
    <3> QED
      BY <3>1, <3>2
  <2>5. CASE StartFails
    BY <1>2, <2>1, <2>5 DEF StartFails, Goto
  <2>6. CASE Interrupt
    <3>1. \/ conn'[c] = conn[c] \/ conn'[c] = [Fresh EXCEPT !.at = "ended"]
          \/ conn'[c] = [Fresh EXCEPT !.at = "stillborn"]
      BY <2>6 DEF Interrupt
    <3> QED
      BY <2>1, <3>1
  <2> QED
    BY <1>6, <2>2, <2>3, <2>4, <2>5, <2>6
    DEF MainStep, ListThread, Started, Join, CloseServices, InterruptJoin
<1>7. ASSUME NEW d \in Connections, ClientStep(d)
      PROVE  conn'[c] = conn[c] \/ conn'[c].at \notin Resolving
  <2>1. CASE Connect(d)
    BY <1>2, <2>1, FreshType DEF Connect, Goto, Handler, Resolving
  <2>2. CASE BodyArrives(d) \/ ClientLeaves(d) \/ \E s \in HeadStatuses : ReadHead(d, s)
    BY <1>2, <2>2, ZenonT(60) DEF BodyArrives, ClientLeaves, ReadHead, Goto, Resolving, Handler
  <2> QED
    BY <1>7, <2>1, <2>2 DEF ClientStep
<1>8. ASSUME NEW d \in Connections, HandlerStep(d)
      PROVE  Grounded(c)'
  <2>1. CASE TimesOut(d) \/ ReplySent(d) \/ RespondSent(d) \/ Finish(d)
             \/ \E m \in Documents, s \in Scales : Decode(d, m, s)
    <3>1. conn'[c] = conn[c] \/ conn'[c].at \notin Resolving
      <4>1. CASE Finish(d)
        BY <1>2, <4>1, FreshType DEF Finish, Goto, Resolving, Handler
      <4>2. CASE ~Finish(d)
        <5>1. conn[d] \in Handler
          BY <1>2
        <5>2. /\ [conn[d] EXCEPT !.at = "finish"].at = "finish"
              /\ [conn[d] EXCEPT !.at = "reply"].at = "reply"
              /\ [conn[d] EXCEPT !.at = "reply", !.left = 0].at = "reply"
              /\ [conn[d] EXCEPT !.at = "finish", !.found = None, !.seen = {}].at = "finish"
              /\ \A m, s : [conn[d] EXCEPT !.at = "admit", !.document = m, !.scale = s].at = "admit"
          BY <5>1 DEF Handler
        <5>3. \E l : Goto(d, l) /\ l.at \in {"finish", "reply", "admit"}
          <6>1. CASE TimesOut(d)
            BY <5>2, <6>1 DEF TimesOut
          <6>2. CASE ReplySent(d) \/ RespondSent(d)
            BY <5>2, <6>2 DEF ReplySent, RespondSent
          <6>3. CASE \E m \in Documents, s \in Scales : Decode(d, m, s)
            <7>1. PICK m \in Documents, s \in Scales : Decode(d, m, s)
              BY <6>3
            <7>2. \/ Goto(d, [conn[d] EXCEPT !.at = "reply"])
                  \/ Goto(d, [conn[d] EXCEPT !.at = "admit", !.document = m, !.scale = s])
              BY <7>1 DEF Decode
            <7> DEFINE l == [conn[d] EXCEPT !.at = "admit", !.document = m, !.scale = s]
            <7>3. l.at = "admit" /\ (Goto(d, [conn[d] EXCEPT !.at = "reply"]) \/ Goto(d, l))
              BY <5>2, <7>2
            <7> HIDE DEF l
            <7> QED
              BY <5>2, <7>3
          <6> QED
            BY <2>1, <4>2, <6>1, <6>2, <6>3
        <5> QED
          BY <1>2, <5>3 DEF Goto, Resolving
      <4> QED
        BY <4>1, <4>2
    <3> QED
      BY <1>3, <1>4, <3>1
  <2>2. CASE d # c
    <3>1. conn'[c] = conn[c]
      BY <1>2, <1>8, <2>2
      DEF HandlerStep, TimesOut, ReplySent, RespondSent, Finish, Decode, AcquireWork,
          ReadPointer, ReadManifest, VerifyObject, ResolveFails, Respond, Goto
    <3> QED
      BY <1>3, <3>1
  <2>3. CASE d = c /\ AcquireWork(c)
    <3>1. \/ conn'[c].at \notin Resolving
          \/ conn'[c].at = "pointer" /\ conn'[c].seen = ActiveNow
      BY <1>2, <2>3 DEF AcquireWork, Goto, Resolving, Handler
    <3> QED
      BY <1>1, <1>4, <3>1 DEF Grounded
  <2>4. ASSUME conn[c].at \in Resolving, Respond(c, None)
        PROVE  Grounded(c)'
    <3>1. conn'[c].at = "respond" /\ conn'[c].found = None /\ conn'[c].seen = conn[c].seen
      BY <1>2, <2>4 DEF Respond, Goto, Handler
    <3> QED
      BY <1>5, <2>4, <3>1
  <2>5. CASE d = c /\ ResolveFails(c)
    BY <2>4, <2>5 DEF ResolveFails, Resolving
  <2>6. CASE d = c /\ ReadPointer(c)
    <3>1. conn[c].at \in Resolving
      BY <2>6 DEF ReadPointer, Resolving
    <3>2. CASE Respond(c, None)
      BY <2>4, <3>1, <3>2
    <3>3. CASE ~Respond(c, None)
      <4>1. PointerReadable /\ Goto(c, [conn[c] EXCEPT !.at = "manifest", !.found = active])
        BY <2>6, <3>3 DEF ReadPointer
      <4>2. /\ conn'[c].at = "manifest" /\ conn'[c].found = active
            /\ conn'[c].seen = conn[c].seen
        BY <1>2, <4>1 DEF Goto, Handler
      <4>3. active \in Publications /\ manifests[active] # None /\ objects[active] = Files
        BY <1>1, <4>1 DEF PointerReadable, StoreInv
      <4>4. \/ active \in ActiveNow \/ TheManifest(active) \in damaged
            \/ \E f \in Files : TheObject(active, f) \in damaged
        BY <1>1, <4>3 DEF ActiveNow, Intact, ManifestReadable, ObjectVerifies
      <4>5. ActiveNow \subseteq conn[c].seen
        BY <1>1, <3>1 DEF Grounded
      <4> QED
        BY <1>1, <4>2, <4>3, <4>4, <4>5 DEF Grounded
    <3> QED
      BY <3>2, <3>3
  <2>7. CASE d = c /\ ReadManifest(c)
    <3>1. conn[c].at \in Resolving /\ conn[c].at = "manifest"
      BY <2>7 DEF ReadManifest, Resolving
    <3>2. CASE Respond(c, None)
      BY <2>4, <3>1, <3>2
    <3>3. CASE ~Respond(c, None)
      <4>1. /\ ManifestReadable(conn[c].found) /\ ForPlan(conn[c].found, conn[c].scale)
            /\ Goto(c, [conn[c] EXCEPT !.at = "object", !.todo = Files])
        BY <2>7, <3>3 DEF ReadManifest
      <4>2. /\ conn'[c].at = "object" /\ conn'[c].found = conn[c].found
            /\ conn'[c].seen = conn[c].seen /\ conn'[c].todo = Files
            /\ conn'[c].scale = conn[c].scale
        BY <1>2, <4>1 DEF Goto, Handler
      <4> QED
        BY <1>1, <3>1, <4>1, <4>2 DEF Grounded, ManifestReadable, ForPlan
    <3> QED
      BY <3>2, <3>3
  <2>8. CASE d = c /\ VerifyObject(c)
    <3> DEFINE f == CHOOSE g \in conn[c].todo : TRUE
               rest == conn[c].todo \ {f}
    <3>1. conn[c].at \in Resolving /\ conn[c].at = "object"
      BY <2>8 DEF VerifyObject, Resolving
    <3>2. CASE Respond(c, None)
      BY <2>4, <3>1, <3>2
    <3>3. CASE ~Respond(c, None)
      <4>1. /\ ObjectVerifies(conn[c].found, f)
            /\ IF rest = {} THEN Respond(c, conn[c].found)
                            ELSE Goto(c, [conn[c] EXCEPT !.todo = rest])
        BY <2>8, <3>3 DEF VerifyObject
      <4> HIDE DEF f
      <4>2. /\ conn'[c].found = conn[c].found /\ conn'[c].seen = conn[c].seen
            /\ conn'[c].scale = conn[c].scale
            /\ \/ rest = {} /\ conn'[c].at = "respond"
               \/ conn'[c].at = "object" /\ conn'[c].todo = rest
        <5>1. CASE rest = {} /\ conn'[c] = [conn[c] EXCEPT !.at = "respond",
                                                !.found = conn[c].found, !.todo = {}]
          BY <1>2, <5>1 DEF Handler
        <5>2. CASE conn'[c] = [conn[c] EXCEPT !.todo = rest]
          BY <1>2, <3>1, <5>2 DEF Handler
        <5> QED
          BY <1>2, <4>1, <5>1, <5>2 DEF Respond, Goto
      <4>3. TheObject(conn[c].found, f) \notin damaged
        BY <4>1 DEF ObjectVerifies
      <4>4. /\ conn[c].found # None /\ Scale[conn[c].found] = conn[c].scale
            /\ ActiveNow \subseteq conn[c].seen
            /\ \/ conn[c].found \in conn[c].seen
               \/ \E g \in rest : TheObject(conn[c].found, g) \in damaged
        BY <1>1, <3>1, <4>3 DEF Grounded
      <4> QED
        BY <1>1, <4>2, <4>4 DEF Grounded
    <3> QED
      BY <3>2, <3>3
  <2> QED
    BY <1>8, <2>1, <2>2, <2>3, <2>5, <2>6, <2>7, <2>8 DEF HandlerStep
<1> QED
  BY <1>3, <1>4, <1>6, <1>7, <1>8 DEF ResolverNext

\* What is active and intact is remembered, and damage does not heal.
LEMMA AnswerKept ==
  ASSUME AnswerInv, ResolverTypeOK, StoreStep
  PROVE  \A c \in Connections : Grounded(c)'
<1> SUFFICES ASSUME NEW c \in Connections PROVE Grounded(c)'
  OBVIOUS
<1>1. StoreInv' /\ StoreGrows
  BY StoreMoves DEF AnswerInv, StoreStep
<1>2. conn \in [Connections -> Handler]
  BY DEF ResolverTypeOK, Handler
<1>3. /\ Grounded(c)
      /\ conn'[c] = IF conn[c].at \in Resolving
                    THEN [conn[c] EXCEPT !.seen = conn[c].seen \cup ActiveNow'] ELSE conn[c]
  BY DEF AnswerInv, StoreStep
<1>4. \A p, f : TheObject(p, f) # ThePointer /\ TheManifest(p) # ThePointer
  BY DEF TheObject, TheManifest, ThePointer
<1>5. \A p, f : /\ TheObject(p, f) \in damaged => TheObject(p, f) \in damaged'
                /\ TheManifest(p) \in damaged => TheManifest(p) \in damaged'
  BY <1>1, <1>4 DEF StoreGrows
<1>6. CASE conn[c].at \notin Resolving
  BY <1>3, <1>6 DEF Grounded, Resolving
<1>7. CASE conn[c].at \in Resolving
  <2>1. /\ conn'[c].at = conn[c].at /\ conn'[c].found = conn[c].found
        /\ conn'[c].todo = conn[c].todo /\ conn'[c].scale = conn[c].scale
        /\ conn'[c].seen = conn[c].seen \cup ActiveNow'
    BY <1>2, <1>3, <1>7 DEF Handler
  <2> QED
    BY <1>3, <1>5, <2>1 DEF Grounded
<1> QED
  BY <1>6, <1>7

-----------------------------------------------------------------------------
(* The slots.                                                               *)

\* Reaping the list of threads keeps it a list, and every thread that is alive.
LEMMA ReapedKeeps ==
  ASSUME threads \in Seq(Connections)
  PROVE  /\ Reaped \in Seq(Connections)
         /\ \A i \in 1..Len(threads) : Alive(threads[i]) =>
                \E n \in 1..Len(Reaped) : Reaped[n] = threads[i]
<1> DEFINE kept == {i \in DOMAIN threads : Alive(threads[i])}
           upto(i) == {k \in kept : k <= i}
           rank == [i \in kept |-> Cardinality(upto(i))]
           size == Cardinality(kept)
<1>1. DOMAIN threads = 1..Len(threads) /\ Len(threads) \in Nat
  OBVIOUS
<1>2. IsFiniteSet(1..Len(threads))
  BY <1>1, FS_Interval
<1>3. IsFiniteSet(kept) /\ size \in Nat
  <2>1. kept \in SUBSET (1..Len(threads))
    BY <1>1
  <2> QED
    BY <1>2, <2>1, FS_Subset, FS_CardinalityType
<1>4. ASSUME NEW i \in kept
      PROVE  /\ IsFiniteSet(upto(i)) /\ upto(i) \subseteq kept /\ i \in upto(i)
             /\ Cardinality(upto(i)) \in 1..size
  <2>1. upto(i) \in SUBSET kept /\ i \in upto(i)
    BY <1>1
  <2>2. IsFiniteSet(upto(i)) /\ Cardinality(upto(i)) <= size
    BY <1>3, <2>1, FS_Subset
  <2>3. Cardinality(upto(i)) \in Nat /\ Cardinality(upto(i)) # 0
    BY <2>1, <2>2, FS_CardinalityType, FS_EmptySet
  <2> QED
    BY <1>3, <2>1, <2>2, <2>3
<1>5. ASSUME NEW i \in kept, NEW j \in kept, rank[i] = rank[j]
      PROVE  i = j
  <2>1. i \in Nat /\ j \in Nat
    BY <1>1
  <2>2. ASSUME NEW a \in kept, NEW b \in kept, rank[a] = rank[b], a < b
        PROVE  FALSE
    <3>1. a \in Nat /\ b \in Nat
      BY <1>1
    <3>2. upto(a) \in SUBSET upto(b) /\ b \notin upto(a) /\ b \in upto(b)
      BY <1>1, <2>2, <3>1
    <3>3. Cardinality(upto(b)) = Cardinality(upto(a)) => upto(b) = upto(a)
      BY <1>4, <3>2, FS_Subset
    <3> QED
      BY <2>2, <3>2, <3>3
  <2>3. ~(i < j)
    BY <1>5, <2>2
  <2>4. ~(j < i)
    BY <1>5, <2>2
  <2> QED
    BY <2>1, <2>3, <2>4
<1>6. rank \in Injection(kept, 1..size)
  BY <1>4, <1>5 DEF Injection, IsInjective
<1>7. rank \in Surjection(kept, 1..size)
  <2>1. IsFiniteSet(1..size) /\ Cardinality(1..size) = size
    BY <1>3, FS_Interval
  <2> QED
    BY <1>6, <2>1, FS_Injection
<1>8. \A n \in 1..size : \E i \in kept : Cardinality(upto(i)) = n
  BY <1>7 DEF Surjection
<1>9. Reaped = [n \in 1..size |-> threads[CHOOSE i \in kept : Cardinality(upto(i)) = n]]
  BY DEF Reaped
<1> HIDE DEF kept, size
<1>10. ASSUME NEW n \in 1..size
       PROVE  \E i \in kept : Cardinality(upto(i)) = n /\ Reaped[n] = threads[i]
  BY <1>8, <1>9
<1>11. \A i \in kept : i \in 1..Len(threads) /\ threads[i] \in Connections
  BY <1>1 DEF kept
<1>12. Reaped \in Seq(Connections) /\ Len(Reaped) = size
  <2>1. \A n \in 1..size : Reaped[n] \in Connections
    BY <1>10, <1>11
  <2>2. Reaped \in [1..size -> Connections]
    BY <1>9, <2>1
  <2>3. Reaped \in Seq(Connections)
    BY <1>3, <2>2, SeqDef
  <2>4. DOMAIN Reaped = 1..size
    BY <2>2
  <2>5. DOMAIN Reaped = 1..Len(Reaped) /\ Len(Reaped) \in Nat
    BY <2>3
  <2>6. \A n \in Nat : Cardinality(1..n) = n
    BY FS_Interval
  <2> QED
    BY <1>3, <2>3, <2>4, <2>5, <2>6
<1>13. ASSUME NEW i \in 1..Len(threads), Alive(threads[i])
       PROVE  \E n \in 1..Len(Reaped) : Reaped[n] = threads[i]
  <2>1. i \in kept
    BY <1>1, <1>13 DEF kept
  <2>2. Cardinality(upto(i)) \in 1..size
    BY <1>4, <2>1
  <2>3. PICK j \in kept : Cardinality(upto(j)) = Cardinality(upto(i))
                          /\ Reaped[Cardinality(upto(i))] = threads[j]
    BY <1>10, <2>2
  <2>4. j = i
    BY <1>5, <2>1, <2>3
  <2> QED
    BY <1>12, <2>2, <2>3, <2>4
<1> QED
  BY <1>12, <1>13

\* One connection moves: how many are at some steps changes by at most one.
LEMMA HoldingMoves ==
  ASSUME NEW K, NEW c \in Connections, NEW l \in Handler,
         conn \in [Connections -> Handler], conn' = [conn EXCEPT ![c] = l],
         IsFiniteSet(Holding(K))
  PROVE  /\ IsFiniteSet(Holding(K)')
         /\ Cardinality(Holding(K)) \in Nat /\ Cardinality(Holding(K)') \in Nat
         /\ (l.at \in K <=> conn[c].at \in K) =>
                Cardinality(Holding(K)') = Cardinality(Holding(K))
         /\ l.at \in K /\ conn[c].at \notin K =>
                Cardinality(Holding(K)') = Cardinality(Holding(K)) + 1
         /\ l.at \notin K /\ conn[c].at \in K =>
                Cardinality(Holding(K)') = Cardinality(Holding(K)) - 1
<1>1. conn'[c] = l /\ \A d \in Connections \ {c} : conn'[d] = conn[d]
  OBVIOUS
<1>2. CASE l.at \in K <=> conn[c].at \in K
  <2>1. Holding(K)' = Holding(K)
    BY <1>1, <1>2 DEF Holding
  <2> QED
    BY <1>2, <2>1, FS_CardinalityType
<1>3. CASE l.at \in K /\ conn[c].at \notin K
  <2>1. Holding(K)' = Holding(K) \cup {c} /\ c \notin Holding(K)
    BY <1>1, <1>3 DEF Holding
  <2> QED
    BY <1>3, <2>1, FS_AddElement, FS_CardinalityType
<1>4. CASE l.at \notin K /\ conn[c].at \in K
  <2>1. Holding(K)' = Holding(K) \ {c} /\ c \in Holding(K)
    BY <1>1, <1>4 DEF Holding
  <2> QED
    BY <1>4, <2>1, FS_RemoveElement, FS_CardinalityType
<1> QED
  BY <1>2, <1>3, <1>4

\* The places of a handler, apart from its locals.
LEMMA Places ==
  /\ Resolving \subseteq Running /\ Running \subseteq Seated /\ Seated \subseteq Steps
  /\ {"away", "queued", "stillborn", "ended"} \cap Seated = {}
  /\ {"request", "body", "admit", "reply", "finish", "admitted"} \cap Resolving = {}
  /\ {"away", "queued", "stillborn", "ended"} \cap Resolving = {}
BY DEF Resolving, Running, Seated, Steps

\* A step of one connection that takes and releases no slot.
LEMMA QuietStep ==
  ASSUME SlotInv, NEW c \in Connections, NEW l \in Handler, Goto(c, l), UNCHANGED serverVars,
         conn[c].at # "admitted",
         l.at \in Resolving <=> conn[c].at \in Resolving,
         l.at \in Seated <=> conn[c].at \in Seated
  PROVE  SlotInv'
<1>1. conn \in [Connections -> Handler] /\ conn' = [conn EXCEPT ![c] = l]
  BY DEF SlotInv, ResolverTypeOK, Handler, Goto
<1>2. UNCHANGED <<main, threads, slots, work, services>>
  BY DEF serverVars
<1>3. conn' \in [Connections -> Handler]
  BY <1>1
<1>4. /\ IsFiniteSet(Holding(Resolving)') /\ IsFiniteSet(Holding(Seated)')
      /\ Cardinality(Holding(Resolving)') = Cardinality(Holding(Resolving))
      /\ Cardinality(Holding(Seated)') = Cardinality(Holding(Seated))
  BY <1>1, HoldingMoves DEF SlotInv
<1>5. ResolverTypeOK'
  BY <1>2, <1>3 DEF SlotInv, ResolverTypeOK, Handler
<1>6. MainPlaced'
  BY <1>1, <1>2 DEF SlotInv, MainPlaced
<1> QED
  BY <1>2, <1>4, <1>5, <1>6 DEF SlotInv

\* The client's steps and the handler's steps that leave the slots alone.
LEMMA QuietSlots ==
  ASSUME SlotInv, StoreInv, NEW c \in Connections,
         \/ ClientStep(c)
         \/ TimesOut(c) \/ ReplySent(c)
         \/ ReadPointer(c) \/ ReadManifest(c) \/ VerifyObject(c) \/ ResolveFails(c)
         \/ \E m \in Documents, s \in Scales : Decode(c, m, s)
  PROVE  SlotInv'
<1>1. conn[c] \in Handler
  BY DEF SlotInv, ResolverTypeOK, Handler
<1> DEFINE Still(l) == /\ l \in Handler /\ Goto(c, l) /\ UNCHANGED serverVars
                       /\ conn[c].at # "admitted"
                       /\ l.at \in Resolving <=> conn[c].at \in Resolving
                       /\ l.at \in Seated <=> conn[c].at \in Seated
<1>2. ASSUME NEW l, Still(l) PROVE SlotInv'
  BY <1>2, QuietStep
<1>3. CASE Connect(c)
  <2>1. /\ [Fresh EXCEPT !.at = "queued"] \in Handler
        /\ [Fresh EXCEPT !.at = "queued"].at = "queued"
    BY FreshType DEF Handler, Steps
  <2>2. Still([Fresh EXCEPT !.at = "queued"])
    BY <1>3, <2>1, Places DEF Connect
  <2> QED
    BY <1>2, <2>2
<1> DEFINE Busy == {"request", "body", "admit", "reply", "finish"}
<1>4. ASSUME NEW l \in Handler, Goto(c, l), UNCHANGED serverVars,
             conn[c].at \in Busy, l.at \in Busy
      PROVE  SlotInv'
  <2>1. Still(l)
    BY <1>4, Places DEF Running, Seated
  <2> QED
    BY <1>2, <2>1
<1>5. ASSUME NEW l \in Handler, Goto(c, l), UNCHANGED serverVars,
             conn[c].at \in Resolving, l.at \in Resolving
      PROVE  SlotInv'
  <2>1. Still(l)
    BY <1>5, Places
  <2> QED
    BY <1>2, <2>1
<1>6. CASE BodyArrives(c)
  <2>1. [conn[c] EXCEPT !.left = conn[c].left - 1] \in Handler
    BY <1>1, <1>6, ResolverAssumption DEF BodyArrives, Handler
  <2> QED
    BY <1>1, <1>4, <1>6, <2>1 DEF BodyArrives, Handler
<1>7. 0 \in 0..MaxBody
  BY ResolverAssumption
<1>8. CASE ClientLeaves(c) \/ TimesOut(c) \/ ReplySent(c)
  <2>1. \A a \in {"reply", "finish"} :
            /\ [conn[c] EXCEPT !.at = a] \in Handler
            /\ [conn[c] EXCEPT !.at = a].at = a
            /\ [conn[c] EXCEPT !.at = a, !.left = 0] \in Handler
            /\ [conn[c] EXCEPT !.at = a, !.left = 0].at = a
    BY <1>1, <1>7 DEF Handler, Steps, Running
  <2>2. \E a \in {"reply", "finish"} :
            /\ \/ Goto(c, [conn[c] EXCEPT !.at = a])
               \/ Goto(c, [conn[c] EXCEPT !.at = a, !.left = 0])
            /\ UNCHANGED serverVars /\ conn[c].at \in Busy
    BY <1>8 DEF ClientLeaves, TimesOut, ReplySent
  <2> QED
    BY <1>4, <2>1, <2>2
<1>9. ASSUME NEW status \in HeadStatuses, ReadHead(c, status)
      PROVE  SlotInv'
  <2>1. CASE Goto(c, [conn[c] EXCEPT !.at = "reply"])
    <3>1. /\ [conn[c] EXCEPT !.at = "reply"] \in Handler
          /\ [conn[c] EXCEPT !.at = "reply"].at = "reply"
      BY <1>1 DEF Handler, Steps, Running
    <3> QED
      BY <1>4, <1>9, <2>1, <3>1 DEF ReadHead
  <2>2. ASSUME NEW n \in 0..MaxBody, Goto(c, [conn[c] EXCEPT !.at = "body", !.left = n])
        PROVE  SlotInv'
    <3>1. /\ [conn[c] EXCEPT !.at = "body", !.left = n] \in Handler
          /\ [conn[c] EXCEPT !.at = "body", !.left = n].at = "body"
      BY <1>1 DEF Handler, Steps, Running
    <3> QED
      BY <1>4, <1>9, <2>2, <3>1 DEF ReadHead
  <2> QED
    BY <1>9, <2>1, <2>2 DEF ReadHead
<1>10. ASSUME NEW m \in Documents, NEW s \in Scales, Decode(c, m, s)
       PROVE  SlotInv'
  <2>1. /\ [conn[c] EXCEPT !.at = "reply"] \in Handler
        /\ [conn[c] EXCEPT !.at = "reply"].at = "reply"
        /\ [conn[c] EXCEPT !.at = "admit", !.document = m, !.scale = s] \in Handler
        /\ [conn[c] EXCEPT !.at = "admit", !.document = m, !.scale = s].at = "admit"
    BY <1>1 DEF Handler, Steps, Running
  <2>2. /\ \/ Goto(c, [conn[c] EXCEPT !.at = "reply"])
           \/ Goto(c, [conn[c] EXCEPT !.at = "admit", !.document = m, !.scale = s])
        /\ UNCHANGED serverVars /\ conn[c].at \in Busy
    BY <1>10 DEF Decode
  <2> QED
    BY <1>4, <2>1, <2>2
<1>11. ASSUME NEW found \in Publications \cup {None}, Respond(c, found),
              UNCHANGED serverVars, conn[c].at \in Resolving
       PROVE  SlotInv'
  <2>1. /\ [conn[c] EXCEPT !.at = "respond", !.found = found, !.todo = {}] \in Handler
        /\ [conn[c] EXCEPT !.at = "respond", !.found = found, !.todo = {}].at = "respond"
    BY <1>1 DEF Handler, Steps, Running, Resolving
  <2>2. "respond" \in Resolving
    BY DEF Resolving
  <2> QED
    BY <1>5, <1>11, <2>1, <2>2 DEF Respond
<1>12. CASE ReadPointer(c) \/ ResolveFails(c)
  <2>1. conn[c].at \in Resolving /\ UNCHANGED serverVars
    BY <1>12 DEF ReadPointer, ResolveFails, Resolving
  <2>2. active \in Publications \cup {None}
    BY DEF StoreInv
  <2>3. /\ [conn[c] EXCEPT !.at = "manifest", !.found = active] \in Handler
        /\ [conn[c] EXCEPT !.at = "manifest", !.found = active].at = "manifest"
        /\ "manifest" \in Resolving
    BY <1>1, <2>2 DEF Handler, Steps, Running, Resolving
  <2>4. \/ Respond(c, None)
        \/ Goto(c, [conn[c] EXCEPT !.at = "manifest", !.found = active])
    BY <1>12 DEF ReadPointer, ResolveFails
  <2> QED
    BY <1>5, <1>11, <2>1, <2>3, <2>4
<1>13. CASE ReadManifest(c)
  <2>1. conn[c].at \in Resolving /\ UNCHANGED serverVars
    BY <1>13 DEF ReadManifest, Resolving
  <2>2. /\ [conn[c] EXCEPT !.at = "object", !.todo = Files] \in Handler
        /\ [conn[c] EXCEPT !.at = "object", !.todo = Files].at = "object"
        /\ "object" \in Resolving
    BY <1>1 DEF Handler, Steps, Running, Resolving
  <2>3. Respond(c, None) \/ Goto(c, [conn[c] EXCEPT !.at = "object", !.todo = Files])
    BY <1>13 DEF ReadManifest
  <2> QED
    BY <1>5, <1>11, <2>1, <2>2, <2>3
<1>14. CASE VerifyObject(c)
  <2>1. conn[c].at \in Resolving /\ UNCHANGED serverVars
    BY <1>14 DEF VerifyObject, Resolving
  <2>2. PICK f : \/ Respond(c, None) \/ Respond(c, conn[c].found)
                 \/ Goto(c, [conn[c] EXCEPT !.todo = conn[c].todo \ {f}])
    BY <1>14 DEF VerifyObject
  <2>3. /\ [conn[c] EXCEPT !.todo = conn[c].todo \ {f}] \in Handler
        /\ [conn[c] EXCEPT !.todo = conn[c].todo \ {f}].at = conn[c].at
    BY <1>1 DEF Handler
  <2>4. conn[c].found \in Publications \cup {None}
    BY <1>1 DEF Handler
  <2> QED
    BY <1>5, <1>11, <2>1, <2>2, <2>3, <2>4
<1> QED
  BY <1>3, <1>6, <1>8, <1>9, <1>10, <1>12, <1>13, <1>14 DEF ClientStep

\* The resolver slots: taken before the reads, released after the answer.
LEMMA WorkSlots ==
  ASSUME SlotInv, NEW c \in Connections, StoreInv, AcquireWork(c) \/ RespondSent(c)
  PROVE  SlotInv'
<1>1. conn[c] \in Handler /\ conn \in [Connections -> Handler]
  BY DEF SlotInv, ResolverTypeOK, Handler
<1>2. ASSUME NEW l \in Handler, Goto(c, l), UNCHANGED <<main, threads, slots, services>>,
             conn[c].at \in Running, l.at \in Running,
             \/ conn[c].at \notin Resolving /\ l.at \in Resolving /\ work > 0 /\ work' = work - 1
             \/ conn[c].at \in Resolving /\ l.at \notin Resolving /\ work' = work + 1
      PROVE  SlotInv'
  <2>1. conn' = [conn EXCEPT ![c] = l] /\ conn' \in [Connections -> Handler]
    BY <1>1, <1>2 DEF Goto
  <2>2. /\ IsFiniteSet(Holding(Resolving)') /\ IsFiniteSet(Holding(Seated)')
        /\ Cardinality(Holding(Seated)') = Cardinality(Holding(Seated))
        /\ Cardinality(Holding(Resolving)) \in Nat /\ Cardinality(Holding(Resolving)') \in Nat
        /\ l.at \in Resolving =>
               Cardinality(Holding(Resolving)') = Cardinality(Holding(Resolving)) + 1
        /\ l.at \notin Resolving =>
               Cardinality(Holding(Resolving)') = Cardinality(Holding(Resolving)) - 1
    BY <1>1, <1>2, <2>1, HoldingMoves, Places DEF SlotInv
  <2>3. work \in Nat /\ work + Cardinality(Holding(Resolving)) = MaxResolverWork
    BY ResolverAssumption DEF SlotInv, ResolverTypeOK
  <2>4. /\ work' \in 0..MaxResolverWork
        /\ work' + Cardinality(Holding(Resolving)') = MaxResolverWork
    BY <1>2, <2>2, <2>3, ResolverAssumption
  <2>5. ResolverTypeOK'
    BY <1>2, <2>1, <2>4 DEF SlotInv, ResolverTypeOK, Handler
  <2>6. MainPlaced'
    <3>1. conn[c].at # "admitted"
      BY <1>2 DEF Running, Resolving
    <3> QED
      BY <1>1, <1>2, <2>1, <3>1 DEF SlotInv, MainPlaced
  <2> QED
    BY <1>2, <2>2, <2>4, <2>5, <2>6 DEF SlotInv
<1>3. CASE AcquireWork(c)
  <2>1. CASE work = 0
    <3>1. /\ [conn[c] EXCEPT !.at = "reply"] \in Handler
          /\ [conn[c] EXCEPT !.at = "reply"].at = "reply"
      BY <1>1 DEF Handler, Steps, Running
    <3>2. /\ Goto(c, [conn[c] EXCEPT !.at = "reply"]) /\ conn[c].at = "admit"
          /\ UNCHANGED serverVars
      BY <1>3, <2>1 DEF AcquireWork, serverVars
    <3>3. /\ {"admit", "reply"} \subseteq Seated /\ {"admit", "reply"} \cap Resolving = {}
      BY DEF Seated, Running, Resolving
    <3> QED
      BY <3>1, <3>2, <3>3, QuietStep
  <2>2. CASE work # 0
    <3>1. ActiveNow \in SUBSET Publications
      BY DEF ActiveNow, StoreInv
    <3>2. /\ [conn[c] EXCEPT !.at = "pointer", !.seen = ActiveNow] \in Handler
          /\ [conn[c] EXCEPT !.at = "pointer", !.seen = ActiveNow].at = "pointer"
      BY <1>1, <3>1 DEF Handler, Steps, Running, Resolving
    <3>3. /\ Goto(c, [conn[c] EXCEPT !.at = "pointer", !.seen = ActiveNow])
          /\ conn[c].at = "admit" /\ work' = work - 1
          /\ UNCHANGED <<main, threads, slots, services>>
      BY <1>3, <2>2 DEF AcquireWork
    <3>4. work > 0
      BY <2>2, ResolverAssumption DEF SlotInv, ResolverTypeOK
    <3>5. {"admit", "pointer"} \subseteq Running /\ "admit" \notin Resolving /\ "pointer" \in Resolving
      BY DEF Running, Resolving
    <3> QED
      BY <1>2, <3>2, <3>3, <3>4, <3>5
  <2> QED
    BY <2>1, <2>2
<1>4. CASE RespondSent(c)
  <2>1. /\ [conn[c] EXCEPT !.at = "finish", !.found = None, !.seen = {}] \in Handler
        /\ [conn[c] EXCEPT !.at = "finish", !.found = None, !.seen = {}].at = "finish"
    BY <1>1 DEF Handler, Steps, Running, Resolving
  <2>2. {"finish", "respond"} \subseteq Running /\ "finish" \notin Resolving /\ "respond" \in Resolving
    BY DEF Running, Resolving
  <2> QED
    BY <1>2, <1>4, <2>1, <2>2 DEF RespondSent
<1> QED
  BY <1>3, <1>4

\* Connections: TurnAway, Admit, StartThread, StartFails and Finish move one.
LEMMA SeatSlots ==
  ASSUME SlotInv,
         \/ StartThread \/ StartFails
         \/ \E c \in Connections : TurnAway(c) \/ Admit(c) \/ Finish(c)
  PROVE  SlotInv'
<1>1. /\ conn \in [Connections -> Handler] /\ work \in Nat /\ slots \in 0..MaxConnections
      /\ MaxConnections \in Nat /\ MaxConnections # 0
  BY ResolverAssumption DEF SlotInv, ResolverTypeOK, Handler
<1>2. \A a \in {"ended", "admitted", "stillborn"} :
          [Fresh EXCEPT !.at = a] \in Handler /\ [Fresh EXCEPT !.at = a].at = a
  BY FreshType DEF Handler, Steps
<1>3. ASSUME NEW c \in Connections, NEW l \in Handler, Goto(c, l),
             UNCHANGED <<threads, work, services>>,
             conn[c].at \notin Resolving, l.at \notin Resolving,
             slots' \in 0..MaxConnections,
             main' \in [at : Accepting \cup {"joining", "closed", "failed"},
                        conn : Connections \cup {None}],
             main'.at \in Accepting => main.at \in Accepting,
             \/ main' = main /\ conn[c].at # "admitted"
             \/ main' = [at |-> "admitted", conn |-> c] /\ l.at = "admitted"
             \/ main'.at \notin {"admitted", "listed"},
             main'.at \in Accepting =>
                 \/ slots' = slots /\ (conn[c].at \in Seated <=> l.at \in Seated)
                 \/ slots' = slots - 1 /\ conn[c].at \notin Seated /\ l.at \in Seated
                 \/ slots' = slots + 1 /\ conn[c].at \in Seated /\ l.at \notin Seated
      PROVE  SlotInv'
  <2>1. conn' = [conn EXCEPT ![c] = l] /\ conn' \in [Connections -> Handler]
    BY <1>1, <1>3 DEF Goto
  <2>2. /\ IsFiniteSet(Holding(Resolving)')
        /\ Cardinality(Holding(Resolving)') = Cardinality(Holding(Resolving))
    BY <1>1, <1>3, <2>1, HoldingMoves DEF SlotInv
  <2>3. /\ IsFiniteSet(Holding(Seated)')
        /\ Cardinality(Holding(Seated)) \in Nat /\ Cardinality(Holding(Seated)') \in Nat
        /\ (l.at \in Seated <=> conn[c].at \in Seated) =>
               Cardinality(Holding(Seated)') = Cardinality(Holding(Seated))
        /\ l.at \in Seated /\ conn[c].at \notin Seated =>
               Cardinality(Holding(Seated)') = Cardinality(Holding(Seated)) + 1
        /\ l.at \notin Seated /\ conn[c].at \in Seated =>
               Cardinality(Holding(Seated)') = Cardinality(Holding(Seated)) - 1
    BY <1>1, <1>3, <2>1, HoldingMoves DEF SlotInv
  <2>4. main'.at \in Accepting => slots' + Cardinality(Holding(Seated)') = MaxConnections
    <3> SUFFICES ASSUME main'.at \in Accepting
                 PROVE  slots' + Cardinality(Holding(Seated)') = MaxConnections
      OBVIOUS
    <3>1. slots + Cardinality(Holding(Seated)) = MaxConnections
      BY <1>3 DEF SlotInv
    <3> QED
      BY <1>1, <1>3, <2>3, <3>1
  <2>5. ResolverTypeOK'
    BY <1>3, <2>1 DEF SlotInv, ResolverTypeOK, Handler
  <2>6. MainPlaced'
    BY <1>1, <1>3, <2>1 DEF SlotInv, MainPlaced
  <2> QED
    BY <1>3, <2>2, <2>3, <2>4, <2>5, <2>6 DEF SlotInv
<1>4. ASSUME NEW c \in Connections, TurnAway(c)
      PROVE  SlotInv'
  <2>1. /\ Goto(c, [Fresh EXCEPT !.at = "ended"]) /\ UNCHANGED serverVars
        /\ conn[c].at = "queued"
    BY <1>4 DEF TurnAway
  <2> QED
    BY <1>2, <2>1, Places, QuietStep
<1>5. ASSUME NEW c \in Connections, Admit(c)
      PROVE  SlotInv'
  <2>1. /\ Goto(c, [Fresh EXCEPT !.at = "admitted"]) /\ UNCHANGED <<threads, work, services>>
        /\ conn[c].at = "queued" /\ slots > 0 /\ slots' = slots - 1
        /\ main' = [at |-> "admitted", conn |-> c] /\ main.at = "serving"
    BY <1>5 DEF Admit, Main, Serving
  <2>2. slots' \in 0..MaxConnections
    BY <1>1, <2>1
  <2>3. /\ main' \in [at : Accepting \cup {"joining", "closed", "failed"},
                      conn : Connections \cup {None}]
        /\ main.at \in Accepting
    BY <2>1 DEF Accepting
  <2>4. "admitted" \in Seated /\ "queued" \notin Seated
    BY Places DEF Seated
  <2> QED
    BY <1>2, <1>3, <2>1, <2>2, <2>3, <2>4, Places
<1>6. CASE StartThread
  <2>1. /\ main.at = "listed" /\ main.conn \in Connections /\ conn[main.conn].at = "admitted"
    BY <1>6 DEF StartThread, SlotInv, MainPlaced
  <2>2. /\ [conn[main.conn] EXCEPT !.at = "request"] \in Handler
        /\ [conn[main.conn] EXCEPT !.at = "request"].at = "request"
    BY <1>1, <2>1 DEF Handler, Steps, Running
  <2>3. /\ Goto(main.conn, [conn[main.conn] EXCEPT !.at = "request"])
        /\ UNCHANGED <<threads, slots, work, services>>
        /\ main' = [at |-> "started", conn |-> main.conn]
    BY <1>6 DEF StartThread, Main
  <2>4. /\ main' \in [at : Accepting \cup {"joining", "closed", "failed"},
                      conn : Connections \cup {None}]
        /\ main.at \in Accepting /\ main'.at = "started"
    BY <2>1, <2>3 DEF Accepting
  <2>5. {"request", "admitted"} \subseteq Seated
    BY DEF Seated, Running
  <2> QED
    BY <1>1, <1>3, <2>1, <2>2, <2>3, <2>4, <2>5, Places
<1>7. CASE StartFails
  <2>1. /\ main.at = "listed" /\ main.conn \in Connections /\ conn[main.conn].at = "admitted"
    BY <1>7 DEF StartFails, SlotInv, MainPlaced
  <2>2. /\ Goto(main.conn, [Fresh EXCEPT !.at = "stillborn"])
        /\ UNCHANGED <<threads, work, services>> /\ slots' = slots + 1
        /\ main' = [at |-> "serving", conn |-> None]
    BY <1>7 DEF StartFails, Main
  <2>3. /\ main' \in [at : Accepting \cup {"joining", "closed", "failed"},
                      conn : Connections \cup {None}]
        /\ main.at \in Accepting /\ main'.at = "serving"
    BY <2>1, <2>2 DEF Accepting
  <2>4. slots' \in 0..MaxConnections
    <3>1. main.conn \in Holding(Seated) /\ IsFiniteSet(Holding(Seated))
      BY <2>1 DEF Holding, Seated, SlotInv
    <3>2. Cardinality(Holding(Seated)) \in Nat /\ Cardinality(Holding(Seated)) # 0
      BY <3>1, FS_CardinalityType, FS_EmptySet
    <3>3. slots + Cardinality(Holding(Seated)) = MaxConnections
      BY <2>3 DEF SlotInv
    <3> QED
      BY <1>1, <2>2, <3>2, <3>3
  <2>5. "admitted" \in Seated
    BY DEF Seated
  <2> QED
    BY <1>2, <1>3, <2>1, <2>2, <2>3, <2>4, <2>5, Places, ZenonT(60)
<1>8. ASSUME NEW c \in Connections, Finish(c)
      PROVE  SlotInv'
  <2>1. /\ conn[c].at = "finish" /\ Goto(c, [Fresh EXCEPT !.at = "ended"])
        /\ UNCHANGED <<main, threads, work, services>>
        /\ slots' = IF slots = MaxConnections THEN slots ELSE slots + 1
    BY <1>8 DEF Finish
  <2>2. "finish" \in Seated
    BY DEF Seated, Running
  <2>3. slots' \in 0..MaxConnections
    BY <1>1, <2>1
  <2>4. main.at \in Accepting => slots' = slots + 1
    <3>1. c \in Holding(Seated) /\ IsFiniteSet(Holding(Seated))
      BY <2>1, <2>2 DEF Holding, SlotInv
    <3>2. Cardinality(Holding(Seated)) \in Nat /\ Cardinality(Holding(Seated)) # 0
      BY <3>1, FS_CardinalityType, FS_EmptySet
    <3>3. main.at \in Accepting => slots + Cardinality(Holding(Seated)) = MaxConnections
      BY DEF SlotInv
    <3> QED
      BY <1>1, <2>1, <3>2, <3>3
  <2>5. main \in [at : Accepting \cup {"joining", "closed", "failed"},
                  conn : Connections \cup {None}]
    BY DEF SlotInv, ResolverTypeOK
  <2> QED
    BY <1>2, <1>3, <2>1, <2>2, <2>3, <2>4, <2>5, Places
<1> QED
  BY <1>4, <1>5, <1>6, <1>7, <1>8

\* The main thread's steps that move no connection.
LEMMA MainSlots ==
  ASSUME SlotInv, ListThread \/ Started \/ Join \/ InterruptJoin \/ CloseServices
  PROVE  SlotInv'
<1>1. UNCHANGED <<slots, work, conn>>
  BY DEF ListThread, Started, Join, InterruptJoin, CloseServices
<1>2. /\ Holding(Resolving)' = Holding(Resolving) /\ Holding(Seated)' = Holding(Seated)
  BY <1>1 DEF Holding
<1>3. threads \in Seq(Connections)
  BY DEF SlotInv, ResolverTypeOK
<1>4. CASE ListThread
  <2>1. /\ main.at = "admitted" /\ main.conn \in Connections /\ conn[main.conn].at = "admitted"
    BY <1>4 DEF ListThread, SlotInv, MainPlaced
  <2>2. threads' \in Seq(Connections)
    BY <1>3, <1>4, <2>1, ReapedKeeps DEF ListThread
  <2>3. main' = [at |-> "listed", conn |-> main.conn] /\ UNCHANGED services
    BY <1>4 DEF ListThread, Main
  <2>4. ResolverTypeOK' /\ main.at \in Accepting /\ MainPlaced'
    BY <1>1, <2>1, <2>2, <2>3 DEF SlotInv, ResolverTypeOK, Accepting, MainPlaced
  <2> QED
    BY <1>1, <1>2, <2>4 DEF SlotInv
<1>5. CASE Started \/ Join \/ InterruptJoin \/ CloseServices
  <2>1. PICK a \in {"serving", "joining", "failed", "closed"} :
            main' = [at |-> a, conn |-> None] /\ (a = "serving" => main.at = "started")
    BY <1>5 DEF Started, Join, InterruptJoin, CloseServices, Main
  <2>2. threads' \in Seq(Connections)
    <3>1. threads # <<>> => Tail(threads) \in Seq(Connections)
      BY <1>3
    <3> QED
      BY <1>3, <1>5, <3>1 DEF Started, Join, InterruptJoin, CloseServices
  <2>3. services' \in {"open", "closed"}
    <3>1. services \in {"open", "closed"}
      BY DEF SlotInv, ResolverTypeOK
    <3> QED
      BY <1>5, <3>1 DEF Started, Join, InterruptJoin, CloseServices
  <2>4. ResolverTypeOK' /\ MainPlaced' /\ (main'.at \in Accepting => main.at \in Accepting)
    BY <1>1, <2>1, <2>2, <2>3 DEF SlotInv, ResolverTypeOK, Accepting, MainPlaced
  <2> QED
    BY <1>1, <1>2, <2>4 DEF SlotInv
<1> QED
  BY <1>4, <1>5

\* The interrupt: whoever is queued or not yet started is dismissed.
LEMMA InterruptMoves ==
  ASSUME SlotInv, Interrupt
  PROVE  /\ conn' \in [Connections -> Handler]
         /\ \A c \in Connections :
                \/ conn'[c] = conn[c]
                \/ /\ conn[c].at \in {"queued", "admitted"}
                   /\ conn'[c].at \in {"ended", "stillborn"}
<1>1. conn \in [Connections -> Handler] /\ MainPlaced
  BY DEF SlotInv, ResolverTypeOK, Handler
<1>2. \A a \in {"ended", "stillborn"} :
          [Fresh EXCEPT !.at = a] \in Handler /\ [Fresh EXCEPT !.at = a].at = a
  BY FreshType DEF Handler, Steps
<1>3. \A c \in Connections :
          \/ conn'[c] = conn[c]
          \/ /\ conn[c].at = "queued" \/ (c = main.conn /\ main.at \in {"admitted", "listed"})
             /\ \/ conn'[c] = [Fresh EXCEPT !.at = "ended"]
                \/ conn'[c] = [Fresh EXCEPT !.at = "stillborn"]
  BY DEF Interrupt
<1>4. conn' = [c \in Connections |-> conn'[c]]
  BY DEF Interrupt
<1> QED
  BY <1>1, <1>2, <1>3, <1>4 DEF MainPlaced

LEMMA InterruptSlots ==
  ASSUME SlotInv, Interrupt
  PROVE  SlotInv'
<1>1. Holding(Resolving)' = Holding(Resolving)
  BY InterruptMoves, Places DEF Holding
<1>2. Holding(Seated)' \in SUBSET Holding(Seated)
  BY InterruptMoves, Places DEF Holding
<1>3. IsFiniteSet(Holding(Seated)')
  BY <1>2, FS_Subset DEF SlotInv
<1>4. main' = [at |-> "joining", conn |-> None] /\ UNCHANGED <<threads, work, services>>
  BY DEF Interrupt, Main
<1>5. slots' \in 0..MaxConnections
  BY ResolverAssumption DEF Interrupt, SlotInv, ResolverTypeOK
<1>6. ResolverTypeOK' /\ MainPlaced'
  BY <1>4, <1>5, InterruptMoves DEF SlotInv, ResolverTypeOK, MainPlaced, Handler
<1>7. main'.at \notin Accepting
  BY <1>4 DEF Accepting
<1> QED
  BY <1>1, <1>3, <1>4, <1>6, <1>7 DEF SlotInv

\* The store moves: only what a request has seen changes.
LEMMA StoreSlots ==
  ASSUME SlotInv, StoreInv', StoreStep
  PROVE  SlotInv'
<1>1. conn \in [Connections -> Handler] /\ UNCHANGED <<main, threads, slots, work, services>>
  BY DEF SlotInv, ResolverTypeOK, Handler, StoreStep, serverVars
<1>2. ActiveNow' \in SUBSET Publications
  BY DEF ActiveNow, StoreInv
<1>3. \A c \in Connections : \/ conn'[c] = conn[c]
                             \/ conn'[c] = [conn[c] EXCEPT !.seen = conn[c].seen \cup ActiveNow']
  BY DEF StoreStep
<1>4. ASSUME NEW c \in Connections
      PROVE  conn'[c] \in Handler /\ conn'[c].at = conn[c].at
  <2>1. CASE conn'[c] = conn[c]
    BY <1>1, <2>1
  <2>2. CASE conn'[c] = [conn[c] EXCEPT !.seen = conn[c].seen \cup ActiveNow']
    <3>1. conn[c] \in Handler /\ conn[c].seen \cup ActiveNow' \in SUBSET Publications
      BY <1>1, <1>2 DEF Handler
    <3> QED
      BY <2>2, <3>1 DEF Handler
  <2> QED
    BY <1>3, <2>1, <2>2
<1>5. conn' = [c \in Connections |-> conn'[c]]
  BY DEF StoreStep
<1>6. Holding(Resolving)' = Holding(Resolving) /\ Holding(Seated)' = Holding(Seated)
  BY <1>4 DEF Holding
<1>7. ResolverTypeOK'
  BY <1>1, <1>4, <1>5 DEF SlotInv, ResolverTypeOK, Handler
<1>8. MainPlaced'
  BY <1>1, <1>4 DEF SlotInv, MainPlaced
<1> QED
  BY <1>1, <1>6, <1>7, <1>8 DEF SlotInv

\* The account of the slots is inductive.
LEMMA SlotNext ==
  ASSUME SlotInv, StoreInv, [ReadersNext]_readerVars
  PROVE  SlotInv'
<1>1. CASE StoreStep
  BY <1>1, StoreKept, StoreSlots
<1>2. CASE ResolverStep
  <2>1. CASE MainStep \/ Interrupt \/ InterruptJoin
    BY <2>1, SeatSlots, MainSlots, InterruptSlots DEF MainStep
  <2>2. ASSUME NEW c \in Connections, HandlerStep(c) \/ ClientStep(c)
        PROVE  SlotInv'
    BY <2>2, QuietSlots, WorkSlots, SeatSlots DEF HandlerStep
  <2> QED
    BY <1>2, <2>1, <2>2 DEF ResolverStep, ResolverNext
<1>3. CASE UNCHANGED resolverVars
  BY <1>3 DEF resolverVars, serverVars, SlotInv, ResolverTypeOK, MainPlaced, Holding
<1> QED
  BY <1>1, <1>2, <1>3 DEF ReadersNext, readerVars

\* At the start every slot is free.
LEMMA SlotBegins ==
  ASSUME ReadersInit
  PROVE  SlotInv
<1>1. ResolverInit
  BY DEF ReadersInit
<1>2. \A c \in Connections : conn[c] = Fresh
  BY <1>1 DEF ResolverInit
<1>3. Holding(Resolving) = {} /\ Holding(Seated) = {}
  BY <1>2, FreshType, Places DEF Holding
<1>4. conn \in [Connections -> Handler]
  BY <1>1, FreshType DEF ResolverInit
<1>5. <<>> \in Seq(Connections)
  OBVIOUS
<1>6. ResolverTypeOK /\ MainPlaced
  BY <1>1, <1>4, <1>5, ResolverAssumption
  DEF ResolverInit, ResolverTypeOK, MainPlaced, Handler, Accepting
<1> QED
  BY <1>1, <1>3, <1>6, FS_EmptySet, ResolverAssumption DEF ResolverInit, SlotInv

\* No slot is lost and none is handed out twice while the server accepts, and
\* no resolver slot ever, for any number of connections and slots, whichever
\* way connections end, clients leave, threads fail to start and S3 fails
\* (process_request, process_request_thread, do_POST).
THEOREM SlotsKept == ReadersSpec => []SlotsAccounted
<1> DEFINE Inv == StoreInv /\ SlotInv
<1>1. ReadersInit => Inv
  BY StoreBegins, SlotBegins
<1>2. Inv /\ [ReadersNext]_readerVars => Inv'
  BY StoreKept, SlotNext
<1>3. Inv => SlotsAccounted
  <2>1. {c \in Connections : Alive(c) \/ conn[c].at = "admitted"} = Holding(Seated)
    BY DEF Alive, Seated, Holding
  <2>2. {c \in Connections : conn[c].at \in Resolving} = Holding(Resolving)
    BY DEF Holding
  <2> QED
    BY <2>1, <2>2 DEF SlotInv, SlotsAccounted
<1> QED
  BY <1>1, <1>2, <1>3, PTL DEF ReadersSpec

\* However the pointer moves and objects get damaged between the reads of a
\* resolution, a publication is only answered if at one moment of the
\* resolution it was the active one, of the scale asked for, with all its
\* objects intact (resolve_active_dataset).
THEOREM AnswersWereActive == ReadersSpec => []AnswerWasActive
<1> DEFINE Inv == AnswerInv /\ SlotInv
<1>1. ReadersInit => Inv
  <2> SUFFICES ASSUME ReadersInit PROVE Inv
    OBVIOUS
  <2>1. \A c \in Connections : conn[c] = Fresh
    BY DEF ReadersInit, ResolverInit
  <2>2. \A c \in Connections : Grounded(c)
    BY <2>1, FreshType DEF Grounded, Resolving
  <2> QED
    BY <2>2, StoreBegins, SlotBegins DEF AnswerInv
<1>2. Inv /\ [ReadersNext]_readerVars => Inv'
  <2> SUFFICES ASSUME Inv, [ReadersNext]_readerVars PROVE Inv'
    OBVIOUS
  <2>1. StoreInv' /\ SlotInv' /\ ResolverTypeOK
    BY StoreKept, SlotNext DEF AnswerInv, SlotInv
  <2>2. CASE StoreStep
    BY <2>1, <2>2, AnswerKept DEF AnswerInv
  <2>3. CASE ResolverStep
    BY <2>1, <2>3, AnswerSteps DEF AnswerInv, ResolverStep
  <2>4. CASE UNCHANGED <<storeVars, resolverVars>>
    <3>1. UNCHANGED <<conn, damaged>> /\ ActiveNow' = ActiveNow
      BY <2>4 DEF storeVars, registerVars, resolverVars, ActiveNow, Intact, ManifestReadable,
                  ObjectVerifies
    <3> QED
      BY <2>1, <3>1 DEF AnswerInv, Grounded
  <2> QED
    BY <2>2, <2>3, <2>4 DEF ReadersNext, readerVars
<1>3. Inv => AnswerWasActive
  BY DEF AnswerInv, Grounded, AnswerWasActive
<1> QED
  BY <1>1, <1>2, <1>3, PTL DEF ReadersSpec

-----------------------------------------------------------------------------
(* The S3 client.                                                           *)

\* Only the main thread brings a handler to life.
LEMMA AliveOnlyStarts ==
  ASSUME SlotInv, ResolverNext, ~StartThread
  PROVE  \A c \in Connections : Alive(c)' => Alive(c)
<1>1. conn \in [Connections -> Handler]
  BY DEF SlotInv, ResolverTypeOK, Handler
<1>2. \A a \in {"ended", "admitted", "stillborn", "queued"} :
          [Fresh EXCEPT !.at = a].at = a /\ a \notin Running
  BY FreshType DEF Handler, Running, Resolving
<1>3. ASSUME NEW d \in Connections, HandlerStep(d) \/ (ClientStep(d) /\ ~Connect(d))
      PROVE  Alive(d) /\ \A c \in Connections \ {d} : conn'[c] = conn[c]
  <2>1. Alive(d)
    BY <1>3
    DEF HandlerStep, ClientStep, TimesOut, AcquireWork, ReadPointer, ReadManifest, VerifyObject,
        ResolveFails, RespondSent, ReplySent, Finish, Decode, BodyArrives, ClientLeaves, ReadHead,
        Alive, Running, Resolving
  <2>2. \E l : conn' = [conn EXCEPT ![d] = l]
    BY <1>3
    DEF HandlerStep, ClientStep, TimesOut, AcquireWork, ReadPointer, ReadManifest, VerifyObject,
        ResolveFails, RespondSent, ReplySent, Finish, Decode, BodyArrives, ClientLeaves, ReadHead,
        Respond, Goto
  <2> QED
    BY <1>1, <2>1, <2>2
<1>4. ASSUME NEW d \in Connections, Connect(d) \/ TurnAway(d) \/ Admit(d)
      PROVE  \A c \in Connections : Alive(c)' => Alive(c)
  <2>1. \E a \in {"queued", "ended", "admitted"} : conn' = [conn EXCEPT ![d] = [Fresh EXCEPT !.at = a]]
    BY <1>4 DEF Connect, TurnAway, Admit, Goto
  <2> QED
    BY <1>1, <1>2, <2>1 DEF Alive
<1>5. CASE StartFails
  <2>1. conn' = [conn EXCEPT ![main.conn] = [Fresh EXCEPT !.at = "stillborn"]]
    BY <1>5 DEF StartFails, Goto
  <2> QED
    BY <1>1, <1>2, <2>1 DEF Alive
<1>6. CASE Interrupt
  BY <1>6, InterruptMoves DEF Alive, Running, Resolving
<1>7. CASE UNCHANGED conn
  BY <1>7 DEF Alive
<1> QED
  BY <1>3, <1>4, <1>5, <1>6, <1>7
  DEF ResolverNext, MainStep, ClientStep, ListThread, Started, Join, CloseServices, InterruptJoin, Alive

\* Every handler that is alive is on the list the shutdown waits for.
LEMMA ClientNext ==
  ASSUME SlotInv, StoreInv, ClientInv, [ReadersNext]_readerVars
  PROVE  ClientInv'
<1>1. threads \in Seq(Connections) /\ conn \in [Connections -> Handler]
  BY DEF SlotInv, ResolverTypeOK, Handler
<1>2. CASE UNCHANGED resolverVars
  BY <1>2 DEF resolverVars, serverVars, ClientInv, IsListed, Alive
<1>3. ASSUME UNCHANGED <<main, threads, services>>,
             \A c \in Connections : Alive(c)' => Alive(c)
      PROVE  ClientInv'
  BY <1>3 DEF ClientInv, IsListed
<1>4. CASE StoreStep
  <2>1. StoreInv'
    BY <1>4, StoreKept
  <2>2. UNCHANGED <<main, threads, services>>
    BY <1>4 DEF StoreStep, serverVars
  <2>3. \A c \in Connections : conn'[c].at = conn[c].at
    <3> SUFFICES ASSUME NEW c \in Connections PROVE conn'[c].at = conn[c].at
      OBVIOUS
    <3>1. conn'[c] = IF conn[c].at \in Resolving
                     THEN [conn[c] EXCEPT !.seen = conn[c].seen \cup ActiveNow'] ELSE conn[c]
      BY <1>4 DEF StoreStep
    <3> QED
      BY <1>1, <3>1 DEF Handler
  <2> QED
    BY <1>3, <2>2, <2>3 DEF Alive
<1>5. ASSUME NEW d \in Connections,
             HandlerStep(d) \/ ClientStep(d) \/ TurnAway(d)
      PROVE  ClientInv'
  <2>1. UNCHANGED <<main, threads, services>> /\ ~StartThread /\ ResolverNext
    <3>1. UNCHANGED <<main, threads, services>> /\ ResolverNext
      BY <1>5
      DEF HandlerStep, ClientStep, TimesOut, AcquireWork, ReadPointer, ReadManifest, VerifyObject,
          ResolveFails, RespondSent, ReplySent, Finish, Decode, Connect, BodyArrives, ClientLeaves,
          ReadHead, TurnAway, serverVars, ResolverNext, MainStep
    <3>2. StartThread => main'.at # main.at
      BY DEF StartThread, Main
    <3> QED
      BY <3>1, <3>2
  <2> QED
    BY <1>3, <2>1, AliveOnlyStarts
<1>6. CASE \E d \in Connections : Admit(d)
  <2>1. /\ main.at = "serving" /\ main'.at = "admitted" /\ UNCHANGED <<threads, services>>
        /\ ResolverNext /\ ~StartThread
    BY <1>6 DEF Admit, Serving, Main, ResolverNext, MainStep, StartThread
  <2>2. \A c \in Connections : Alive(c)' => Alive(c)
    BY <2>1, AliveOnlyStarts
  <2> QED
    BY <2>1, <2>2 DEF ClientInv, IsListed, Accepting
<1>7. CASE ListThread
  <2>1. /\ main.at = "admitted" /\ main' = [at |-> "listed", conn |-> main.conn]
        /\ UNCHANGED <<services, conn>> /\ threads' = Append(Reaped, main.conn)
        /\ main.conn \in Connections
    BY <1>7 DEF ListThread, Main, SlotInv, MainPlaced
  <2>2. Reaped \in Seq(Connections)
    BY <1>1, ReapedKeeps
  <2>3. Len(threads') = Len(Reaped) + 1 /\ threads'[Len(Reaped) + 1] = main.conn
        /\ \A n \in 1..Len(Reaped) : threads'[n] = Reaped[n]
    BY <2>1, <2>2
  <2>4. IsListed(main.conn)'
    BY <2>1, <2>2, <2>3 DEF IsListed
  <2>5. ASSUME NEW c \in Connections, Alive(c)
        PROVE  IsListed(c)'
    <3>1. PICK i \in 1..Len(threads) : threads[i] = c
      BY <2>1, <2>5 DEF ClientInv, IsListed, Accepting
    <3>2. PICK n \in 1..Len(Reaped) : Reaped[n] = c
      BY <1>1, <2>5, <3>1, ReapedKeeps
    <3>3. n \in 1..Len(threads') /\ threads'[n] = c
      BY <2>2, <2>3, <3>2
    <3> QED
      BY <3>3 DEF IsListed
  <2>6. \A c \in Connections : Alive(c)' = Alive(c)
    BY <2>1 DEF Alive
  <2> QED
    BY <2>1, <2>4, <2>5, <2>6 DEF ClientInv
<1>8. CASE StartThread
  <2>1. /\ main.at = "listed" /\ main'.at = "started" /\ UNCHANGED <<threads, services>>
        /\ \A c \in Connections \ {main.conn} : conn'[c] = conn[c]
    BY <1>1, <1>8 DEF StartThread, Main, Goto
  <2>2. \A c \in Connections : Alive(c)' => Alive(c) \/ c = main.conn
    BY <2>1 DEF Alive
  <2> QED
    BY <2>1, <2>2 DEF ClientInv, IsListed, Accepting
<1>9. CASE StartFails \/ Started \/ Interrupt \/ InterruptJoin
  <2>1. /\ main.at \in Accepting \cup {"joining"} /\ main'.at \in {"serving", "joining", "failed"}
        /\ UNCHANGED <<threads, services>>
    BY <1>9 DEF StartFails, Started, Interrupt, InterruptJoin, Main, Accepting
  <2>2. ResolverNext
    BY <1>9 DEF ResolverNext, MainStep
  <2>3. StartThread => main'.at = "started"
    BY DEF StartThread, Main
  <2>4. \A c \in Connections : Alive(c)' => Alive(c)
    BY <2>1, <2>2, <2>3, AliveOnlyStarts
  <2> QED
    BY <2>1, <2>4 DEF ClientInv, IsListed, Accepting
<1>10. CASE Join
  <2>1. /\ main.at = "joining" /\ threads # <<>> /\ ~Alive(threads[1])
        /\ threads' = Tail(threads) /\ main'.at \in {"joining", "failed"}
        /\ UNCHANGED <<services, conn>>
    BY <1>10 DEF Join, Main
  <2>2. \A c \in Connections : Alive(c)' = Alive(c)
    BY <2>1 DEF Alive
  <2>3. ASSUME NEW c \in Connections, Alive(c)
        PROVE  IsListed(c)'
    <3>1. PICK i \in 1..Len(threads) : threads[i] = c
      BY <2>1, <2>3 DEF ClientInv, IsListed
    <3>2. i # 1
      BY <2>1, <2>3, <3>1
    <3>3. i - 1 \in 1..Len(threads') /\ threads'[i - 1] = c
      BY <1>1, <2>1, <3>1, <3>2
    <3> QED
      BY <3>3 DEF IsListed
  <2> QED
    BY <2>1, <2>2, <2>3 DEF ClientInv
<1>11. CASE CloseServices
  <2>1. /\ main.at = "joining" /\ threads = <<>> /\ main'.at = "closed" /\ UNCHANGED conn
    BY <1>11 DEF CloseServices, Main
  <2>2. \A c \in Connections : ~Alive(c)
    BY <2>1 DEF ClientInv, IsListed
  <2> QED
    BY <2>1, <2>2 DEF ClientInv, Alive, Accepting
<1> QED
  BY <1>2, <1>4, <1>5, <1>6, <1>7, <1>8, <1>9, <1>10, <1>11
  DEF ReadersNext, ResolverStep, ResolverNext, MainStep, readerVars

\* The S3 client is only closed once no handler is alive, wherever the
\* interrupts meet the main thread and whichever threads fail to start
\* (process_request, server_close).
THEOREM ClientClosedLast == ReadersSpec => []ClientOutlivesHandlers
<1> DEFINE Inv == StoreInv /\ SlotInv /\ ClientInv
<1>1. ReadersInit => Inv
  <2> SUFFICES ASSUME ReadersInit PROVE Inv
    OBVIOUS
  <2>1. /\ \A c \in Connections : conn[c] = Fresh
        /\ main = [at |-> "serving", conn |-> None] /\ services = "open"
    BY DEF ReadersInit, ResolverInit
  <2>2. \A c \in Connections : ~Alive(c)
    BY <2>1, FreshType DEF Alive, Running, Resolving
  <2> QED
    BY <2>1, <2>2, StoreBegins, SlotBegins DEF ClientInv
<1>2. Inv /\ [ReadersNext]_readerVars => Inv'
  BY StoreKept, SlotNext, ClientNext
<1>3. Inv => ClientOutlivesHandlers
  BY DEF ClientInv, ClientOutlivesHandlers
<1> QED
  BY <1>1, <1>2, <1>3, PTL DEF ReadersSpec
=============================================================================
