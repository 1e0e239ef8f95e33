--------------------------- MODULE DatasetReaders ---------------------------
(***************************************************************************)
(* The readers of one dataset beside its publishers.  They do not know of  *)
(* each other, and a resolution shares nothing but slots with the others,  *)
(* so three situations are told apart: many connections over a store that  *)
(* rests, one request over a store that moves, and one inventory over a    *)
(* store that moves.                                                       *)
(***************************************************************************)
EXTENDS ResolverService, PublicationInventory

CONSTANTS
    First,          \* the publication that has been made when a resolver starts
    Racing,         \* bound: publications that are made while a request is resolved
    MaxMoves        \* bound: changes of the store under one inventory

ASSUME ReadersAssumption ==
    /\ First \in Publications /\ Racing \subseteq Publications
    /\ MaxMoves \in Nat

VARIABLES
    role,           \* the situation
    moves           \* changes of the store since the inventory began

readerVars == <<storeVars, resolverVars, inv, role, moves>>

Published ==
    /\ objects = [p \in Publications |-> IF p = First THEN Files ELSE {}]
    /\ manifests = [p \in Publications |-> IF p = First THEN [previous |-> None] ELSE None]
    /\ active = First
    /\ activated = {First}
    /\ damaged = {}

ReadersInit ==
    /\ role \in {"connections", "resolution", "inventory"}
    /\ \/ Published
       \/ role = "inventory" /\ StoreInit
    /\ moves = 0
    /\ ResolverInit
    /\ InventoryInit

\* Some request has not got its answer yet.
Watched == \E c \in Connections : conn[c].at \notin {"away", "finish", "ended", "stillborn"}

\* Files are stored in the plan's order, each read back before the next.
InOrder(files) == files # {} => (CHOOSE f \in Files : TRUE) \in files

\* The store changes while a reader looks at it; what was active and intact while a
\* request is resolved is remembered.
StoreStep ==
    /\ \/ role = "resolution" /\ Watched
       \/ role = "inventory" /\ inv.at \notin Ends
    /\ \/ Publish
       \/ DamageControl
       \/ role = "resolution" /\ DamageObject
    /\ \A p \in Publications : InOrder(objects'[p])
    /\ moves' = IF inv.at = "idle" THEN 0 ELSE moves + 1
    /\ moves' <= MaxMoves
    /\ role = "resolution" => \A p \in Publications \ Racing : UNCHANGED objects[p]
    /\ conn' = [c \in Connections |->
                   IF conn[c].at \in Resolving
                   THEN [conn[c] EXCEPT !.seen = @ \cup ActiveNow'] ELSE conn[c]]
    /\ UNCHANGED <<serverVars, inv, role>>

ResolverStep ==
    /\ role # "inventory"
    /\ ResolverNext
    /\ role = "resolution" => Cardinality({c \in Connections : conn'[c].at # "away"}) <= 1
    /\ UNCHANGED <<storeVars, inv, role, moves>>

ReadersNext ==
    \/ StoreStep
    \/ ResolverStep
    \/ role = "inventory" /\ InventoryNext /\ UNCHANGED <<storeVars, resolverVars, role, moves>>

ReadersSpec ==
    /\ ReadersInit
    /\ [][ReadersNext]_readerVars
    /\ ResolverFairness
    /\ InventoryFairness

-----------------------------------------------------------------------------
\* Whoever reads comes to an end: every connection, whatever its client does or
\* leaves undone, a shutdown that joins their threads, and an inventory of a
\* store that keeps sending empty pages (settimeout, server_close,
\* _InventoryBudget).
ReadersEnd == ConnectionsEnd /\ InventoryEnds
=============================================================================
