-------------------------- MODULE PublicationLease --------------------------
(***************************************************************************)
(* The expiring writer lease of one dataset (datasets/s3.py acquire_lease, *)
(* renew_lease, release_lease, and _LeaseKeepalive of publication.py).     *)
(*                                                                         *)
(* The lease is one object, replaced by conditional puts.  The server's    *)
(* Date header is the only clock.  Every call reads the object, proposes a *)
(* successor from what it read, puts it, and rereads to see what became of *)
(* the put.  A put whose answer is lost is executed, never executed, or    *)
(* executed later.  An ETag stands for the object's exact content, so it   *)
(* is the content here.                                                    *)
(***************************************************************************)
EXTENDS Integers, FiniteSets

CONSTANTS
    Publishers,   \* publication attempts, each with its own identifier and nonce
    Duration,     \* lease_seconds
    Window,       \* a put is sent within this time of the read (_PROPOSAL_WINDOW_SECONDS)
    MaxServer,    \* bound: last instant of the server's clock
    MaxDelayed,   \* bound: lease puts whose execution is pending at once
    None          \* an absent object

VARIABLES
    server,    \* the server's Date
    writer,    \* _data-eng-locks/leases/{dataset}.json
    mine,      \* the lease each attempt was last confirmed to own
    call,      \* the lease call each attempt is in
    over,      \* attempts whose keepalive has failed or whose lease is given up
    delayed    \* lease puts that may still be executed

writerVars == <<server, writer, mine, call, over, delayed>>

ASSUME WriterAssumption ==
    /\ Duration \in Nat \ {0}
    /\ Window \in Nat
    /\ MaxServer \in Nat
    /\ MaxDelayed \in Nat

Body == [owner : Publishers, state : {"active", "released"},
         created : 0..MaxServer, expires : 0..(MaxServer + Duration)]

\* A put on condition that the object is still what was seen (If-Match, or
\* If-None-Match for an absent one).
Replacement == [seen : Body \cup {None}, proposed : Body]

ASSUME AbsentBody == None \notin Body

Call == [op : {"none", "acquire", "renew", "release"}, step : {"read", "put", "check"},
         seen : Body \cup {None}, proposed : Body \cup {None}]
NoCall == [op |-> "none", step |-> "read", seen |-> None, proposed |-> None]

WriterTypeOK ==
    /\ server \in 0..MaxServer
    /\ writer \in Body \cup {None}
    /\ mine \in [Publishers -> Body \cup {None}]
    /\ call \in [Publishers -> Call]
    /\ over \in [Publishers -> BOOLEAN]
    /\ delayed \subseteq Replacement

WriterInit ==
    /\ server = 0
    /\ writer = None
    /\ mine = [p \in Publishers |-> None]
    /\ call = [p \in Publishers |-> NoCall]
    /\ over = [p \in Publishers |-> FALSE]
    /\ delayed = {}

-----------------------------------------------------------------------------
\* A lease nobody else may take.
Current(l) == l # None /\ l.state = "active" /\ server < l.expires

NewLease(p) ==
    [owner |-> p, state |-> "active", created |-> server, expires |-> server + Duration]

\* The same lease, given up now.
ReleasedLease(p) ==
    [owner |-> mine[p].owner, state |-> "released",
     created |-> mine[p].created, expires |-> server]

\* The call op of p may read: it starts, or its put came too late to be sent.
Reading(p, op) ==
    \/ call[p] = NoCall
    \/ call[p].op = op /\ call[p].step = "read"

Propose(p, op, body) ==
    call' = [call EXCEPT ![p] =
                [op |-> op, step |-> "put", seen |-> writer, proposed |-> body]]

\* The call op fails, for good: the keepalive remembers the error, and after
\* a release nobody asks again.
CallFails(p, op) ==
    /\ call' = [call EXCEPT ![p] = NoCall]
    /\ over' = [over EXCEPT ![p] = TRUE]
    /\ mine' = IF op = "release" THEN [mine EXCEPT ![p] = None] ELSE mine
    /\ UNCHANGED <<server, writer, delayed>>

\* Mutant: any lease but one's own may be replaced.
AcquireReadAnyway(p) ==
    /\ Reading(p, "acquire")
    /\ mine[p] = None
    /\ ~over[p]
    /\ Propose(p, "acquire", NewLease(p))
    /\ UNCHANGED <<server, writer, mine, over, delayed>>

\* A missing, released or expired lease may be acquired.
AcquireRead(p) ==
    /\ Reading(p, "acquire")
    /\ mine[p] = None
    /\ ~over[p]
    /\ ~Current(writer)
    /\ Propose(p, "acquire", NewLease(p))
    /\ UNCHANGED <<server, writer, mine, over, delayed>>

\* Another attempt's lease is current, or the object cannot be read.
AcquireFails(p) ==
    /\ Reading(p, "acquire")
    /\ mine[p] = None
    /\ ~over[p]
    /\ CallFails(p, "acquire")

\* The stored lease is exactly the one last confirmed, and not expired.
Owns(p) == writer = mine[p] /\ Current(writer)

\* A renewal must move the expiry, which within one second it cannot.
RenewRead(p) ==
    /\ Reading(p, "renew")
    /\ mine[p] # None
    /\ ~over[p]
    /\ Owns(p)
    /\ NewLease(p).expires > mine[p].expires
    /\ Propose(p, "renew", NewLease(p))
    /\ UNCHANGED <<server, writer, mine, over, delayed>>

\* The lease is lost, the object cannot be read, or a bounded number of reads
\* gave no later expiry.
RenewFails(p) ==
    /\ Reading(p, "renew")
    /\ mine[p] # None
    /\ ~over[p]
    /\ CallFails(p, "renew")

ReleaseRead(p) ==
    /\ Reading(p, "release")
    /\ mine[p] # None
    /\ Owns(p)
    /\ Propose(p, "release", ReleasedLease(p))
    /\ UNCHANGED <<server, writer, mine, over, delayed>>

ReleaseFails(p) ==
    /\ Reading(p, "release")
    /\ mine[p] # None
    /\ CallFails(p, "release")

\* The instant the proposal was made from.
ObservedAt(p) ==
    IF call[p].op = "release" THEN call[p].proposed.expires ELSE call[p].proposed.created

\* Mutant: the put carries no condition.
ReplaceAlways(r) == writer' = r.proposed

\* The store executes a conditional put.
Replace(r) == writer' = IF writer = r.seen THEN r.proposed ELSE writer

LeasePut(p) ==
    LET put == [seen |-> call[p].seen, proposed |-> call[p].proposed] IN
    /\ call[p].step = "put"
    /\ server <= ObservedAt(p) + Window
    /\ call' = [call EXCEPT ![p].step = "check"]
    /\ \/ Replace(put) /\ UNCHANGED delayed
       \/ /\ Cardinality(delayed) < MaxDelayed
          /\ delayed' = delayed \cup {put}
          /\ UNCHANGED writer
    /\ UNCHANGED <<server, mine, over>>

\* The proposal is too old to be sent.
ProposalExpired(p) ==
    /\ call[p].step = "put"
    /\ server > ObservedAt(p) + Window
    /\ call' = [call EXCEPT ![p] = [NoCall EXCEPT !.op = call[p].op]]
    /\ UNCHANGED <<server, writer, mine, over, delayed>>

\* The reread decides, whatever the put's own answer was.
LeaseCheck(p) ==
    LET proposed == call[p].proposed IN
    /\ call[p].step = "check"
    /\ \/ /\ writer = proposed
          /\ proposed.state = "active" => server < proposed.expires
          /\ call' = [call EXCEPT ![p] = NoCall]
          /\ IF call[p].op = "release"
             THEN /\ mine' = [mine EXCEPT ![p] = None]
                  /\ over' = [over EXCEPT ![p] = TRUE]
             ELSE /\ mine' = [mine EXCEPT ![p] = proposed]
                  /\ UNCHANGED over
          /\ UNCHANGED <<server, writer, delayed>>
       \/ CallFails(p, call[p].op)

DelayedPut(r) ==
    /\ r \in delayed
    /\ delayed' = delayed \ {r}
    /\ Replace(r)
    /\ UNCHANGED <<server, mine, call, over>>

\* The attempt's process dies; what it sent stays sent.
WriterDies(p) ==
    /\ mine[p] # None \/ call[p] # NoCall
    /\ mine' = [mine EXCEPT ![p] = None]
    /\ call' = [call EXCEPT ![p] = NoCall]
    /\ over' = [over EXCEPT ![p] = TRUE]
    /\ UNCHANGED <<server, writer, delayed>>

ServerTick ==
    /\ server < MaxServer
    /\ server' = server + 1
    /\ UNCHANGED <<writer, mine, call, over, delayed>>

WriterNext ==
    \/ ServerTick
    \/ \E r \in delayed : DelayedPut(r)
    \/ \E p \in Publishers :
        \/ AcquireRead(p) \/ AcquireFails(p) \/ RenewRead(p) \/ RenewFails(p)
        \/ ReleaseRead(p) \/ ReleaseFails(p)
        \/ LeasePut(p) \/ ProposalExpired(p) \/ LeaseCheck(p) \/ WriterDies(p)

WriterSpec == WriterInit /\ [][WriterNext]_writerVars

-----------------------------------------------------------------------------
(* Properties.                                                              *)

\* An attempt that believes its lease to be running.
Holding(p) ==
    /\ mine[p] # None
    /\ server < mine[p].expires
    /\ call[p].op # "release"

\* Whoever believes it holds the lease does: the store has its lease, active
\* and running at least as long, so no two attempts ever hold it together,
\* however puts are lost or late and whoever dies (acquire_lease, renew_lease,
\* release_lease).
HolderIsStored ==
    \A p \in Publishers : Holding(p) =>
        /\ writer # None
        /\ writer.owner = p
        /\ writer.state = "active"
        /\ writer.expires >= mine[p].expires

\* A running lease passes to nobody else: the stored owner changes only after
\* the expiry that is stored, or after a release.
NoEarlyTakeover ==
    [][Current(writer) /\ writer' # writer => writer'.owner = writer.owner]_writerVars
=============================================================================
