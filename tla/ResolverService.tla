-------------------------- MODULE ResolverService ---------------------------
(***************************************************************************)
(* The dataset resolver (datasets/resolver_service.py): one accepting main *)
(* thread, one handler thread per connection, a bound on connections and a *)
(* smaller one on resolutions, both taken without waiting, a socket        *)
(* timeout on every read and write, and a shutdown that joins the handlers *)
(* before it closes the S3 client they use.                                *)
(***************************************************************************)
EXTENDS PublishedStore, Sequences

CONSTANTS
    Connections,      \* client connections, each carrying one request
    MaxConnections,   \* max_connections
    MaxResolverWork,  \* max_resolver_work
    MaxBody           \* bound: pieces of a request body that is not too large

ASSUME ResolverAssumption ==
    MaxConnections \in Nat \ {0} /\ MaxResolverWork \in Nat \ {0} /\ MaxBody \in Nat

VARIABLES
    main,         \* where the main thread is, and the connection it is starting
    threads,      \* handler threads that server_close will join, oldest first
    slots,        \* free connection slots
    work,         \* free resolver slots
    services,     \* the S3 client: "open" or "closed"
    conn          \* each connection: its handler's step and locals

serverVars == <<main, threads, slots, work, services>>
resolverVars == <<serverVars, conn>>

\* Steps of a handler that hold a resolver slot.
Resolving == {"pointer", "manifest", "object", "respond"}
\* Steps of a handler thread that is alive.
Running == {"request", "body", "admit", "reply", "finish"} \cup Resolving
Steps == Running \cup {"away", "queued", "admitted", "stillborn", "ended"}

Fresh == [at |-> "away", left |-> 0, document |-> "exact", scale |-> None,
          found |-> None, todo |-> {}, seen |-> {}]

ResolverInit ==
    /\ main = [at |-> "serving", conn |-> None]
    /\ threads = <<>>
    /\ slots = MaxConnections
    /\ work = MaxResolverWork
    /\ services = "open"
    /\ conn = [c \in Connections |-> Fresh]

\* Points of the main thread in serve_forever and process_request.
Accepting == {"serving", "admitted", "listed", "started"}
Serving == main.at = "serving"
Alive(c) == conn[c].at \in Running
Main(point, c) == main' = [at |-> point, conn |-> c]
Goto(c, locals) == conn' = [conn EXCEPT ![c] = locals]

\* What is verified about a publication while a request is being resolved.
ActiveNow == IF active # None /\ Intact(active) THEN {active} ELSE {}

-----------------------------------------------------------------------------
(* Accepting.                                                               *)

Connect(c) ==
    /\ conn[c].at = "away"
    /\ main.at \in Accepting
    /\ Goto(c, [Fresh EXCEPT !.at = "queued"])
    /\ UNCHANGED serverVars

\* No free slot: a 503 from the main thread, or nothing if it cannot be sent.
TurnAway(c) ==
    /\ Serving
    /\ conn[c].at = "queued"
    /\ slots = 0
    /\ Goto(c, [Fresh EXCEPT !.at = "ended"])
    /\ UNCHANGED serverVars

Admit(c) ==
    /\ Serving
    /\ conn[c].at = "queued"
    /\ slots > 0
    /\ slots' = slots - 1
    /\ Main("admitted", c)
    /\ Goto(c, [Fresh EXCEPT !.at = "admitted"])
    /\ UNCHANGED <<threads, work, services>>

\* _Threads.reap: the threads that are alive, in the order they were listed.
Reaped ==
    LET kept == {i \in DOMAIN threads : Alive(threads[i])}
        Rank(i) == Cardinality({k \in kept : k <= i})
    IN  [n \in 1..Cardinality(kept) |-> threads[CHOOSE i \in kept : Rank(i) = n]]

\* ThreadingMixIn.process_request: the thread is listed, which forgets the
\* ones that have ended, then started.
ListThread ==
    /\ main.at = "admitted"
    /\ threads' = Append(Reaped, main.conn)
    /\ Main("listed", main.conn)
    /\ UNCHANGED <<slots, work, services, conn>>

StartThread ==
    /\ main.at = "listed"
    /\ Goto(main.conn, [conn[main.conn] EXCEPT !.at = "request"])
    /\ Main("started", main.conn)
    /\ UNCHANGED <<threads, slots, work, services>>

\* Mutant: the slot is only released by the thread.
StartFailsHoldingSlot ==
    /\ main.at = "listed"
    /\ Goto(main.conn, [Fresh EXCEPT !.at = "stillborn"])
    /\ Main("serving", None)
    /\ UNCHANGED <<threads, slots, work, services>>

\* The thread cannot be started: the slot is released, the error handled, the
\* connection shut, and the thread stays listed.
StartFails ==
    /\ main.at = "listed"
    /\ slots' = slots + 1
    /\ Goto(main.conn, [Fresh EXCEPT !.at = "stillborn"])
    /\ Main("serving", None)
    /\ UNCHANGED <<threads, work, services>>

Started ==
    /\ main.at = "started"
    /\ Main("serving", None)
    /\ UNCHANGED <<threads, slots, work, services, conn>>

-----------------------------------------------------------------------------
(* One handler.                                                             *)

\* The answer a request gets before its body is read, or 0.
HeadStatus(method, path, framing) ==
    CASE framing = "unparsable" -> 400
      [] method = "GET" /\ path = "/healthz" -> 200
      [] method \in {"GET", "HEAD", "POST"} /\ path = "/other" -> 404
      [] method # "POST" \/ path # "/v1/resolve" -> 405
      [] framing \in {"transfer-encoding", "types", "no length", "lengths", "bad length"} -> 400
      [] framing \in {"no type", "other type"} -> 415
      [] framing = "too large" -> 413
      [] OTHER -> 0

HeadStatuses ==
    {HeadStatus(m, p, f) :
        m \in {"GET", "HEAD", "POST", "PUT"},
        p \in {"/healthz", "/v1/resolve", "/other"},
        f \in {"exact", "unparsable", "transfer-encoding", "types", "no type", "other type",
               "no length", "lengths", "bad length", "too large"}}

\* What is wrong with the document: caught by _decode_request, by
\* resolve_request, or nothing.
Documents == {"not a document", "not a request", "exact"}

\* The request line and the headers have arrived.  Only a well framed POST to
\* /v1/resolve gets any further; what a refusal says is left out.
ReadHead(c, status) ==
    /\ conn[c].at = "request"
    /\ IF status # 0
       THEN Goto(c, [conn[c] EXCEPT !.at = "reply"])
       ELSE \E n \in 0..MaxBody : Goto(c, [conn[c] EXCEPT !.at = "body", !.left = n])
    /\ UNCHANGED serverVars

\* A piece of the body arrives; the handler waits for the rest.
BodyArrives(c) ==
    /\ conn[c].at = "body"
    /\ conn[c].left > 0
    /\ Goto(c, [conn[c] EXCEPT !.left = @ - 1])
    /\ UNCHANGED serverVars

\* The client shuts its side: 400 for an incomplete body, no answer to an
\* incomplete head; a reset ends the handler with an error.
ClientLeaves(c) ==
    /\ conn[c].at \in {"request", "body"}
    /\ \/ conn[c].at = "body" /\ conn[c].left > 0
          /\ Goto(c, [conn[c] EXCEPT !.at = "reply", !.left = 0])
       \/ Goto(c, [conn[c] EXCEPT !.at = "finish", !.left = 0])
    /\ UNCHANGED serverVars

\* Mutant: the socket has no timeout.
NeverTimesOut(c) == FALSE /\ UNCHANGED resolverVars

\* The socket timeout: 408 for the body, no answer to an incomplete head.
TimesOut(c) ==
    /\ \/ conn[c].at = "request" /\ Goto(c, [conn[c] EXCEPT !.at = "finish"])
       \/ conn[c].at = "body" /\ conn[c].left > 0
          /\ Goto(c, [conn[c] EXCEPT !.at = "reply", !.left = 0])
    /\ UNCHANGED serverVars

Decode(c, document, scale) ==
    /\ conn[c].at = "body"
    /\ conn[c].left = 0
    /\ Goto(c, IF document = "not a document"
               THEN [conn[c] EXCEPT !.at = "reply"]
               ELSE [conn[c] EXCEPT !.at = "admit", !.document = document, !.scale = scale])
    /\ UNCHANGED serverVars

AcquireWork(c) ==
    /\ conn[c].at = "admit"
    /\ IF work = 0
       THEN /\ Goto(c, [conn[c] EXCEPT !.at = "reply"])
            /\ UNCHANGED work
       ELSE /\ work' = work - 1
            /\ Goto(c, [conn[c] EXCEPT !.at = "pointer", !.seen = ActiveNow])
    /\ UNCHANGED <<main, threads, slots, services>>

\* 200 with the publication that was found, or 400 or 500.
Respond(c, found) ==
    Goto(c, [conn[c] EXCEPT !.at = "respond", !.found = found, !.todo = {}])

\* resolve_request refuses the fields, the dataset or the scale before S3 is
\* asked for anything.
ReadPointer(c) ==
    /\ conn[c].at = "pointer"
    /\ CASE conn[c].document # "exact" -> Respond(c, None)
         [] conn[c].document = "exact" /\ ~PointerReadable -> Respond(c, None)
         [] OTHER -> Goto(c, [conn[c] EXCEPT !.at = "manifest", !.found = active])
    /\ UNCHANGED serverVars

ReadManifest(c) ==
    LET p == conn[c].found IN
    /\ conn[c].at = "manifest"
    /\ IF ManifestReadable(p) /\ ForPlan(p, conn[c].scale)
       THEN Goto(c, [conn[c] EXCEPT !.at = "object", !.todo = Files])
       ELSE Respond(c, None)
    /\ UNCHANGED serverVars

\* Mutant: one good object vouches for the others.
VerifyOneObject(c) ==
    /\ conn[c].at = "object"
    /\ \E f \in conn[c].todo :
           IF ObjectVerifies(conn[c].found, f) THEN Respond(c, conn[c].found)
                                               ELSE Respond(c, None)
    /\ UNCHANGED serverVars

\* Objects are fetched in full, one after the other; the first bad one fails
\* the request.
VerifyObject(c) ==
    /\ conn[c].at = "object"
    /\ LET f == CHOOSE g \in conn[c].todo : TRUE
           rest == conn[c].todo \ {f}
       IN  CASE ~ObjectVerifies(conn[c].found, f) -> Respond(c, None)
             [] ObjectVerifies(conn[c].found, f) /\ rest = {} -> Respond(c, conn[c].found)
             [] OTHER -> Goto(c, [conn[c] EXCEPT !.todo = rest])
    /\ UNCHANGED serverVars

\* A read of S3, the temporary file or its schema fails.
ResolveFails(c) ==
    /\ conn[c].at \in {"pointer", "manifest", "object"}
    /\ conn[c].document = "exact"
    /\ Respond(c, None)
    /\ UNCHANGED serverVars

\* The answer is sent, or the client is gone, with the resolver slot held;
\* then the slot is released.
RespondSent(c) ==
    /\ conn[c].at = "respond"
    /\ work' = work + 1
    /\ Goto(c, [conn[c] EXCEPT !.at = "finish", !.found = None, !.seen = {}])
    /\ UNCHANGED <<main, threads, slots, services>>

ReplySent(c) ==
    /\ conn[c].at = "reply"
    /\ Goto(c, [conn[c] EXCEPT !.at = "finish"])
    /\ UNCHANGED serverVars

\* process_request_thread: the connection is shut and the slot released; a
\* bounded semaphore refuses one release too many, which only this thread sees.
Finish(c) ==
    /\ conn[c].at = "finish"
    /\ slots' = IF slots = MaxConnections THEN slots ELSE slots + 1
    /\ Goto(c, [Fresh EXCEPT !.at = "ended"])
    /\ UNCHANGED <<main, threads, work, services>>

-----------------------------------------------------------------------------
(* Shutdown.                                                                *)

\* KeyboardInterrupt ends serve_forever.  In the middle of process_request it
\* also releases the slot and shuts the connection, whether or not its thread
\* has started; then the listening socket is closed.  When the handler has
\* ended already and every slot is free, that release raises in place of the
\* interrupt, handle_error drops it and the server goes on: as Started.
Interrupt ==
    /\ main.at \in Accepting
    /\ Serving \/ slots < MaxConnections
    /\ Main("joining", None)
    /\ slots' = IF Serving THEN slots ELSE slots + 1
    /\ conn' = [c \in Connections |->
                   CASE conn[c].at = "queued" -> [Fresh EXCEPT !.at = "ended"]
                     [] c = main.conn /\ main.at = "admitted" -> [Fresh EXCEPT !.at = "ended"]
                     [] c = main.conn /\ main.at = "listed" -> [Fresh EXCEPT !.at = "stillborn"]
                     [] OTHER -> conn[c]]
    /\ UNCHANGED <<threads, work, services>>

\* Mutant: shutdown does not wait for the handlers.
JoinNobody ==
    /\ main.at = "joining"
    /\ threads # <<>>
    /\ threads' = Tail(threads)
    /\ Main("joining", None)
    /\ UNCHANGED <<slots, work, services, conn>>

\* Joining a thread that never started raises: server_close ends there, with
\* the client open.
Join ==
    /\ main.at = "joining"
    /\ threads # <<>>
    /\ ~Alive(threads[1])
    /\ threads' = Tail(threads)
    /\ Main(IF conn[threads[1]].at = "stillborn" THEN "failed" ELSE "joining", None)
    /\ UNCHANGED <<slots, work, services, conn>>

\* A second KeyboardInterrupt ends the join.
InterruptJoin ==
    /\ main.at = "joining"
    /\ threads # <<>>
    /\ Main("failed", None)
    /\ UNCHANGED <<threads, slots, work, services, conn>>

CloseServices ==
    /\ main.at = "joining"
    /\ threads = <<>>
    /\ services' = "closed"
    /\ Main("closed", None)
    /\ UNCHANGED <<threads, slots, work, conn>>
-----------------------------------------------------------------------------
MainStep ==
    \/ \E c \in Connections : TurnAway(c) \/ Admit(c)
    \/ ListThread \/ StartThread \/ StartFails \/ Started
    \/ Join \/ CloseServices

HandlerStep(c) ==
    \/ TimesOut(c) \/ AcquireWork(c) \/ ReadPointer(c) \/ ReadManifest(c) \/ VerifyObject(c)
    \/ ResolveFails(c) \/ RespondSent(c) \/ ReplySent(c) \/ Finish(c)
    \/ \E d \in Documents, s \in Scales : Decode(c, d, s)

ClientStep(c) ==
    \/ Connect(c) \/ BodyArrives(c) \/ ClientLeaves(c)
    \/ \E status \in HeadStatuses : ReadHead(c, status)

ResolverNext ==
    \/ MainStep \/ Interrupt \/ InterruptJoin
    \/ \E c \in Connections : HandlerStep(c) \/ ClientStep(c)

\* Threads are scheduled, and no socket or S3 call waits forever.
ResolverFairness ==
    /\ WF_resolverVars(MainStep)
    /\ \A c \in Connections : WF_resolverVars(HandlerStep(c))

-----------------------------------------------------------------------------
(* Properties.                                                              *)

ResolverTypeOK ==
    /\ main \in [at : Accepting \cup {"joining", "closed", "failed"},
                 conn : Connections \cup {None}]
    /\ threads \in Seq(Connections)
    /\ slots \in 0..MaxConnections
    /\ work \in 0..MaxResolverWork
    /\ services \in {"open", "closed"}
    /\ conn \in [Connections -> [at : Steps, left : 0..MaxBody, document : Documents,
                                  scale : Scales \cup {None},
                                  found : Publications \cup {None}, todo : SUBSET Files,
                                  seen : SUBSET Publications]]

\* Slots neither leak nor multiply while the server accepts, whichever way
\* connections end, clients leave, threads fail to start and S3 fails; the
\* resolver's slots not even during a shutdown (process_request,
\* process_request_thread, do_POST).
SlotsAccounted ==
    /\ ResolverTypeOK
    /\ work + Cardinality({c \in Connections : conn[c].at \in Resolving}) = MaxResolverWork
    /\ main.at \in Accepting =>
           slots + Cardinality({c \in Connections : Alive(c) \/ conn[c].at = "admitted"})
               = MaxConnections

\* The S3 client is never closed under a handler, however the interrupt and
\* the starting of threads interleave (server_close).
ClientOutlivesHandlers == services = "closed" => \A c \in Connections : ~Alive(c)

\* A publication is only answered if at one moment of the resolution it was the
\* active one, of the scale asked for, with all its objects intact, though the
\* pointer moves and objects get damaged between the reads
\* (resolve_active_dataset).
AnswerWasActive ==
    \A c \in Connections : conn[c].at = "respond" /\ conn[c].found # None =>
        conn[c].found \in conn[c].seen /\ Scale[conn[c].found] = conn[c].scale

\* Every connection ends, whatever its client does or leaves undone, and so
\* does a shutdown: once no client is left, no thread is either (settimeout,
\* server_close).
ConnectionsEnd ==
    <>[](/\ main.at # "joining"
         /\ \A c \in Connections : conn[c].at \in {"away", "ended", "stillborn"})
=============================================================================
