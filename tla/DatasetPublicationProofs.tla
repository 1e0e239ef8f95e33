---------------------- MODULE DatasetPublicationProofs ----------------------
(***************************************************************************)
(* Proofs about PublicationLease and DatasetPublication, for every number  *)
(* of publishers, files, rollbacks and pending puts, and that publication  *)
(* implements DatasetRegister.                                             *)
(***************************************************************************)
EXTENDS DatasetPublication, TLAPS

-----------------------------------------------------------------------------
(* The writer lease.  HolderIsStored and NoEarlyTakeover for any number of  *)
(* attempts.  The argument is about conditional puts that are on their way. *)
(* Whatever put may still be executed, it replaces a lease that has ended   *)
(* for good, or extends a lease of the attempt that sent it, or releases    *)
(* one whose owner will never again believe it holds it.                    *)

\* A lease that is over, now and for ever.
Ended(l) == l = None \/ l.state = "released" \/ l.expires <= server

\* An attempt that will never again believe it holds the lease.
LetGo(p) == call[p].op = "release" \/ (mine[p] = None /\ over[p])

\* Executing r costs nobody a lease it believes it holds.
Harmless(r) ==
    \/ Ended(r.seen)
    \/ /\ r.seen # None
       /\ r.seen.owner = r.proposed.owner
       /\ \/ r.proposed.state = "active" /\ r.proposed.expires >= r.seen.expires
          \/ LetGo(r.proposed.owner)

PutOf(p) == [seen |-> call[p].seen, proposed |-> call[p].proposed]

CallSound(p) ==
    /\ call[p].op = "none" => call[p] = NoCall
    /\ call[p].op \in {"acquire", "renew"} => ~over[p]
    /\ call[p].op = "release" => mine[p] # None
    /\ call[p].step # "read" =>
        /\ call[p].proposed \in Body
        /\ call[p].proposed.owner = p
        /\ call[p].op = "release" <=> call[p].proposed.state = "released"
        /\ Harmless(PutOf(p))

MineSound(p) == mine[p] # None => mine[p].owner = p /\ mine[p].state = "active"

WriterInv ==
    /\ WriterTypeOK
    /\ \A p \in Publishers : CallSound(p) /\ MineSound(p)
    /\ \A r \in delayed : Harmless(r)
    /\ HolderIsStored

-----------------------------------------------------------------------------
LEMMA WriterInvInit == WriterInit => WriterInv
  <1> SUFFICES ASSUME WriterInit PROVE WriterInv
    OBVIOUS
  <1>1. NoCall \in Call
    BY DEF NoCall, Call
  <1>2. WriterTypeOK
    BY <1>1, WriterAssumption DEF WriterInit, WriterTypeOK
  <1>3. \A p \in Publishers : CallSound(p) /\ MineSound(p)
    BY DEF WriterInit, CallSound, MineSound, NoCall
  <1>4. HolderIsStored
    BY DEF WriterInit, HolderIsStored, Holding
  <1> QED
    BY <1>2, <1>3, <1>4 DEF WriterInv, WriterInit

\* A step that changes neither the stored lease nor a put on its way keeps
\* every pending put harmless, if nobody who let go comes back.
LEMMA HarmlessStays ==
    ASSUME WriterTypeOK, server' \in Int, server' >= server,
           \A p \in Publishers : LetGo(p) => LetGo(p)',
           NEW r \in Replacement, Harmless(r)
    PROVE  Harmless(r)'
  <1>1. r.seen \in Body \cup {None} /\ r.proposed \in Body
    BY DEF Replacement
  <1>2. r.seen # None => r.seen.expires \in Int
    BY <1>1, WriterAssumption DEF Body
  <1>3. server \in Int
    BY DEF WriterTypeOK
  <1>4. r.proposed.owner \in Publishers
    BY <1>1 DEF Body
  <1>5. CASE Ended(r.seen)
    BY <1>2, <1>3, <1>5 DEF Harmless, Ended
  <1>6. CASE ~Ended(r.seen)
    BY <1>4, <1>6 DEF Harmless
  <1> QED
    BY <1>5, <1>6

\* What HolderIsStored promises one attempt.
Stored(p) ==
    /\ writer # None
    /\ writer.owner = p
    /\ writer.state = "active"
    /\ writer.expires >= mine[p].expires

\* A step of p that leaves the store alone need only be sound for p.
LEMMA OwnStep ==
    ASSUME WriterInv, WriterTypeOK', NEW p \in Publishers,
           UNCHANGED <<server, writer, delayed>>,
           \A q \in Publishers \ {p} :
               call'[q] = call[q] /\ mine'[q] = mine[q] /\ over'[q] = over[q],
           CallSound(p)', MineSound(p)', LetGo(p) => LetGo(p)',
           Holding(p)' => Stored(p)'
    PROVE  WriterInv'
  <1>1. \A q \in Publishers : LetGo(q) => LetGo(q)'
    BY DEF LetGo
  <1>2. ASSUME NEW r \in Replacement, Harmless(r) PROVE Harmless(r)'
    <2>1. server' \in Int /\ server' >= server
      BY DEF WriterInv, WriterTypeOK
    <2> QED
      BY <1>1, <1>2, <2>1, HarmlessStays DEF WriterInv
  <1>3. \A r \in delayed' : Harmless(r)'
    BY <1>2 DEF WriterInv, WriterTypeOK
  <1>4. ASSUME NEW q \in Publishers \ {p} PROVE CallSound(q)' /\ MineSound(q)'
    <2>1. CallSound(q) /\ MineSound(q)
      BY DEF WriterInv
    <2>2. CASE call[q].step = "read"
      BY <2>1, <2>2 DEF CallSound, MineSound
    <2>3. CASE call[q].step # "read"
      <3>1. PutOf(q) \in Replacement
        BY <2>1, <2>3 DEF WriterInv, WriterTypeOK, Call, PutOf, Replacement, CallSound
      <3>2. PutOf(q)' = PutOf(q)
        BY DEF PutOf
      <3>3. Harmless(PutOf(q))'
        BY <1>2, <2>1, <2>3, <3>1, <3>2 DEF CallSound, Harmless, Ended, LetGo
      <3> QED
        BY <2>1, <2>3, <3>3 DEF CallSound, MineSound
    <2> QED
      BY <2>2, <2>3
  <1>5. HolderIsStored'
    BY DEF WriterInv, HolderIsStored, Holding, Stored
  <1> QED
    BY <1>3, <1>4, <1>5 DEF WriterInv

\* The body a call proposes is one, and the sender's own.
LEMMA NewLeaseType ==
    ASSUME WriterTypeOK, NEW p \in Publishers
    PROVE  /\ NewLease(p) \in Body
           /\ NewLease(p).owner = p
           /\ NewLease(p).state = "active"
           /\ NewLease(p).expires = server + Duration
  BY WriterAssumption DEF WriterTypeOK, NewLease, Body

\* A proposal replaces what its sender has just read.
LEMMA ProposeStep ==
    ASSUME WriterInv, NEW p \in Publishers, NEW op \in {"acquire", "renew", "release"},
           NEW body \in Body, body.owner = p,
           op = "release" <=> body.state = "released",
           Propose(p, op, body), UNCHANGED <<server, writer, mine, over, delayed>>,
           op \in {"acquire", "renew"} => ~over[p],
           op = "release" => mine[p] # None,
           LetGo(p) => op = "release",
           \/ Ended(writer)
           \/ writer.owner = p /\ (op = "release" \/ body.expires >= writer.expires)
    PROVE  WriterInv'
  <1> DEFINE c == [op |-> op, step |-> "put", seen |-> writer, proposed |-> body]
  <1>1. c \in Call
    BY DEF WriterInv, WriterTypeOK, Call
  <1>2. call' = [call EXCEPT ![p] = c] /\ call'[p] = c
    BY DEF Propose, WriterInv, WriterTypeOK
  <1>3. WriterTypeOK'
    BY <1>1, <1>2 DEF WriterInv, WriterTypeOK
  <1>4. \A q \in Publishers \ {p} :
            call'[q] = call[q] /\ mine'[q] = mine[q] /\ over'[q] = over[q]
    BY <1>2 DEF WriterInv, WriterTypeOK
  <1>5. LetGo(p) => LetGo(p)'
    BY <1>2 DEF LetGo
  <1>6. op = "release" => LetGo(p)'
    BY <1>2 DEF LetGo
  <1>7. PutOf(p)' = [seen |-> writer, proposed |-> body]
    BY <1>2 DEF PutOf
  <1>8. body.state \in {"active", "released"}
    BY DEF Body
  <1>9. Harmless(PutOf(p))'
    BY <1>6, <1>7, <1>8 DEF Harmless, Ended, LetGo
  <1>10. CallSound(p)' /\ MineSound(p)'
    BY <1>2, <1>9 DEF CallSound, MineSound, WriterInv
  <1>11. Holding(p)' => Stored(p)'
    BY <1>2, <1>5 DEF WriterInv, HolderIsStored, Holding, Stored, LetGo
  <1> QED
    BY <1>3, <1>4, <1>5, <1>10, <1>11, OwnStep

LEMMA AcquireReadStep ==
    ASSUME WriterInv, NEW p \in Publishers, AcquireRead(p)
    PROVE  WriterInv'
  <1>1. Ended(writer)
    BY WriterAssumption DEF AcquireRead, Current, Ended, WriterInv, WriterTypeOK, Body
  <1>2. ~LetGo(p)
    BY DEF AcquireRead, Reading, LetGo, NoCall
  <1>3. NewLease(p) \in Body /\ NewLease(p).owner = p /\ NewLease(p).state = "active"
    BY NewLeaseType DEF WriterInv
  <1> QED
    BY <1>1, <1>2, <1>3, ProposeStep DEF AcquireRead

LEMMA RenewReadStep ==
    ASSUME WriterInv, NEW p \in Publishers, RenewRead(p)
    PROVE  WriterInv'
  <1>1. writer.owner = p
    BY DEF RenewRead, Owns, WriterInv, MineSound
  <1>2. ~LetGo(p)
    BY DEF RenewRead, Reading, LetGo, NoCall
  <1>3. NewLease(p) \in Body /\ NewLease(p).owner = p /\ NewLease(p).state = "active"
    BY NewLeaseType DEF WriterInv
  <1>4. NewLease(p).expires \in Int /\ mine[p].expires \in Int
    BY <1>3, WriterAssumption DEF Body, WriterInv, WriterTypeOK, RenewRead
  <1>5. NewLease(p).expires >= writer.expires
    BY <1>4 DEF RenewRead, Owns
  <1> QED
    BY <1>1, <1>2, <1>3, <1>5, ProposeStep DEF RenewRead

LEMMA ReleaseReadStep ==
    ASSUME WriterInv, NEW p \in Publishers, ReleaseRead(p)
    PROVE  WriterInv'
  <1>1. mine[p] \in Body /\ mine[p].owner = p
    BY DEF ReleaseRead, WriterInv, WriterTypeOK, MineSound
  <1>2. /\ ReleasedLease(p) \in Body
        /\ ReleasedLease(p).owner = p
        /\ ReleasedLease(p).state = "released"
    BY <1>1, WriterAssumption DEF ReleasedLease, Body, WriterInv, WriterTypeOK
  <1>3. writer.owner = p
    BY <1>1 DEF ReleaseRead, Owns
  <1> QED
    BY <1>2, <1>3, ProposeStep DEF ReleaseRead


\* A call that ends leaves nothing behind but what it sent.
LEMMA CallFailsStep ==
    ASSUME WriterInv, NEW p \in Publishers, NEW op \in {"acquire", "renew", "release"},
           call[p].op \in {"none", op}, CallFails(p, op)
    PROVE  WriterInv'
  <1>1. NoCall \in Call /\ NoCall.op = "none" /\ NoCall.step = "read"
    BY DEF NoCall, Call
  <1>2. WriterTypeOK'
    BY <1>1 DEF CallFails, WriterInv, WriterTypeOK
  <1>3. /\ call'[p] = NoCall
        /\ over'[p] = TRUE
        /\ mine'[p] = IF op = "release" THEN None ELSE mine[p]
    BY DEF CallFails, WriterInv, WriterTypeOK
  <1>4. \A q \in Publishers \ {p} :
            call'[q] = call[q] /\ mine'[q] = mine[q] /\ over'[q] = over[q]
    BY DEF CallFails, WriterInv, WriterTypeOK
  <1>5. LetGo(p) => LetGo(p)'
    BY <1>1, <1>3 DEF LetGo
  <1>6. CallSound(p)' /\ MineSound(p)'
    BY <1>1, <1>3 DEF CallSound, MineSound, WriterInv
  <1>7. Holding(p)' => Stored(p)'
    <2> SUFFICES ASSUME Holding(p)' PROVE Stored(p)'
      OBVIOUS
    <2>1. op # "release" /\ mine'[p] = mine[p] /\ mine[p] # None
      BY <1>3 DEF Holding
    <2>2. Holding(p)
      BY <2>1 DEF Holding, CallFails
    <2> QED
      BY <2>1, <2>2 DEF WriterInv, HolderIsStored, Stored, CallFails
  <1> QED
    BY <1>2, <1>4, <1>5, <1>6, <1>7, OwnStep DEF CallFails

LEMMA FailingStep ==
    ASSUME WriterInv, NEW p \in Publishers,
           AcquireFails(p) \/ RenewFails(p) \/ ReleaseFails(p)
    PROVE  WriterInv'
  BY CallFailsStep DEF AcquireFails, RenewFails, ReleaseFails, Reading, NoCall

LEMMA ProposalExpiredStep ==
    ASSUME WriterInv, NEW p \in Publishers, ProposalExpired(p)
    PROVE  WriterInv'
  <1> DEFINE c == [NoCall EXCEPT !.op = call[p].op]
  <1>1. call[p] \in Call
    BY DEF WriterInv, WriterTypeOK
  <1>2. c \in Call /\ c.op = call[p].op /\ c.step = "read"
    BY <1>1 DEF NoCall, Call
  <1>3. call' = [call EXCEPT ![p] = c] /\ call'[p] = c
    BY <1>1 DEF ProposalExpired, WriterInv, WriterTypeOK
  <1>4. call[p].op # "none"
    BY DEF ProposalExpired, WriterInv, CallSound, NoCall
  <1> HIDE DEF c
  <1>5. WriterTypeOK'
    BY <1>2, <1>3 DEF ProposalExpired, WriterInv, WriterTypeOK
  <1>6. \A q \in Publishers \ {p} :
            call'[q] = call[q] /\ mine'[q] = mine[q] /\ over'[q] = over[q]
    BY <1>3 DEF ProposalExpired, WriterInv, WriterTypeOK
  <1>7. LetGo(p) => LetGo(p)'
    BY <1>2, <1>3 DEF LetGo, ProposalExpired
  <1>8. CallSound(p)' /\ MineSound(p)'
    <2>1. CallSound(p) /\ MineSound(p) /\ mine' = mine /\ over' = over
      BY DEF WriterInv, ProposalExpired
    <2> QED
      BY <1>2, <1>3, <1>4, <2>1 DEF CallSound, MineSound
  <1>9. Holding(p)' => Stored(p)'
    BY <1>2, <1>3 DEF Holding, Stored, HolderIsStored, WriterInv, ProposalExpired
  <1> QED
    BY <1>5, <1>6, <1>7, <1>8, <1>9, OwnStep DEF ProposalExpired

LEMMA LeaseCheckStep ==
    ASSUME WriterInv, NEW p \in Publishers, LeaseCheck(p)
    PROVE  WriterInv'
  <1> DEFINE proposed == call[p].proposed
  <1>1. /\ call[p].op \in {"acquire", "renew", "release"}
        /\ proposed \in Body
        /\ proposed.owner = p
        /\ call[p].op = "release" <=> proposed.state = "released"
    BY DEF LeaseCheck, WriterInv, WriterTypeOK, Call, CallSound, NoCall
  <1>2. CASE CallFails(p, call[p].op)
    BY <1>1, <1>2, CallFailsStep
  <1>3. CASE ~CallFails(p, call[p].op)
    <2>1. /\ writer = proposed
          /\ call' = [call EXCEPT ![p] = NoCall]
          /\ IF call[p].op = "release"
             THEN /\ mine' = [mine EXCEPT ![p] = None]
                  /\ over' = [over EXCEPT ![p] = TRUE]
             ELSE /\ mine' = [mine EXCEPT ![p] = proposed]
                  /\ UNCHANGED over
          /\ UNCHANGED <<server, writer, delayed>>
      BY <1>3 DEF LeaseCheck
    <2>2. NoCall \in Call /\ NoCall.op = "none" /\ NoCall.step = "read"
      BY DEF NoCall, Call
    <2>3. proposed.state \in {"active", "released"} /\ proposed.expires \in Int
      BY <1>1, WriterAssumption DEF Body
    <2>4. call'[p] = NoCall
      BY <2>1 DEF WriterInv, WriterTypeOK
    <2> HIDE DEF proposed
    <2>5. CASE call[p].op = "release"
      <3>1. mine'[p] = None /\ over'[p] = TRUE
        BY <2>1, <2>5 DEF WriterInv, WriterTypeOK
      <3>2. WriterTypeOK'
        BY <2>1, <2>2, <2>5 DEF WriterInv, WriterTypeOK
      <3>3. \A q \in Publishers \ {p} :
                call'[q] = call[q] /\ mine'[q] = mine[q] /\ over'[q] = over[q]
        BY <2>1, <2>5 DEF WriterInv, WriterTypeOK
      <3>4. LetGo(p)' /\ CallSound(p)' /\ MineSound(p)' /\ ~Holding(p)'
        BY <2>2, <2>4, <3>1 DEF LetGo, CallSound, MineSound, Holding
      <3> QED
        BY <2>1, <3>2, <3>3, <3>4, OwnStep
    <2>6. CASE call[p].op # "release"
      <3>1. mine'[p] = proposed /\ over'[p] = over[p] /\ ~over[p]
        BY <1>1, <2>1, <2>6 DEF WriterInv, WriterTypeOK, CallSound
      <3>2. WriterTypeOK'
        BY <1>1, <2>1, <2>2, <2>6 DEF WriterInv, WriterTypeOK
      <3>3. \A q \in Publishers \ {p} :
                call'[q] = call[q] /\ mine'[q] = mine[q] /\ over'[q] = over[q]
        BY <2>1, <2>6 DEF WriterInv, WriterTypeOK
      <3>4. ~LetGo(p)
        BY <2>6, <3>1 DEF LetGo
      <3>5. proposed.state = "active"
        BY <1>1, <2>3, <2>6
      <3>6. CallSound(p)' /\ MineSound(p)'
        BY <1>1, <2>2, <2>4, <3>1, <3>5 DEF CallSound, MineSound
      <3>7. Stored(p)'
        BY <1>1, <2>1, <2>3, <3>1, <3>5, AbsentBody DEF Stored
      <3> QED
        BY <2>1, <3>2, <3>3, <3>4, <3>6, <3>7, OwnStep
    <2> QED
      BY <2>5, <2>6
  <1> QED
    BY <1>2, <1>3

LEMMA WriterDiesStep ==
    ASSUME WriterInv, NEW p \in Publishers, WriterDies(p)
    PROVE  WriterInv'
  <1>1. NoCall \in Call /\ NoCall.op = "none" /\ NoCall.step = "read"
    BY DEF NoCall, Call
  <1>2. WriterTypeOK'
    BY <1>1 DEF WriterDies, WriterInv, WriterTypeOK
  <1>3. call'[p] = NoCall /\ over'[p] = TRUE /\ mine'[p] = None
    BY DEF WriterDies, WriterInv, WriterTypeOK
  <1>4. \A q \in Publishers \ {p} :
            call'[q] = call[q] /\ mine'[q] = mine[q] /\ over'[q] = over[q]
    BY DEF WriterDies, WriterInv, WriterTypeOK
  <1>5. LetGo(p)' /\ CallSound(p)' /\ MineSound(p)' /\ ~Holding(p)'
    BY <1>1, <1>3 DEF LetGo, CallSound, MineSound, Holding
  <1> QED
    BY <1>2, <1>4, <1>5, OwnStep DEF WriterDies

-----------------------------------------------------------------------------
(* Puts, and the clock.                                                     *)

\* Executing a harmless put keeps every holder's lease in the store, and no
\* running lease passes to another attempt.
LEMMA ReplaceSafe ==
    ASSUME WriterInv, NEW r \in Replacement, Harmless(r), Replace(r),
           UNCHANGED <<server, mine>>,
           \A q \in Publishers : call'[q].op = call[q].op
    PROVE  /\ writer' \in Body \cup {None}
           /\ HolderIsStored'
           /\ Current(writer) /\ writer' # writer => writer'.owner = writer.owner
  <1>1. r.seen \in Body \cup {None} /\ r.proposed \in Body
    BY DEF Replacement
  <1>2. writer' \in Body \cup {None}
    BY <1>1 DEF Replace, WriterInv, WriterTypeOK
  <1>3. server \in Int /\ writer \in Body \cup {None}
    BY DEF WriterInv, WriterTypeOK
  <1>4. \A b \in Body : b.expires \in Int /\ b.owner \in Publishers
    BY WriterAssumption DEF Body
  <1>5. CASE writer # r.seen
    BY <1>2, <1>5 DEF Replace, HolderIsStored, Holding, WriterInv
  <1>6. CASE writer = r.seen
    <2>1. writer' = r.proposed
      BY <1>6 DEF Replace
    <2>2. CASE Ended(writer)
      <3>1. ~Current(writer)
        BY <1>3, <1>4, <2>2 DEF Current, Ended
      <3>2. \A q \in Publishers : ~Holding(q)
        <4> SUFFICES ASSUME NEW q \in Publishers, Holding(q) PROVE FALSE
          OBVIOUS
        <4>1. Stored(q)
          BY DEF WriterInv, HolderIsStored, Stored
        <4>2. mine[q].expires \in Int /\ writer.expires \in Int
          BY <1>3, <1>4, <4>1 DEF Holding, Stored, WriterInv, WriterTypeOK
        <4> QED
          BY <1>3, <2>2, <4>1, <4>2 DEF Holding, Stored, Ended
      <3>3. HolderIsStored'
        BY <3>2 DEF HolderIsStored, Holding
      <3> QED
        BY <1>2, <3>1, <3>3
    <2>3. CASE ~Ended(writer)
      <3>1. /\ writer.owner = r.proposed.owner
            /\ \/ r.proposed.state = "active" /\ r.proposed.expires >= writer.expires
               \/ LetGo(r.proposed.owner)
        BY <1>6, <2>3 DEF Harmless
      <3>2. ASSUME NEW q \in Publishers, Holding(q)' PROVE Stored(q)'
        <4>1. Holding(q)
          BY <3>2 DEF Holding
        <4>2. Stored(q)
          BY <4>1 DEF WriterInv, HolderIsStored, Stored
        <4>3. r.proposed.owner = q
          BY <3>1, <4>2 DEF Stored
        <4>4. ~LetGo(q)
          BY <4>1 DEF LetGo, Holding
        <4>5. r.proposed.state = "active" /\ r.proposed.expires >= writer.expires
          BY <3>1, <4>3, <4>4
        <4>6. /\ mine[q].expires \in Int
              /\ writer.expires \in Int
              /\ r.proposed.expires \in Int
          BY <1>1, <1>3, <1>4, <4>1, <4>2 DEF Holding, Stored, WriterInv, WriterTypeOK
        <4>7. r.proposed.expires >= mine[q].expires
          BY <4>2, <4>5, <4>6 DEF Stored
        <4> QED
          BY <1>1, <2>1, <4>3, <4>5, <4>7, AbsentBody DEF Stored
      <3>3. HolderIsStored'
        BY <3>2 DEF HolderIsStored, Stored
      <3> QED
        BY <1>2, <2>1, <3>1, <3>3
    <2> QED
      BY <2>2, <2>3
  <1> QED
    BY <1>5, <1>6

\* A step that does not touch a call's put, nor anybody's standing, keeps all
\* calls sound.
LEMMA CallsStay ==
    ASSUME WriterInv, server' \in Int, server' >= server, UNCHANGED <<mine, over>>,
           \A q \in Publishers :
               /\ call'[q].op = call[q].op
               /\ call'[q] = NoCall <=> call[q] = NoCall
               /\ call'[q].step = "read" <=> call[q].step = "read"
               /\ call'[q].seen = call[q].seen
               /\ call'[q].proposed = call[q].proposed
    PROVE  /\ \A q \in Publishers : CallSound(q)' /\ MineSound(q)'
           /\ \A r \in Replacement : Harmless(r) => Harmless(r)'
  <1>1. \A q \in Publishers : LetGo(q) => LetGo(q)'
    BY DEF LetGo
  <1>2. \A r \in Replacement : Harmless(r) => Harmless(r)'
    BY <1>1, HarmlessStays DEF WriterInv
  <1>3. ASSUME NEW q \in Publishers PROVE CallSound(q)' /\ MineSound(q)'
    <2>1. CallSound(q) /\ MineSound(q)
      BY DEF WriterInv
    <2>2. CASE call[q].step = "read"
      BY <2>1, <2>2 DEF CallSound, MineSound
    <2>3. CASE call[q].step # "read"
      <3>1. PutOf(q) \in Replacement
        BY <2>1, <2>3 DEF WriterInv, WriterTypeOK, Call, PutOf, Replacement, CallSound
      <3>2. PutOf(q)' = PutOf(q)
        BY DEF PutOf
      <3>3. Harmless(PutOf(q))'
        BY <1>2, <2>1, <2>3, <3>1, <3>2 DEF CallSound, Harmless, Ended, LetGo
      <3> QED
        BY <2>1, <2>3, <3>3 DEF CallSound, MineSound
    <2> QED
      BY <2>2, <2>3
  <1> QED
    BY <1>2, <1>3

LEMMA LeasePutStep ==
    ASSUME WriterInv, NEW p \in Publishers, LeasePut(p)
    PROVE  /\ WriterInv'
           /\ Current(writer) /\ writer' # writer => writer'.owner = writer.owner
  <1>1. /\ call[p].step = "put"
        /\ call' = [call EXCEPT ![p].step = "check"]
        /\ \/ Replace(PutOf(p)) /\ UNCHANGED delayed
           \/ delayed' = delayed \cup {PutOf(p)} /\ UNCHANGED writer
        /\ UNCHANGED <<server, mine, over>>
    BY DEF LeasePut, PutOf
  <1>2. call \in [Publishers -> Call] /\ server \in Int
    BY DEF WriterInv, WriterTypeOK
  <1>3. call' \in [Publishers -> Call]
    BY <1>1, <1>2 DEF Call
  <1>4. \A q \in Publishers :
            /\ call'[q].op = call[q].op
            /\ call'[q] = NoCall <=> call[q] = NoCall
            /\ call'[q].step = "read" <=> call[q].step = "read"
            /\ call'[q].seen = call[q].seen
            /\ call'[q].proposed = call[q].proposed
    BY <1>1, <1>2 DEF Call, NoCall
  <1>5. /\ \A q \in Publishers : CallSound(q)' /\ MineSound(q)'
        /\ \A r \in Replacement : Harmless(r) => Harmless(r)'
    <2>1. server' \in Int /\ server' >= server /\ UNCHANGED <<mine, over>>
      BY <1>1, <1>2
    <2> QED
      BY <1>4, <2>1, CallsStay
  <1>6. PutOf(p) \in Replacement /\ Harmless(PutOf(p))
    BY <1>1 DEF WriterInv, WriterTypeOK, Call, PutOf, Replacement, CallSound
  <1>7. CASE Replace(PutOf(p)) /\ UNCHANGED delayed
    <2>1. /\ writer' \in Body \cup {None}
          /\ HolderIsStored'
          /\ Current(writer) /\ writer' # writer => writer'.owner = writer.owner
      BY <1>1, <1>4, <1>6, <1>7, ReplaceSafe
    <2>2. WriterTypeOK'
      BY <1>1, <1>3, <1>7, <2>1 DEF WriterInv, WriterTypeOK
    <2>3. \A r \in delayed' : Harmless(r)'
      BY <1>5, <1>7 DEF WriterInv, WriterTypeOK
    <2> QED
      BY <1>5, <2>1, <2>2, <2>3 DEF WriterInv
  <1>8. CASE delayed' = delayed \cup {PutOf(p)} /\ UNCHANGED writer
    <2>1. WriterTypeOK'
      BY <1>1, <1>3, <1>6, <1>8 DEF WriterInv, WriterTypeOK
    <2>2. \A r \in delayed' : Harmless(r)'
      BY <1>5, <1>6, <1>8 DEF WriterInv, WriterTypeOK
    <2>3. HolderIsStored'
      BY <1>1, <1>4, <1>8 DEF WriterInv, HolderIsStored, Holding
    <2> QED
      BY <1>5, <1>8, <2>1, <2>2, <2>3 DEF WriterInv
  <1> QED
    BY <1>1, <1>7, <1>8

LEMMA DelayedPutStep ==
    ASSUME WriterInv, NEW r \in delayed, DelayedPut(r)
    PROVE  /\ WriterInv'
           /\ Current(writer) /\ writer' # writer => writer'.owner = writer.owner
  <1>1. r \in Replacement /\ Harmless(r)
    BY DEF WriterInv, WriterTypeOK
  <1>2. /\ writer' \in Body \cup {None}
        /\ HolderIsStored'
        /\ Current(writer) /\ writer' # writer => writer'.owner = writer.owner
    BY <1>1, ReplaceSafe DEF DelayedPut
  <1>3. WriterTypeOK'
    BY <1>2 DEF DelayedPut, WriterInv, WriterTypeOK
  <1>4. /\ \A q \in Publishers : CallSound(q)' /\ MineSound(q)'
        /\ \A s \in Replacement : Harmless(s) => Harmless(s)'
    <2>1. server' \in Int /\ server' >= server
      BY DEF DelayedPut, WriterInv, WriterTypeOK
    <2> QED
      BY <2>1, CallsStay DEF DelayedPut
  <1>5. \A s \in delayed' : Harmless(s)'
    BY <1>4 DEF DelayedPut, WriterInv, WriterTypeOK
  <1> QED
    BY <1>2, <1>3, <1>4, <1>5 DEF WriterInv

LEMMA ServerTickStep ==
    ASSUME WriterInv, ServerTick
    PROVE  WriterInv'
  <1>1. server \in Int /\ server' \in Int /\ server' >= server
    BY DEF ServerTick, WriterInv, WriterTypeOK
  <1>2. WriterTypeOK'
    BY WriterAssumption DEF ServerTick, WriterInv, WriterTypeOK
  <1>3. /\ \A q \in Publishers : CallSound(q)' /\ MineSound(q)'
        /\ \A r \in Replacement : Harmless(r) => Harmless(r)'
    BY <1>1, CallsStay DEF ServerTick
  <1>4. \A r \in delayed' : Harmless(r)'
    BY <1>3 DEF ServerTick, WriterInv, WriterTypeOK
  <1>5. ASSUME NEW q \in Publishers, Holding(q)' PROVE Stored(q)'
    <2>1. mine[q] # None /\ mine[q].expires \in Int
      BY <1>5, WriterAssumption DEF Holding, ServerTick, WriterInv, WriterTypeOK, Body
    <2>2. Holding(q)
      BY <1>1, <1>5, <2>1 DEF Holding, ServerTick
    <2> QED
      BY <2>2 DEF WriterInv, HolderIsStored, Stored, ServerTick
  <1>6. HolderIsStored'
    BY <1>5 DEF HolderIsStored, Stored
  <1> QED
    BY <1>2, <1>3, <1>4, <1>6 DEF WriterInv

-----------------------------------------------------------------------------
LEMMA WriterInvNext ==
    ASSUME WriterInv, [WriterNext]_writerVars
    PROVE  WriterInv'
  <1>1. CASE UNCHANGED writerVars
    BY <1>1 DEF writerVars, WriterInv, WriterTypeOK, CallSound, MineSound, Harmless, Ended,
                LetGo, PutOf, HolderIsStored, Holding
  <1>2. CASE ServerTick
    BY <1>2, ServerTickStep
  <1>3. CASE \E r \in delayed : DelayedPut(r)
    BY <1>3, DelayedPutStep
  <1>4. ASSUME NEW p \in Publishers,
               \/ AcquireRead(p) \/ AcquireFails(p) \/ RenewRead(p) \/ RenewFails(p)
               \/ ReleaseRead(p) \/ ReleaseFails(p)
               \/ LeasePut(p) \/ ProposalExpired(p) \/ LeaseCheck(p) \/ WriterDies(p)
        PROVE  WriterInv'
    BY <1>4, AcquireReadStep, RenewReadStep, ReleaseReadStep, FailingStep, LeasePutStep,
       ProposalExpiredStep, LeaseCheckStep, WriterDiesStep
  <1> QED
    BY <1>1, <1>2, <1>3, <1>4 DEF WriterNext

\* The stored lease, the leases believed in and the puts under way agree
\* (acquire_lease, renew_lease, release_lease).
THEOREM WriterInvariant == WriterSpec => []WriterInv
  BY WriterInvInit, WriterInvNext, PTL DEF WriterSpec

\* Whoever believes it holds the dataset's lease does, for any number of
\* attempts, any lease duration and any number of late puts (acquire_lease,
\* renew_lease, release_lease).
THEOREM HolderAlwaysStored == WriterSpec => []HolderIsStored
  <1>1. WriterInv => HolderIsStored
    BY DEF WriterInv
  <1> QED
    BY <1>1, WriterInvariant, PTL

LEMMA TakeoverStep ==
    ASSUME WriterInv, [WriterNext]_writerVars
    PROVE  [Current(writer) /\ writer' # writer => writer'.owner = writer.owner]_writerVars
  <1> SUFFICES ASSUME WriterNext, Current(writer), writer' # writer
               PROVE  writer'.owner = writer.owner
    OBVIOUS
  <1>1. \/ \E r \in delayed : DelayedPut(r)
        \/ \E p \in Publishers : LeasePut(p)
    BY DEF WriterNext, ServerTick, AcquireRead, AcquireFails, RenewRead, RenewFails,
           ReleaseRead, ReleaseFails, ProposalExpired, LeaseCheck, WriterDies, CallFails
  <1> QED
    BY <1>1, DelayedPutStep, LeasePutStep

\* A running lease passes to nobody else (acquire_lease).
THEOREM LeaseNotTakenEarly == WriterSpec => NoEarlyTakeover
  <1>1. WriterInv /\ [WriterNext]_writerVars
          => [Current(writer) /\ writer' # writer => writer'.owner = writer.owner]_writerVars
    BY TakeoverStep
  <1> QED
    BY <1>1, WriterInvariant, PTL DEF WriterSpec, NoEarlyTakeover

-----------------------------------------------------------------------------
(* The publication.  The lease plays no part in what follows: it saves      *)
(* work, and the conditional put of the pointer is what keeps the history   *)
(* whole.                                                                   *)

DataTypeOK ==
    /\ objects \in [Publishers -> SUBSET Files]
    /\ manifests \in [Publishers -> Manifest \cup {None}]
    /\ pending \subseteq DataPut
    /\ activated \subseteq Publishers
    /\ pointer \in activated \cup {None}

\* A put that does no harm whenever it is executed.
Sound(d) ==
    /\ d.kind = "object" => d.file \in Files
    /\ d.kind = "manifest" => objects[d.who] = Files /\ d.base \in activated \cup {None}
    /\ d.kind = "pointer" => manifests[d.who] # None

DataInv ==
    /\ DataTypeOK
    /\ HistoryComplete
    /\ \A d \in pending : Sound(d)

\* Where an attempt has sent no manifest yet.
Before == {"idle", "acquire", "fetch", "upload", "put", "object_check", "verify", "manifest"}

\* A manifest sent earlier follows m, which the attempt has read, if it lives.
Follows(m, point, locals) == point \notin Before /\ (point # "dead" => m = locals.base)

\* What is stored of attempt p when it stands at point with these locals.
StandsAt(p, point, locals) ==
    /\ locals.base \in activated \cup {None}
    /\ manifests[p] # None => Follows(manifests[p].previous, point, locals)
    /\ \A d \in pending : d.kind = "manifest" /\ d.who = p => Follows(d.base, point, locals)
    /\ point \in {"fetch", "upload", "put", "object_check"} => locals.proven # Files
    /\ point = "manifest" => objects[p] = Files
    /\ point \in {"commit", "pointer"} => manifests[p] # None
    /\ locals.pointer = "committed" => p \in activated

ControlInv ==
    /\ at \in [Publishers -> Points]
    /\ progress \in [Publishers -> Progress]
    /\ \A p \in Publishers : StandsAt(p, at[p], progress[p])

RollbackInv ==
    /\ rollback \in [Rollbacks -> Rollback]
    /\ \A r \in Rollbacks : rollback[r].step = "put" =>
           /\ rollback[r].target \in Publishers
           /\ manifests[rollback[r].target] # None

Calm == \A r \in Rollbacks : rollback[r].step # "done"

\* A put of the pointer replaces the manifest that the new one follows.
Linked(d) == d.kind = "pointer" => manifests[d.who].previous = d.base

Covered == \A S \in SUBSET Publishers : ReachableWithin(S) => activated \subseteq S

CalmInv == Calm => Covered /\ \A d \in pending : Linked(d)

PublicationInv == DataInv /\ ControlInv /\ RollbackInv /\ CalmInv

-----------------------------------------------------------------------------
(* The store.                                                               *)

\* What executing a put changes: objects, manifests and the history grow, and
\* a manifest that appears is the one the put carries.
Grows(d) ==
    /\ activated \subseteq activated'
    /\ \A p \in Publishers :
        /\ objects[p] \subseteq objects'[p]
        /\ manifests[p] # None => manifests'[p] = manifests[p]
        /\ manifests'[p] # manifests[p] =>
               d.kind = "manifest" /\ d.who = p /\ manifests'[p].previous = d.base

LEMMA StoreGrows ==
    ASSUME DataTypeOK, NEW d \in DataPut, Sound(d), Store(d)
    PROVE  Grows(d)
<1>1. d.who \in Publishers /\ d.base \in Publishers \cup {None}
  BY DEF DataPut
<1>2. CASE d.kind = "object"
  BY <1>1, <1>2 DEF Store, Grows, DataTypeOK
<1>3. CASE d.kind = "manifest"
  BY <1>1, <1>3 DEF Store, Grows, DataTypeOK
<1>4. CASE d.kind = "pointer"
  BY <1>1, <1>4 DEF Store, Grows, DataTypeOK
<1> QED BY <1>2, <1>3, <1>4 DEF DataPut

\* Executing a sound put keeps what is stored complete.
LEMMA StoreData ==
    ASSUME DataInv, NEW d \in DataPut, Sound(d), Store(d),
           pending' \subseteq pending \cup {d}
    PROVE  DataInv'
<1>0. d.who \in Publishers /\ d.base \in Publishers \cup {None}
      /\ d.kind \in {"object", "manifest", "pointer"}
  BY DEF DataPut
<1> USE DEF DataInv
<1>1. Grows(d)
  BY StoreGrows
<1>2. DataTypeOK'
  <2>1. CASE d.kind = "object"
    BY <1>0, <2>1 DEF Store, DataTypeOK, Sound
  <2>2. CASE d.kind = "manifest"
    <3>1. [previous |-> d.base] \in Manifest
      BY <1>0 DEF Manifest
    <3> QED BY <1>0, <2>2, <3>1 DEF Store, DataTypeOK
  <2>3. CASE d.kind = "pointer"
    BY <1>0, <2>3 DEF Store, DataTypeOK
  <2> QED BY <1>0, <2>1, <2>2, <2>3
<1>3. HistoryComplete'
  <2>1. CASE d.kind = "object"
    BY <1>0, <1>1, <1>2, <2>1 DEF Store, DataTypeOK, Sound, HistoryComplete, Grows
  <2>2. CASE d.kind = "manifest"
    BY <1>0, <1>1, <1>2, <2>2 DEF Store, DataTypeOK, Sound, HistoryComplete, Grows
  <2>3. CASE d.kind = "pointer"
    BY <1>0, <1>1, <1>2, <2>3 DEF Store, DataTypeOK, Sound, HistoryComplete, Grows
  <2> QED BY <1>0, <2>1, <2>2, <2>3
<1>4. \A e \in pending' : Sound(e)'
  <2>1. SUFFICES ASSUME NEW e \in DataPut, Sound(e)
                 PROVE  Sound(e)'
    BY DEF DataTypeOK
  <2>2. e.who \in Publishers /\ e.base \in Publishers \cup {None}
    BY DEF DataPut
  <2>3. objects'[e.who] \subseteq Files /\ objects[e.who] \subseteq objects'[e.who]
    BY <1>1, <1>2, <2>2 DEF Grows, DataTypeOK
  <2>4. manifests[e.who] # None => manifests'[e.who] # None
    BY <1>1, <2>2 DEF Grows
  <2> QED BY <1>1, <2>1, <2>3, <2>4 DEF Sound, Grows
<1> QED BY <1>2, <1>3, <1>4

LEMMA SendData ==
    ASSUME DataInv, NEW d \in DataPut, Sound(d), Send(d)
    PROVE  DataInv' /\ Grows(d) /\ pending' \subseteq pending \cup {d}
<1>1. CASE Store(d) /\ UNCHANGED pending
  BY <1>1, StoreData, StoreGrows DEF DataInv
<1>2. CASE UNCHANGED dataVars
  BY <1>2 DEF dataVars, DataInv, DataTypeOK, HistoryComplete, Sound, Grows
<1>3. CASE /\ pending' = pending \cup {d}
           /\ UNCHANGED <<objects, manifests, pointer, activated>>
  BY <1>3 DEF DataInv, DataTypeOK, HistoryComplete, Sound, Grows
<1> QED BY <1>1, <1>2, <1>3 DEF Send

\* An attempt stands where it stood when a put of somebody else, or one it
\* may have sent there, is executed or becomes pending.
LEMMA StandsWhenPut ==
    ASSUME DataInv, NEW d \in DataPut, Grows(d), pending' \subseteq pending \cup {d},
           DataInv',
           NEW p \in Publishers, NEW point, NEW locals \in Progress,
           StandsAt(p, point, locals),
           d.kind = "manifest" /\ d.who = p => Follows(d.base, point, locals)
    PROVE  StandsAt(p, point, locals)'
<1>1. objects'[p] \subseteq Files /\ objects[p] \subseteq objects'[p]
  BY DEF DataInv, DataTypeOK, Grows
<1>2. manifests'[p] # None =>
          Follows(manifests'[p].previous, point, locals)
  BY DEF Grows, StandsAt
<1> QED BY <1>1, <1>2 DEF StandsAt, Grows

\* The control part after a put by nobody, or by p on its way to point.
LEMMA ControlWhenPut ==
    ASSUME DataInv, DataInv', ControlInv,
           NEW d \in DataPut, Grows(d), pending' \subseteq pending \cup {d},
           \A q \in Publishers : d.kind = "manifest" /\ d.who = q =>
               Follows(d.base, at'[q], progress'[q]),
           at' \in [Publishers -> Points], progress' \in [Publishers -> Progress],
           \A q \in Publishers : StandsAt(q, at'[q], progress'[q])
    PROVE  ControlInv'
<1>1. SUFFICES ASSUME NEW q \in Publishers
               PROVE  StandsAt(q, at[q], progress[q])'
  BY DEF ControlInv
<1>2. \A point, locals : /\ locals \in Progress
                         /\ StandsAt(q, point, locals)
                         /\ d.kind = "manifest" /\ d.who = q => Follows(d.base, point, locals)
                         => StandsAt(q, point, locals)'
  BY StandsWhenPut
<1> QED BY <1>2 DEF StandsAt

LEMMA RollbackWhenPut ==
    ASSUME RollbackInv, NEW d, Grows(d), UNCHANGED rollback
    PROVE  RollbackInv'
BY DEF RollbackInv, Grows

\* A pointer that replaces the manifest it follows drops nothing, and no
\* other put touches the history.
LEMMA CalmWhenPut ==
    ASSUME DataInv, CalmInv, NEW d \in DataPut, Sound(d),
           Grows(d), pending' \subseteq pending \cup {d},
           Store(d) \/ UNCHANGED <<pointer, activated>>,
           Calm' => Calm /\ Linked(d)
    PROVE  CalmInv'
<1> SUFFICES ASSUME Calm, Linked(d)
             PROVE  Covered' /\ \A e \in pending' : Linked(e)'
  BY DEF CalmInv
<1>1. Grows(d) /\ pending' \subseteq pending \cup {d} /\ d.who \in Publishers
  BY DEF DataPut
<1>2. \A e \in pending' : Linked(e)'
  <2>1. SUFFICES ASSUME NEW e \in DataPut, Sound(e), Linked(e)
                 PROVE  Linked(e)'
    BY <1>1 DEF DataInv, DataTypeOK, CalmInv
  <2>2. e.who \in Publishers
    BY DEF DataPut
  <2> QED BY <1>1, <2>1, <2>2 DEF Linked, Sound, Grows
<1>3. Covered'
  <2>1. SUFFICES ASSUME NEW S \in SUBSET Publishers, ReachableWithin(S)'
                 PROVE  activated' \subseteq S
    BY DEF Covered
  <2>2. \A p \in S : manifests[p] # None => manifests[p].previous \in S \cup {None}
    BY <1>1, <2>1 DEF ReachableWithin, Grows
  <2>3. CASE UNCHANGED <<pointer, activated>>
    BY <2>1, <2>2, <2>3 DEF ReachableWithin, Covered, CalmInv
  <2>4. CASE d.kind = "pointer" /\ PointerMatches(d) /\ pointer' = d.who
             /\ activated' = activated \cup {d.who}
    <3>1. d.who \in S
      BY <1>1, <2>1, <2>4, PublicationAssumption DEF ReachableWithin
    <3>2. pointer \in S \cup {None}
      BY <2>2, <2>4, <3>1 DEF PointerMatches, Linked, Sound
    <3> QED BY <2>2, <2>4, <3>1, <3>2 DEF ReachableWithin, Covered, CalmInv
  <2> QED BY <2>3, <2>4 DEF Store
<1> QED BY <1>2, <1>3

-----------------------------------------------------------------------------
(* Steps of an attempt.                                                     *)

LEMMA Goes ==
    ASSUME ControlInv, NEW p \in Publishers, NEW point \in Points, NEW locals \in Progress,
           StandsAt(p, point, locals), Goto(p, point, locals)
    PROVE  /\ at' \in [Publishers -> Points]
           /\ progress' \in [Publishers -> Progress]
           /\ at'[p] = point /\ progress'[p] = locals
           /\ \A q \in Publishers : StandsAt(q, at'[q], progress'[q])
<1>1. /\ at' \in [Publishers -> Points]
      /\ progress' \in [Publishers -> Progress]
      /\ at'[p] = point /\ progress'[p] = locals
      /\ \A q \in Publishers \ {p} : at'[q] = at[q] /\ progress'[q] = progress[q]
  BY DEF ControlInv, Goto
<1>2. \A q \in Publishers \ {p} : StandsAt(q, at'[q], progress'[q])
  BY <1>1 DEF ControlInv
<1> QED BY <1>1, <1>2

\* A step that writes nothing.
LEMMA QuietStep ==
    ASSUME PublicationInv, NEW p \in Publishers, NEW point \in Points, NEW locals \in Progress,
           StandsAt(p, point, locals), Goto(p, point, locals),
           UNCHANGED <<dataVars, rollback>>
    PROVE  PublicationInv'
<1>1. DataInv'
  BY DEF PublicationInv, DataInv, DataTypeOK, HistoryComplete, Sound, dataVars
<1>2. ControlInv'
  BY Goes DEF PublicationInv, ControlInv, StandsAt, dataVars
<1>3. RollbackInv'
  BY DEF PublicationInv, RollbackInv, dataVars
<1>4. CalmInv'
  BY DEF PublicationInv, CalmInv, Calm, Covered, ReachableWithin, Linked, dataVars
<1> QED BY <1>1, <1>2, <1>3, <1>4 DEF PublicationInv

\* A step that sends a put.
LEMMA PutStep ==
    ASSUME PublicationInv, NEW p \in Publishers, NEW point \in Points, NEW locals \in Progress,
           StandsAt(p, point, locals), Goto(p, point, locals),
           NEW d \in DataPut, Sound(d), Linked(d), Send(d),
           d.kind = "manifest" => d.who = p /\ Follows(d.base, point, locals),
           UNCHANGED rollback
    PROVE  PublicationInv'
<1>1. DataInv' /\ Grows(d) /\ pending' \subseteq pending \cup {d}
  BY SendData DEF PublicationInv
<1>2. /\ at' \in [Publishers -> Points]
      /\ progress' \in [Publishers -> Progress]
      /\ at'[p] = point /\ progress'[p] = locals
      /\ \A q \in Publishers : StandsAt(q, at'[q], progress'[q])
  BY Goes DEF PublicationInv
<1>3. ControlInv'
  BY <1>1, <1>2, ControlWhenPut DEF PublicationInv
<1>4. RollbackInv'
  BY <1>1, RollbackWhenPut DEF PublicationInv
<1>5. CalmInv'
  <2>1. Store(d) \/ UNCHANGED <<pointer, activated>>
    BY DEF Send, dataVars
  <2> QED BY <1>1, <2>1, CalmWhenPut DEF PublicationInv, Calm
<1> QED BY <1>1, <1>3, <1>4, <1>5 DEF PublicationInv

\* What the updates of an attempt's locals leave alone.
LEMMA SetProven ==
    ASSUME NEW l \in Progress, NEW x \in SUBSET Files
    PROVE  LET m == [l EXCEPT !.proven = x]
           IN  m \in Progress /\ m.base = l.base /\ m.pointer = l.pointer /\ m.proven = x
BY DEF Progress

LEMMA SetManifest ==
    ASSUME NEW l \in Progress, NEW x \in {"possible", "written"}
    PROVE  LET m == [l EXCEPT !.manifest = x]
           IN  m \in Progress /\ m.base = l.base /\ m.pointer = l.pointer
BY DEF Progress

LEMMA SetPointer ==
    ASSUME NEW l \in Progress, NEW x \in {"conflict", "ambiguous", "committed"}
    PROVE  LET m == [l EXCEPT !.pointer = x]
           IN  m \in Progress /\ m.base = l.base /\ m.pointer = x
BY DEF Progress

LEMMA Unstarted == NoProgress \in Progress /\ NoProgress.base = None
                   /\ NoProgress.proven = {} /\ NoProgress.pointer = "not-attempted"
BY DEF NoProgress, Progress

LEMMA Standing ==
    ASSUME PublicationInv, NEW p \in Publishers
    PROVE  StandsAt(p, at[p], progress[p]) /\ progress[p] \in Progress /\ at[p] \in Points
BY DEF PublicationInv, ControlInv

\* An attempt that goes on with the locals it has.
LEMMA KeepsLocals ==
    ASSUME PublicationInv, NEW p \in Publishers, NEW point \in Points,
           StandsAt(p, point, progress[p]), Goto(p, point, progress[p]),
           UNCHANGED <<dataVars, rollback>>
    PROVE  PublicationInv'
BY Standing, QuietStep

\* An attempt that lives ends, whatever it has done.
LEMMA Ends ==
    ASSUME PublicationInv, NEW p \in Publishers, NEW point \in {"release", "done"},
           at[p] # "dead", Goto(p, point, progress[p]), UNCHANGED <<dataVars, rollback>>
    PROVE  PublicationInv'
<1>1. StandsAt(p, point, progress[p]) /\ point \in Points
  BY Standing DEF StandsAt, Follows, Before, Points
<1> QED BY <1>1, KeepsLocals

LEMMA StartStep ==
    ASSUME PublicationInv, NEW p \in Publishers,
           PublishStart(p) \/ NotAcquired(p) \/ Reread(p)
    PROVE  PublicationInv'
<1>0. at[p] \in {"idle", "acquire"} /\ UNCHANGED <<dataVars, rollback>>
  BY DEF PublishStart, NotAcquired, Reread
<1>1. manifests[p] = None /\ \A d \in pending : ~(d.kind = "manifest" /\ d.who = p)
  BY <1>0, Standing DEF StandsAt, Follows, Before
<1>2. CASE \E point \in {"acquire", "release", "done"} : Goto(p, point, NoProgress)
  <2>1. PICK point \in {"acquire", "release", "done"} : Goto(p, point, NoProgress)
    BY <1>2
  <2>2. StandsAt(p, point, NoProgress)
    BY <1>1, Unstarted DEF StandsAt
  <2>3. point \in Points
    BY DEF Points
  <2> QED BY <1>0, <2>1, <2>2, <2>3, Unstarted, QuietStep
<1>3. CASE Goto(p, "fetch", [NoProgress EXCEPT !.base = pointer])
  <2> DEFINE locals == [NoProgress EXCEPT !.base = pointer]
  <2>1. pointer \in activated \cup {None} /\ pointer \in Publishers \cup {None}
    BY DEF PublicationInv, DataInv, DataTypeOK
  <2>2. /\ locals \in Progress /\ locals.base = pointer /\ locals.proven = {}
        /\ locals.pointer = "not-attempted"
    BY <2>1 DEF NoProgress, Progress
  <2>3. Goto(p, "fetch", locals)
    BY <1>3
  <2> HIDE DEF locals
  <2>4. StandsAt(p, "fetch", locals)
    BY <1>1, <2>1, <2>2, PublicationAssumption DEF StandsAt
  <2>5. "fetch" \in Points
    BY DEF Points, Working
  <2> QED BY <1>0, <2>2, <2>3, <2>4, <2>5, QuietStep
<1> QED BY <1>2, <1>3 DEF PublishStart, NotAcquired, Reread

LEMMA WorkStep ==
    ASSUME PublicationInv, NEW p \in Publishers,
           \/ PublishFails(p) \/ Fetch(p) \/ UploadCheckpoint(p) \/ Verify(p)
           \/ CommitCheckpoint(p) \/ Released(p) \/ PublisherDies(p)
    PROVE  PublicationInv'
<1>1. CASE PublishFails(p)
  BY <1>1, Ends DEF PublishFails
<1>2. CASE Fetch(p)
  <2>1. StandsAt(p, "upload", progress[p])
    BY <1>2, Standing DEF Fetch, StandsAt, Follows, Before
  <2> QED BY <1>2, <2>1, KeepsLocals DEF Fetch, Points
<1>3. CASE UploadCheckpoint(p)
  <2>1. StandsAt(p, "put", progress[p])
    BY <1>3, Standing DEF UploadCheckpoint, StandsAt, Follows, Before
  <2> QED BY <1>3, <2>1, KeepsLocals DEF UploadCheckpoint, Points, Working
<1>4. CASE Verify(p)
  <2>1. objects[p] = Files
    BY <1>4 DEF Verify, ObjectReads, PublicationInv, DataInv, DataTypeOK
  <2>2. StandsAt(p, "manifest", progress[p])
    BY <1>4, <2>1, Standing DEF Verify, StandsAt, Follows, Before
  <2> QED BY <1>4, <2>2, KeepsLocals DEF Verify, Points, Working
<1>5. CASE CommitCheckpoint(p)
  <2>1. StandsAt(p, "pointer", progress[p])
    BY <1>5, Standing DEF CommitCheckpoint, StandsAt, Follows, Before
  <2> QED BY <1>5, <2>1, KeepsLocals DEF CommitCheckpoint, Points, Working
<1>6. CASE Released(p)
  BY <1>6, Ends DEF Released
<1>7. CASE PublisherDies(p)
  <2>1. StandsAt(p, "dead", NoProgress)
    BY Standing, Unstarted DEF StandsAt, Follows, Before
  <2> QED BY <1>7, <2>1, Unstarted, QuietStep DEF PublisherDies, Points
<1> QED BY <1>1, <1>2, <1>3, <1>4, <1>5, <1>6, <1>7

LEMMA ObjectStep ==
    ASSUME PublicationInv, NEW p \in Publishers, ObjectPut(p) \/ ObjectCheck(p)
    PROVE  PublicationInv'
<1>0. /\ at[p] \in {"put", "object_check"}
      /\ progress[p].proven # Files
      /\ progress[p].proven \subseteq Files
  BY Standing DEF ObjectPut, ObjectCheck, StandsAt, Progress
<1>1. NextFile(p) \in Files
  BY <1>0 DEF NextFile
<1>2. CASE ObjectPut(p)
  <2> DEFINE d == [kind |-> "object", who |-> p, file |-> NextFile(p), base |-> None]
  <2>1. d \in DataPut /\ Sound(d) /\ Linked(d) /\ d.kind = "object"
    BY <1>1 DEF DataPut, Sound, Linked
  <2>2. /\ Send(d) /\ Goto(p, "object_check", progress[p]) /\ UNCHANGED rollback
        /\ at[p] = "put"
    BY <1>2 DEF ObjectPut
  <2> HIDE DEF d
  <2>3. StandsAt(p, "object_check", progress[p])
    BY <2>2, Standing DEF StandsAt, Follows, Before
  <2> QED BY <2>1, <2>2, <2>3, Standing, PutStep DEF Points, Working
<1>3. CASE ObjectCheck(p)
  <2> DEFINE more == progress[p].proven \cup {NextFile(p)}
             locals == [progress[p] EXCEPT !.proven = more]
  <2>1. at[p] = "object_check" /\ UNCHANGED <<dataVars, rollback>>
    BY <1>3 DEF ObjectCheck
  <2>2. /\ locals \in Progress /\ locals.base = progress[p].base
        /\ locals.pointer = progress[p].pointer /\ locals.proven = more
    <3>1. more \in SUBSET Files
      BY <1>0, <1>1
    <3> QED BY <3>1, Standing, SetProven, Zenon
  <2>3. CASE Goto(p, "release", progress[p])
    BY <2>1, <2>3, Ends
  <2>4. CASE Goto(p, IF over[p] THEN "release" ELSE IF more = Files THEN "verify" ELSE "upload",
                  locals)
    <3> DEFINE point == IF over[p] THEN "release" ELSE IF more = Files THEN "verify" ELSE "upload"
    <3>1. /\ point \in {"release", "verify", "upload"} /\ Goto(p, point, locals)
          /\ point = "upload" => more # Files
      BY <2>4
    <3> HIDE DEF point, locals, more
    <3>2. StandsAt(p, point, locals) /\ point \in Points
      BY <2>1, <2>2, <3>1, Standing DEF StandsAt, Follows, Before, Points, Working
    <3> QED BY <2>1, <2>2, <3>1, <3>2, QuietStep
  <2> QED BY <1>3, <2>3, <2>4 DEF ObjectCheck
<1> QED BY <1>2, <1>3

LEMMA ManifestStep ==
    ASSUME PublicationInv, NEW p \in Publishers, ManifestPut(p) \/ ManifestCheck(p)
    PROVE  PublicationInv'
<1>1. CASE ManifestPut(p)
  <2> DEFINE d == [kind |-> "manifest", who |-> p, file |-> None, base |-> progress[p].base]
             locals == [progress[p] EXCEPT !.manifest = "possible"]
  <2>0. /\ at[p] = "manifest" /\ Send(d) /\ Goto(p, "manifest_check", locals)
        /\ UNCHANGED rollback
    BY <1>1 DEF ManifestPut
  <2>1. /\ locals \in Progress /\ locals.base = progress[p].base
        /\ locals.pointer = progress[p].pointer
    BY Standing, SetManifest, Zenon
  <2>2. objects[p] = Files /\ progress[p].base \in activated \cup {None}
        /\ progress[p].base \in Publishers \cup {None}
    BY <2>0, Standing DEF StandsAt, Progress
  <2>3. d \in DataPut /\ Sound(d) /\ Linked(d) /\ d.who = p /\ d.base = progress[p].base
    BY <2>2 DEF DataPut, Sound, Linked
  <2> HIDE DEF d, locals
  <2>4. StandsAt(p, "manifest_check", locals) /\ Follows(d.base, "manifest_check", locals)
    BY <2>0, <2>1, <2>3, Standing DEF StandsAt, Follows, Before
  <2> QED BY <2>0, <2>1, <2>3, <2>4, PutStep DEF Points, Working
<1>2. CASE ManifestCheck(p)
  <2> DEFINE locals == [progress[p] EXCEPT !.manifest = "written"]
  <2>0. at[p] = "manifest_check" /\ UNCHANGED <<dataVars, rollback>>
    BY <1>2 DEF ManifestCheck
  <2>1. /\ locals \in Progress /\ locals.base = progress[p].base
        /\ locals.pointer = progress[p].pointer
    BY Standing, SetManifest, Zenon
  <2>2. CASE Goto(p, "release", progress[p])
    BY <2>0, <2>2, Ends
  <2>3. CASE \E point \in {"commit", "release"} : ManifestReads(p) /\ Goto(p, point, locals)
    <3>1. PICK point \in {"commit", "release"} : ManifestReads(p) /\ Goto(p, point, locals)
      BY <2>3
    <3> HIDE DEF locals
    <3>2. StandsAt(p, point, locals) /\ point \in Points
      BY <2>0, <2>1, <3>1, Standing DEF StandsAt, Follows, Before, Points, ManifestReads
    <3> QED BY <2>0, <2>1, <3>1, <3>2, QuietStep
  <2> QED BY <1>2, <2>2, <2>3 DEF ManifestCheck
<1> QED BY <1>1, <1>2

LEMMA PointerStep ==
    ASSUME PublicationInv, NEW p \in Publishers, PointerPut(p) \/ PointerCheck(p)
    PROVE  PublicationInv'
<1>1. CASE PointerPut(p)
  <2> DEFINE d == [kind |-> "pointer", who |-> p, file |-> None, base |-> progress[p].base]
             locals == [progress[p] EXCEPT !.pointer = "ambiguous"]
  <2>0. /\ at[p] = "pointer" /\ Send(d) /\ Goto(p, "pointer_check", locals)
        /\ UNCHANGED rollback
    BY <1>1 DEF PointerPut
  <2>1. /\ locals \in Progress /\ locals.base = progress[p].base
        /\ locals.pointer = "ambiguous"
    BY Standing, SetPointer, Zenon
  <2>2. /\ manifests[p] # None /\ manifests[p].previous = progress[p].base
        /\ progress[p].base \in Publishers \cup {None}
    BY <2>0, Standing DEF StandsAt, Follows, Progress
  <2>3. d \in DataPut /\ Sound(d) /\ Linked(d) /\ d.kind = "pointer"
    BY <2>2 DEF DataPut, Sound, Linked
  <2> HIDE DEF d, locals
  <2>4. StandsAt(p, "pointer_check", locals)
    BY <2>0, <2>1, Standing DEF StandsAt, Follows, Before
  <2> QED BY <2>0, <2>1, <2>3, <2>4, PutStep DEF Points, Working
<1>2. CASE PointerCheck(p)
  <2>0. at[p] = "pointer_check" /\ UNCHANGED <<dataVars, rollback>>
    BY <1>2 DEF PointerCheck
  <2>1. CASE Goto(p, "release", progress[p])
    BY <2>0, <2>1, Ends
  <2>2. CASE \E x \in {"committed", "conflict"} :
                 /\ x = "committed" => PointerReads(p)
                 /\ Goto(p, "release", [progress[p] EXCEPT !.pointer = x])
    <3>1. PICK x \in {"committed", "conflict"} :
                 /\ x = "committed" => PointerReads(p)
                 /\ Goto(p, "release", [progress[p] EXCEPT !.pointer = x])
      BY <2>2
    <3> DEFINE locals == [progress[p] EXCEPT !.pointer = x]
    <3>2. locals \in Progress /\ locals.base = progress[p].base /\ locals.pointer = x
      <4>1. x \in {"conflict", "ambiguous", "committed"}
        BY <3>1
      <4> QED BY <4>1, Standing, SetPointer, Zenon
    <3>3. Goto(p, "release", locals)
      BY <3>1
    <3>4. x = "committed" => p \in activated
      BY <3>1, PublicationAssumption DEF PointerReads, PublicationInv, DataInv, DataTypeOK
    <3> HIDE DEF locals
    <3>5. StandsAt(p, "release", locals)
      BY <2>0, <3>2, <3>4, Standing DEF StandsAt, Follows, Before
    <3> QED BY <2>0, <3>2, <3>3, <3>5, QuietStep DEF Points
  <2> QED BY <1>2, <2>1, <2>2 DEF PointerCheck
<1> QED BY <1>1, <1>2

-----------------------------------------------------------------------------
(* Steps of the store, the lease and the rollbacks.                         *)

LEMMA LatePutStep ==
    ASSUME PublicationInv, NEW d \in pending, LatePut(d)
    PROVE  PublicationInv'
<1>1. d \in DataPut /\ d.who \in Publishers /\ Sound(d) /\ (Calm => Linked(d))
  BY DEF PublicationInv, DataInv, DataTypeOK, CalmInv, DataPut
<1>2. Store(d) /\ pending' \subseteq pending /\ UNCHANGED <<publisherVars, rollback>>
  BY DEF LatePut
<1>3. DataInv' /\ Grows(d)
  BY <1>1, <1>2, StoreData, StoreGrows DEF PublicationInv, DataInv
<1>4. ControlInv'
  <2>1. \A q \in Publishers : d.kind = "manifest" /\ d.who = q =>
            Follows(d.base, at[q], progress[q])
    BY DEF PublicationInv, ControlInv, StandsAt
  <2> QED BY <1>1, <1>2, <1>3, <2>1, ControlWhenPut DEF PublicationInv, ControlInv, publisherVars
<1>5. RollbackInv'
  BY <1>2, <1>3, RollbackWhenPut DEF PublicationInv
<1>6. CalmInv'
  BY <1>1, <1>2, <1>3, CalmWhenPut DEF PublicationInv, Calm
<1> QED BY <1>3, <1>4, <1>5, <1>6 DEF PublicationInv

LEMMA RollbackQuietStep ==
    ASSUME PublicationInv, NEW r \in Rollbacks,
           RollbackRead(r) \/ \E m \in Publishers : RollbackVerify(r, m)
    PROVE  PublicationInv'
<1>0. UNCHANGED <<dataVars, publisherVars>>
  BY DEF RollbackRead, RollbackVerify
<1>1. DataInv' /\ ControlInv'
  BY <1>0 DEF PublicationInv, DataInv, DataTypeOK, HistoryComplete, Sound, ControlInv,
              StandsAt, dataVars, publisherVars
<1>2. RollbackInv' /\ (Calm' => Calm)
  <2>1. CASE RollbackRead(r)
    <3>1. pointer \in Publishers
      BY <2>1 DEF RollbackRead, PublicationInv, DataInv, DataTypeOK
    <3> QED BY <1>0, <2>1, <3>1 DEF RollbackRead, PublicationInv, RollbackInv, Rollback, Calm,
                                    dataVars
  <2>2. ASSUME NEW m \in Publishers, RollbackVerify(r, m)
        PROVE  RollbackInv' /\ (Calm' => Calm)
    <3>1. /\ rollback[r].step = "verify" /\ manifests[m] # None
          /\ rollback' = [rollback EXCEPT ![r].step = "put", ![r].target = m]
      BY <2>2 DEF RollbackVerify, ManifestReads
    <3>2. /\ rollback \in [Rollbacks -> Rollback]
          /\ \A q \in Rollbacks : rollback[q].step = "put" =>
                 /\ rollback[q].target \in Publishers
                 /\ manifests'[rollback[q].target] # None
      BY <1>0 DEF PublicationInv, RollbackInv, dataVars
    <3>3. rollback' \in [Rollbacks -> Rollback]
      BY <3>1, <3>2 DEF Rollback
    <3>4. /\ rollback'[r].step = "put" /\ rollback'[r].target = m
          /\ \A q \in Rollbacks \ {r} : rollback'[q] = rollback[q]
      BY <3>1, <3>2 DEF Rollback
    <3> QED BY <1>0, <3>1, <3>2, <3>3, <3>4 DEF RollbackInv, Calm, dataVars
  <2> QED BY <2>1, <2>2
<1>3. CalmInv'
  BY <1>0, <1>2 DEF PublicationInv, CalmInv, Covered, ReachableWithin, Linked, dataVars
<1> QED BY <1>1, <1>2, <1>3 DEF PublicationInv

\* A rollback repoints to a verified manifest; from then on the history may
\* leave others behind.
LEMMA RollbackPutStep ==
    ASSUME PublicationInv, NEW r \in Rollbacks, RollbackPut(r)
    PROVE  PublicationInv'
<1> DEFINE d == [kind |-> "pointer", who |-> rollback[r].target, file |-> None,
                 base |-> rollback[r].base]
<1>1. /\ rollback[r].target \in Publishers /\ rollback[r].base \in Publishers \cup {None}
      /\ manifests[rollback[r].target] # None
  BY DEF RollbackPut, PublicationInv, RollbackInv, Rollback
<1>2. d \in DataPut /\ Sound(d) /\ d.kind = "pointer"
  BY <1>1 DEF DataPut, Sound
<1>3. Send(d) /\ UNCHANGED publisherVars
      /\ rollback' = [rollback EXCEPT ![r].step = "done"]
  BY DEF RollbackPut
<1> HIDE DEF d
<1>4. DataInv' /\ Grows(d) /\ pending' \subseteq pending \cup {d}
  BY <1>2, <1>3, SendData DEF PublicationInv
<1>5. ControlInv'
  BY <1>2, <1>3, <1>4, ControlWhenPut DEF PublicationInv, ControlInv, publisherVars
<1>6. RollbackInv' /\ ~Calm'
  BY <1>3, <1>4 DEF PublicationInv, RollbackInv, Rollback, Calm, Grows
<1> QED BY <1>4, <1>5, <1>6 DEF PublicationInv, CalmInv

LEMMA IdleStep ==
    ASSUME PublicationInv, UNCHANGED <<dataVars, publisherVars, rollback>>
    PROVE  PublicationInv'
<1> USE DEF PublicationInv, dataVars
<1>1. DataInv'
  BY DEF DataInv, DataTypeOK, HistoryComplete, Sound
<1>2. ControlInv'
  BY DEF ControlInv, StandsAt, publisherVars
<1>3. RollbackInv'
  BY DEF RollbackInv
<1>4. CalmInv'
  BY DEF CalmInv, Calm, Covered, ReachableWithin, Linked
<1> QED BY <1>1, <1>2, <1>3, <1>4

-----------------------------------------------------------------------------
(* The theorems.                                                            *)

LEMMA PublicationInvInit == PublicationInit => PublicationInv
<1> SUFFICES ASSUME PublicationInit PROVE PublicationInv
  OBVIOUS
<1> USE DEF PublicationInit
<1>1. DataInv
  BY DEF DataInv, DataTypeOK, HistoryComplete
<1>2. ControlInv
  BY Unstarted, PublicationAssumption DEF ControlInv, StandsAt, Points
<1>3. RollbackInv
  BY DEF RollbackInv, Rollback, NoRollback
<1>4. CalmInv
  BY DEF CalmInv, Covered
<1> QED BY <1>1, <1>2, <1>3, <1>4 DEF PublicationInv

LEMMA PublicationInvNext ==
    ASSUME PublicationInv, [PublicationNext]_pubVars
    PROVE  PublicationInv'
<1>1. CASE UNCHANGED <<dataVars, publisherVars, rollback>>
  BY <1>1, IdleStep
<1>2. ASSUME NEW d \in pending, LatePut(d) PROVE PublicationInv'
  BY <1>2, LatePutStep
<1>3. ASSUME NEW p \in Publishers, PublisherStep(p), ~LeaseStep(p) PROVE PublicationInv'
  BY <1>3, StartStep, WorkStep, ObjectStep, ManifestStep, PointerStep DEF PublisherStep
<1>4. ASSUME NEW r \in Rollbacks,
             RollbackRead(r) \/ (\E m \in Publishers : RollbackVerify(r, m)) \/ RollbackPut(r)
      PROVE  PublicationInv'
  BY <1>4, RollbackQuietStep, RollbackPutStep
<1>5. ASSUME NEW p \in Publishers, LeaseStep(p)
      PROVE  UNCHANGED <<dataVars, publisherVars, rollback>>
  BY <1>5 DEF LeaseStep
<1> QED BY <1>1, <1>2, <1>3, <1>4, <1>5 DEF PublicationNext, pubVars

\* Every step of the publication is a step of the lease, or leaves it alone.
LEMMA PublicationIsWriting ==
    ASSUME [PublicationNext]_pubVars
    PROVE  [WriterNext]_writerVars
<1>1. ASSUME NEW p \in Publishers, PublisherStep(p)
      PROVE  [WriterNext]_writerVars
  <2>1. CASE LeaseStep(p)
    BY <2>1 DEF LeaseStep, WriterNext
  <2>2. CASE PublisherDies(p)
    BY <2>2 DEF PublisherDies, WriterNext
  <2>3. CASE ~LeaseStep(p) /\ ~PublisherDies(p)
    BY <1>1, <2>3 DEF PublisherStep, PublishStart, NotAcquired, Reread, PublishFails, Fetch,
       UploadCheckpoint, ObjectPut, ObjectCheck, Verify, ManifestPut, ManifestCheck,
       CommitCheckpoint, PointerPut, PointerCheck, Released
  <2> QED BY <2>1, <2>2, <2>3
<1>2. CASE ServerTick \/ \E r \in delayed : DelayedPut(r)
  BY <1>2 DEF WriterNext
<1>3. CASE \/ \E d \in pending : LatePut(d)
           \/ \E r \in Rollbacks :
                 RollbackRead(r) \/ (\E m \in Publishers : RollbackVerify(r, m)) \/ RollbackPut(r)
  BY <1>3 DEF LatePut, RollbackRead, RollbackVerify, RollbackPut
<1> QED BY <1>1, <1>2, <1>3 DEF PublicationNext, pubVars

\* The publication uses the lease as PublicationLease says it may be used
\* (publish_dataset).
THEOREM PublicationImplementsWriter == PublicationSpec => WriterSpec
<1>1. PublicationInit => WriterInit
  BY DEF PublicationInit
<1>2. [PublicationNext]_pubVars => [WriterNext]_writerVars
  BY PublicationIsWriting
<1> QED BY <1>1, <1>2, PTL DEF PublicationSpec, WriterSpec

\* What is stored and what is still in flight agree with where every attempt
\* and every rollback stands (_stage_and_commit_candidate).
THEOREM PublicationInvariant == PublicationSpec => []PublicationInv
<1>1. PublicationInv /\ [PublicationNext]_pubVars => PublicationInv'
  BY PublicationInvNext
<1> QED BY <1>1, PublicationInvInit, PTL DEF PublicationSpec

\* Every variable keeps its type.
THEOREM PublicationTypesCorrect == PublicationSpec => []PublicationTypeOK
<1>1. WriterInv /\ PublicationInv => PublicationTypeOK
  BY DEF WriterInv, PublicationInv, DataInv, DataTypeOK, ControlInv, RollbackInv,
         PublicationTypeOK
<1> QED BY <1>1, PublicationInvariant, PublicationImplementsWriter, WriterInvariant, PTL

\* Whatever a reader can be pointed to is complete, for any number of
\* attempts, rollbacks and late puts (_stage_and_commit_candidate,
\* _rollback_transaction).
THEOREM PublishedHistoryComplete == PublicationSpec => []HistoryComplete
<1>1. PublicationInv => HistoryComplete
  BY DEF PublicationInv, DataInv
<1> QED BY <1>1, PublicationInvariant, PTL

\* No publication is lost to a concurrent one, whatever became of the leases
\* (_put_pointer_exact).
THEOREM PublicationDropsNothing == PublicationSpec => []NothingDropped
<1>1. PublicationInv => NothingDropped
  BY DEF PublicationInv, CalmInv, Calm, Covered, NothingDropped
<1> QED BY <1>1, PublicationInvariant, PTL

\* A pointer that is reported committed was active (_reconcile_control_write).
THEOREM CommitReportsTrue == PublicationSpec => []CommittedWasActive
<1>1. PublicationInv => CommittedWasActive
  BY DEF PublicationInv, ControlInv, StandsAt, CommittedWasActive
<1> QED BY <1>1, PublicationInvariant, PTL

\* Whoever believes it holds the dataset's lease does, in the publication as
\* it uses the lease (publish_dataset, LeaseKeepalive).
THEOREM PublishersHoldStored == PublicationSpec => []HolderIsStored
BY PublicationImplementsWriter, HolderAlwaysStored, PTL

\* A publication never takes over a running lease (acquire_lease).
THEOREM PublicationTakesNoLeaseEarly == PublicationSpec => NoEarlyTakeover
BY PublicationImplementsWriter, LeaseNotTakenEarly, PTL
-----------------------------------------------------------------------------
(* The register that readers see.                                           *)

RegisterStep == [Register!RegisterNext]_(Register!registerVars)

LEMMA StoreIsRegisterStep ==
    ASSUME DataTypeOK, NEW d \in DataPut, Sound(d), Store(d)
    PROVE  RegisterStep
<1> USE DEF RegisterStep, Register!registerVars, Register!RegisterNext
<1>0. d.who \in Publishers /\ d.base \in Publishers \cup {None}
  BY DEF DataPut
<1>1. CASE d.kind = "object"
  <2>1. Register!Upload(d.who, d.file)
    BY <1>1 DEF Store, Register!Upload
  <2> QED BY <1>0, <1>1, <2>1 DEF Sound
<1>2. CASE d.kind = "manifest" /\ manifests[d.who] = None
  <2>1. Register!Commit(d.who, d.base)
    BY <1>0, <1>2 DEF Store, Sound, Register!Commit, DataTypeOK
  <2> QED BY <1>0, <2>1
<1>3. CASE d.kind = "manifest" /\ manifests[d.who] # None
  BY <1>0, <1>3 DEF Store, DataTypeOK
<1>4. CASE d.kind = "pointer" /\ PointerMatches(d)
  <2>1. Register!Repoint(d.who)
    BY <1>4 DEF Store, Sound, Register!Repoint
  <2> QED BY <1>0, <2>1
<1>5. CASE d.kind = "pointer" /\ ~PointerMatches(d)
  BY <1>5 DEF Store
<1> QED BY <1>1, <1>2, <1>3, <1>4, <1>5 DEF DataPut

LEMMA QuietIsRegisterStep ==
    ASSUME UNCHANGED <<objects, manifests, pointer, activated>>
    PROVE  RegisterStep
BY DEF RegisterStep, Register!registerVars

LEMMA SendIsRegisterStep ==
    ASSUME DataTypeOK, NEW d \in DataPut, Sound(d), Send(d)
    PROVE  RegisterStep
<1>1. CASE UNCHANGED dataVars
  BY <1>1, QuietIsRegisterStep DEF dataVars
<1> QED BY <1>1, StoreIsRegisterStep, QuietIsRegisterStep DEF Send

\* Each attempt's puts are sound when they are sent.
LEMMA PutIsRegisterStep ==
    ASSUME PublicationInv, NEW p \in Publishers,
           ObjectPut(p) \/ ManifestPut(p) \/ PointerPut(p)
    PROVE  RegisterStep
<1>0. DataTypeOK
  BY DEF PublicationInv, DataInv
<1>1. CASE ObjectPut(p)
  <2> DEFINE d == [kind |-> "object", who |-> p, file |-> NextFile(p), base |-> None]
  <2>1. /\ progress[p].proven # Files
        /\ progress[p].proven \subseteq Files
    BY <1>1, Standing DEF ObjectPut, StandsAt, Progress
  <2>2. NextFile(p) \in Files
    BY <2>1 DEF NextFile
  <2>3. d \in DataPut /\ Sound(d) /\ Send(d)
    BY <1>1, <2>2 DEF DataPut, Sound, ObjectPut
  <2> HIDE DEF d
  <2> QED BY <1>0, <2>3, SendIsRegisterStep
<1>2. CASE ManifestPut(p)
  <2> DEFINE d == [kind |-> "manifest", who |-> p, file |-> None, base |-> progress[p].base]
  <2>1. objects[p] = Files /\ progress[p].base \in activated \cup {None}
        /\ progress[p].base \in Publishers \cup {None}
    BY <1>2, Standing DEF ManifestPut, StandsAt, Progress
  <2>2. d \in DataPut /\ Sound(d) /\ Send(d)
    BY <1>2, <2>1 DEF DataPut, Sound, ManifestPut
  <2> HIDE DEF d
  <2> QED BY <1>0, <2>2, SendIsRegisterStep
<1>3. CASE PointerPut(p)
  <2> DEFINE d == [kind |-> "pointer", who |-> p, file |-> None, base |-> progress[p].base]
  <2>1. manifests[p] # None /\ progress[p].base \in Publishers \cup {None}
    BY <1>3, Standing DEF PointerPut, StandsAt, Progress
  <2>2. d \in DataPut /\ Sound(d) /\ Send(d)
    BY <1>3, <2>1 DEF DataPut, Sound, PointerPut
  <2> HIDE DEF d
  <2> QED BY <1>0, <2>2, SendIsRegisterStep
<1> QED BY <1>1, <1>2, <1>3

LEMMA PublicationIsRegisterStep ==
    ASSUME PublicationInv, [PublicationNext]_pubVars
    PROVE  RegisterStep
<1>1. CASE UNCHANGED dataVars
  BY <1>1, QuietIsRegisterStep DEF dataVars
<1>2. ASSUME NEW d \in pending, LatePut(d) PROVE RegisterStep
  BY <1>2, StoreIsRegisterStep DEF LatePut, PublicationInv, DataInv, DataTypeOK
<1>3. ASSUME NEW p \in Publishers, PublisherStep(p) PROVE RegisterStep
  <2>1. CASE ObjectPut(p) \/ ManifestPut(p) \/ PointerPut(p)
    BY <2>1, PutIsRegisterStep
  <2>2. CASE ~(ObjectPut(p) \/ ManifestPut(p) \/ PointerPut(p))
    BY <1>1, <1>3, <2>2 DEF PublisherStep, PublishStart, LeaseStep, NotAcquired, Reread,
       PublishFails, Fetch, UploadCheckpoint, ObjectCheck, Verify, ManifestCheck,
       CommitCheckpoint, PointerCheck, Released, PublisherDies
  <2> QED BY <2>1, <2>2
<1>4. ASSUME NEW r \in Rollbacks, RollbackPut(r) PROVE RegisterStep
  <2> DEFINE d == [kind |-> "pointer", who |-> rollback[r].target, file |-> None,
                   base |-> rollback[r].base]
  <2>1. /\ rollback[r].target \in Publishers /\ rollback[r].base \in Publishers \cup {None}
        /\ manifests[rollback[r].target] # None
    BY <1>4 DEF RollbackPut, PublicationInv, RollbackInv, Rollback
  <2>2. d \in DataPut /\ Sound(d) /\ Send(d)
    BY <1>4, <2>1 DEF DataPut, Sound, RollbackPut
  <2> HIDE DEF d
  <2> QED BY <2>2, SendIsRegisterStep DEF PublicationInv, DataInv
<1>5. ASSUME NEW r \in Rollbacks, RollbackRead(r) \/ \E m \in Publishers : RollbackVerify(r, m)
      PROVE  RegisterStep
  BY <1>1, <1>5 DEF RollbackRead, RollbackVerify
<1> QED BY <1>1, <1>2, <1>3, <1>4, <1>5 DEF PublicationNext, pubVars

\* Publishing, with everything that can be lost, late or dead, implements the
\* register that the resolver and the inventory rely on
\* (_stage_and_commit_candidate, _rollback_transaction).
THEOREM PublicationImplementsRegister == PublicationSpec => ImplementsRegister
<1>1. PublicationInit => Register!RegisterInit
  BY DEF PublicationInit, Register!RegisterInit
<1>2. PublicationInv /\ [PublicationNext]_pubVars => RegisterStep
  BY PublicationIsRegisterStep
<1> QED BY <1>1, <1>2, PublicationInvariant, PTL
        DEF PublicationSpec, ImplementsRegister, Register!RegisterSpec, RegisterStep
=============================================================================
