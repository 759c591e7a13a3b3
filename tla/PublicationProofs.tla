------------------------- MODULE PublicationProofs -------------------------
(***************************************************************************)
(* Proofs about the publication of sessions and Events.                    *)
(*                                                                         *)
(* The argument has two halves.  The first is about uploads, whatever the  *)
(* pass is doing: an upload of a session or of the first Event may arrive, *)
(* may be settled once the Relay holds it, and may be replaced only while  *)
(* the Relay does not (SessionStep, EventStep); these steps keep CoreInv,  *)
(* from which the evidence and the uniqueness of the Events follow.        *)
(*                                                                         *)
(* The second half shows that every action of the daemon takes only such   *)
(* steps.  This needs to know what each stage of a pass has established    *)
(* (StageInv: for one, that no session's upload is of unknown fate when    *)
(* the Events are sent, since both would take the same revision), and what *)
(* the references of the manifest under way are to (RefsInv).              *)
(***************************************************************************)
EXTENDS Publication, FiniteSetTheorems, WellFoundedInduction, TLAPS

-----------------------------------------------------------------------------
(* The inductive invariant.                                                *)

\* The Relay's log of a session is numbered by revision: it takes only the next one (Verdict).
LogInv == \A s \in Sessions : \A r \in 1..Len(log[s]) : log[s][r].rev = r

\* The committed revision is the last that the log holds, or the one before it.
RevInv == \A s \in Sessions : rev[s] <= Len(log[s]) /\ Len(log[s]) <= rev[s] + 1

\* A session's upload of unknown fate is at the next revision, and it is not an Event's.
InflightInv == \A s \in Sessions : inflight[s] # NoUpload =>
   inflight[s].rev = rev[s] + 1 /\ inflight[s].event = 0

\* Only the first Event has an upload, made for it and fit to be sent; if the Relay holds it,
\* then at the next revision of its session.
HeadInv == \A i \in 1..Len(queue) : queue[i].upload # NoUpload =>
   /\ i = 1 /\ queue[i].upload.event = queue[i].id /\ Fit(queue[i].content)
   /\ queue[i].upload.rev \in 1..(rev[queue[i].session] + 1)
   /\ Holds(queue[i].session, queue[i].upload) => queue[i].upload.rev = rev[queue[i].session] + 1

\* Events to come, in the queue, given up and stored: no two have the same id.
IdsInv ==
  /\ \A i \in 1..Len(queue) : queue[i].id > events /\ \A j \in 1..Len(queue) : queue[i].id = queue[j].id => i = j
  /\ \A e \in dead : e.id > events /\ \A i \in 1..Len(queue) : queue[i].id # e.id
  /\ \A s \in Sessions : \A r \in 1..Len(log[s]) : log[s][r].event = 0 \/ log[s][r].event > events

\* No two entries of the logs are of one Event.
OnceInv ==
  \A s, t \in Sessions : \A r \in 1..Len(log[s]), q \in 1..Len(log[t]) :
        log[s][r].event # 0 /\ log[s][r].event = log[t][q].event => s = t /\ r = q

\* What the Relay holds of an Event in the queue is the very upload kept with it, and only
\* the first can be held; of one given up it holds nothing.
StoredInv ==
  \A s \in Sessions : \A r \in 1..Len(log[s]) :
       /\ \A i \in 1..Len(queue) : log[s][r].event = queue[i].id => i = 1 /\ queue[i].session = s /\
            queue[i].upload = log[s][r]
       /\ \A e \in dead : log[s][r].event # e.id

\* An entry beyond the committed revision is kept as evidence, with the session or with an Event.
OpenInv ==
  \A s \in Sessions : Len(log[s]) = rev[s] + 1 =>
     \/ inflight[s] = log[s][rev[s] + 1]
     \/ \E i \in 1..Len(queue) : queue[i].session = s /\ queue[i].upload = log[s][rev[s] + 1]

\* What holds of the uploads at every step, whatever the pass is doing.
CoreInv == LogInv /\ RevInv /\ InflightInv /\ HeadInv /\ IdsInv /\ OnceInv /\ StoredInv /\ OpenInv

\* What each stage of a pass knows: which uploads are of unknown fate, that every one of them
\* is on its way to be settled, and what the upload just made is of.
StageInv ==
  /\ pass.pc = "reconcile" => \A s \in Sessions : inflight[s] # NoUpload =>
        /\ pass.had
        /\ s \in pass.todo \/ pass.deferred \/ s \in DOMAIN pass.view
  /\ pass.pc = "reconcile" => \A s \in pass.todo : inflight[s] # NoUpload
  /\ pass.pc \in {"prepare", "send", "manifest"} =>
        /\ pass.todo \subseteq DOMAIN pass.view
        /\ \A s \in Sessions : inflight[s] # NoUpload => s \in pass.todo
  /\ pass.pc = "send" => pass.todo # {} /\ inflight[Turn] # NoUpload /\
       inflight[Turn].content = pass.view[Turn] /\ inflight[Turn].recips = pass.version
  /\ pass.pc = "manifest" => pass.todo = {} /\ pass.pub.recips = pass.version
  /\ pass.pc \in {"drain", "event", "sendEvent"} => \A s \in Sessions : inflight[s] = NoUpload
  /\ pass.pc = "cover" => \A s \in Sessions : inflight[s] # NoUpload <=> s \in pass.todo
  /\ pass.pc \in {"event", "sendEvent"} => pass.left <= Len(queue)
  /\ pass.pc = "sendEvent" => pass.left > 0 /\ queue[1].upload # NoUpload

\* The references collected so far are to stored uploads of the pass's own copy of the
\* sessions, for the recipients it publishes for.
RefsInv ==
  pass.pc \in {"prepare", "send", "manifest"} => \A s \in Referred(pass.revs) :
     /\ s \in DOMAIN pass.view
     /\ pass.revs[s] \in 1..Len(log[s])
     /\ log[s][pass.revs[s]].recips = pass.version
     /\ log[s][pass.revs[s]].content = pass.view[s]

\* The manifest known to be accepted is no newer than the Relay's.
ManifestInv == manifest.acc <= relayManifest.rev

\* The inductive invariant.
IInv == CoreInv /\ StageInv /\ RefsInv /\ ManifestInv /\ ManifestsAreSound

-----------------------------------------------------------------------------
(* Operators and types.                                                    *)

\* The least of some natural numbers is one of them.
LEMMA Least ==
  ASSUME NEW S \in SUBSET Nat, S # {}
  PROVE  Min(S) \in S
<1>1. IsWellFoundedOn(OpToRel(<, Nat), Nat)
  BY NatLessThanWellFounded
<1>2. \E x \in S : \A y \in S : <<y, x>> \notin OpToRel(<, Nat)
  BY <1>1, WFMin
<1>3. PICK x \in S : \A y \in S : <<y, x>> \notin OpToRel(<, Nat)
  BY <1>2
<1>4. \A y \in S : ~(y < x)
  BY <1>3, Zenon DEF OpToRel
<1>5. \A y \in S : x <= y
  BY <1>4
<1> QED BY <1>5 DEF Min

\* The session in turn is one of those still to be dealt with.
LEMMA TurnIsNext == ASSUME TypeOK, pass.todo # {} PROVE Turn \in pass.todo /\ Turn \in Sessions
<1>1. pass.todo \in SUBSET Sessions
  BY DEF TypeOK, Passes
<1>2. NumSessions \in Nat
  BY PublicationAssumption
<1>3. Sessions \subseteq Nat
  BY <1>2 DEF Sessions
<1> QED BY <1>1, <1>3, Least DEF Turn

\* The least and the greatest of a few numbers are among them.
LEMMA Extremes ==
  /\ \A a, b \in Nat : Min({a, b}) \in {a, b} /\ Max({a, b}) \in {a, b}
  /\ \A a, b, c \in Nat : Max({a, b, c}) \in {a, b, c}
  BY DEF Min, Max

\* A manifest revision is a natural number.
LEMMA NextManifests == ASSUME TypeOK PROVE \A m \in Nat : NextManifest(m) \in Nat
<1>1. manifest.alloc \in Nat /\ manifest.acc \in Nat /\ relayManifest.rev \in Nat
  BY DEF TypeOK
<1> TAKE m \in Nat
<1>2. Max({manifest.alloc + 1, manifest.acc + 1, m}) \in Nat
  BY <1>1, Extremes
<1>3. relayManifest.rev + 1 \in Nat
  BY <1>1
<1> QED BY <1>2, <1>3, Extremes DEF NextManifest

\* The blank values have their types.
LEMMA Blank == Idle \in Passes /\ NoUpload \in Uploads /\ <<>> \in Views /\ NoRefs \in References
<1>1. <<>> \in [{} -> Contents]
  OBVIOUS
<1>2. <<>> \in Views /\ NoRefs \in References
  BY <1>1 DEF Views, References, NoRefs
<1>3. 0 \in Contents
  BY PublicationAssumption
<1> QED BY <1>2, <1>3 DEF Idle, Passes, Pcs, NoUpload, Uploads

\* Where a pass that stops goes.
Draining == [Idle EXCEPT !.pc = "drain"]

Recovering == [Idle EXCEPT !.pc = "snapshot", !.view = pass.view, !.recovering = TRUE]

\* What remains of a pass that stops: nothing, or the Events that may drain, or a new start.
LEMMA Stops ==
  ASSUME TypeOK
  PROVE  /\ \A o : Return(o) => (pass' = Idle \/ (MayDrain(o) /\ pass' = Draining)) /\ fails' \in 0..2 /\
              offline' \in BOOLEAN
         /\ Throw => pass' \in {Idle, Recovering} /\ fails' \in 0..2 /\ offline' \in BOOLEAN
         /\ Fault => pass' = Idle /\ fails' \in 0..2 /\ offline' \in BOOLEAN
         /\ End => pass' = Idle /\ fails' \in 0..2 /\ offline' \in BOOLEAN
<1>1. fails \in 0..2 /\ offline \in BOOLEAN /\ pass.recovering \in BOOLEAN
  BY DEF TypeOK, Passes
<1>2. \A o : Return(o) => (pass' = Idle \/ (MayDrain(o) /\ pass' = Draining)) /\ fails' \in 0..2 /\
        offline' \in BOOLEAN
  BY <1>1 DEF Return, Draining
<1>3. Min({fails + 1, 2}) \in 0..2
  <2>1. \A x \in 0..2 : x + 1 \in Nat /\ (x + 1 > 2 => ~(x + 1 <= 2))
    OBVIOUS
  <2> QED BY <1>1 DEF Min
<1>4. Throw => pass' \in {Idle, Recovering} /\ fails' \in 0..2 /\ offline' \in BOOLEAN
  BY <1>1, <1>3 DEF Throw, Recovering
<1> QED BY <1>1, <1>2, <1>4 DEF Fault, End

\* A pass that stops is still one.
LEMMA StopTypes == ASSUME TypeOK PROVE {Idle, Draining, Recovering} \subseteq Passes
<1>1. pass.view \in Views
  BY DEF TypeOK, Passes
<1>2. Draining \in Passes /\ Recovering \in Passes
  BY <1>1, Blank DEF Draining, Recovering, Idle, Passes, Pcs
<1> QED BY <1>2, Blank

\* The logs keep their type when an upload is stored.
LEMMA StoredTypes ==
  ASSUME TypeOK, NEW s \in Sessions, NEW u \in Uploads
  PROVE  Stored(s, u) \in [Sessions -> Seq(Uploads)]
  BY DEF TypeOK, Stored

\* References keep their type when one is added.
LEMMA WithTypes ==
  ASSUME NEW f \in References, NEW s \in Sessions, NEW n \in Nat
  PROVE  With(f, s, n) \in References
  BY DEF References, With

\* Encryption makes uploads.
LEMMA UploadTypes ==
  ASSUME TypeOK
  PROVE  /\ \A c \in Contents, r, v \in Nat : SessionUpload(c, r, v) \in Uploads
         /\ \A u \in Uploads, c \in Contents, v \in Nat : Reencrypted(u, c, v) \in Uploads
         /\ \A e \in QueuedEvents, r, v \in Nat : EventUpload(e, r, v) \in Uploads
         /\ \A s \in DOMAIN pass.view : Source(s) \in Contents
         /\ DOMAIN pass.view \in SUBSET Sessions
<1>1. PICK S \in SUBSET Sessions : pass.view \in [S -> Contents]
  BY DEF TypeOK, Passes, Views
<1>2. \A s \in DOMAIN pass.view : Source(s) \in Contents
  BY <1>1 DEF Source
<1>3. DOMAIN pass.view \in SUBSET Sessions
  BY <1>1
<1>4. \A u \in Uploads, c \in Contents, v \in Nat : Reencrypted(u, c, v) \in Uploads
  <2> SUFFICES ASSUME NEW u \in Uploads, NEW c \in Contents, NEW v \in Nat
               PROVE  Reencrypted(u, c, v) \in Uploads
    OBVIOUS
  <2>1. u.enc + 1 \in Nat
    BY DEF Uploads
  <2>2. Reencrypted(u, c, v) = [u EXCEPT !.content = c, !.recips = v, !.enc = u.enc + 1]
    BY DEF Reencrypted
  <2> QED BY <2>1, <2>2 DEF Uploads
<1> QED BY <1>2, <1>3, <1>4 DEF SessionUpload, Uploads, EventUpload, QueuedEvents

-----------------------------------------------------------------------------
(* The steps of an upload's life.                                          *)

\* An upload is stored behind what the log holds, or changes nothing.
Arrives(s, u) ==
    \/ log' = log
    \/ u.rev = Len(log[s]) + 1 /\ log' = [log EXCEPT ![s] = Append(log[s], u)]

\* A session's upload at revision r.
NewUpload(u, s, r) == u \in Uploads /\ u.rev = r /\ u.event = 0

\* A step that leaves the uploads alone.
RestStep == UNCHANGED log /\ UNCHANGED rev /\ UNCHANGED inflight /\ UNCHANGED queue /\ UNCHANGED dead /\
  UNCHANGED events

\* An Event is queued.
EmitStep ==
    /\ UNCHANGED log /\ UNCHANGED rev /\ UNCHANGED inflight /\ UNCHANGED dead
    /\ events > 0 /\ events' = events - 1
    /\ \E e \in QueuedEvents : e.id = events /\ e.upload = NoUpload /\ queue' = Append(queue, e)

\* Sessions without an upload of unknown fate get one, at their next revision.
CoverStep ==
    /\ UNCHANGED log /\ UNCHANGED rev /\ UNCHANGED queue /\ UNCHANGED dead /\ UNCHANGED events
    /\ inflight' \in [Sessions -> Uploads]
    /\ \A s \in Sessions :
         inflight'[s] = inflight[s] \/ (inflight[s] = NoUpload /\ NewUpload(inflight'[s], s, rev[s] + 1))

\* One session's upload: it may arrive; it stays, or is settled and perhaps followed by another,
\* or is replaced while the Relay does not hold it.
SessionStep(s) ==
    /\ UNCHANGED queue /\ UNCHANGED dead /\ UNCHANGED events
    /\ log' = log \/ (inflight[s] # NoUpload /\ Arrives(s, inflight[s]))
    /\ \/ UNCHANGED rev /\ UNCHANGED inflight
       \/ /\ inflight[s] # NoUpload /\ HeldIn(log'[s], inflight[s])
          /\ rev' = [rev EXCEPT ![s] = inflight[s].rev]
          /\ \E u \in Uploads : /\ inflight' = [inflight EXCEPT ![s] = u]
                                /\ u = NoUpload \/ NewUpload(u, s, inflight[s].rev + 1)
       \/ /\ inflight[s] = NoUpload \/ ~HeldIn(log'[s], inflight[s])
          /\ UNCHANGED rev
          /\ \E u \in Uploads : inflight' = [inflight EXCEPT ![s] = u] /\ NewUpload(u, s, rev[s] + 1)

\* The Event at the head of the queue.
First == queue[1]

\* The first Event's upload: it may arrive; it stays, or is settled, or the Event is given up
\* or gets another upload, these two only while the Relay does not hold it.
EventStep ==
    /\ UNCHANGED inflight /\ UNCHANGED events
    /\ Len(queue) > 0 /\ inflight[First.session] = NoUpload
    /\ log' = log \/ (First.upload # NoUpload /\ Arrives(First.session, First.upload))
    /\ \/ UNCHANGED rev /\ UNCHANGED queue /\ UNCHANGED dead
       \/ /\ First.upload # NoUpload /\ HeldIn(log'[First.session], First.upload)
          /\ rev' = [rev EXCEPT ![First.session] = First.upload.rev]
          /\ queue' = Tail(queue) /\ UNCHANGED dead
       \/ /\ First.upload = NoUpload \/ ~HeldIn(log'[First.session], First.upload)
          /\ UNCHANGED rev
          /\ queue' = Tail(queue) /\ dead' = dead \cup {First}
       \/ /\ First.upload = NoUpload \/ ~HeldIn(log'[First.session], First.upload)
          /\ Fit(First.content)
          /\ UNCHANGED rev /\ UNCHANGED dead
          /\ \E u \in Uploads : /\ queue' = [queue EXCEPT ![1].upload = u]
                                /\ u.event = First.id /\ u.rev \in 1..(rev[First.session] + 1)

\* Every step of the system is one of these, for the uploads.
CoreStep == RestStep \/ EmitStep \/ CoverStep \/ EventStep \/ \E s \in Sessions : SessionStep(s)

\* The types of what these steps change.
CoreTypes ==
    /\ rev \in [Sessions -> Nat]
    /\ inflight \in [Sessions -> Uploads]
    /\ queue \in Seq(QueuedEvents)
    /\ dead \in SUBSET QueuedEvents
    /\ log \in [Sessions -> Seq(Uploads)]
    /\ events \in Nat

\* What an arrival leaves of the logs.
LEMMA Arrivals ==
  ASSUME CoreTypes, NEW s \in Sessions, NEW u \in Uploads, Arrives(s, u) \/ log' = log
  PROVE  /\ log' \in [Sessions -> Seq(Uploads)]
         /\ \A t \in Sessions : t # s => log'[t] = log[t]
         /\ \A t \in Sessions : /\ Len(log[t]) <= Len(log'[t])
                                /\ \A r \in 1..Len(log[t]) : log'[t][r] = log[t][r]
         /\ \/ log' = log
            \/ u.rev = Len(log[s]) + 1 /\ Len(log'[s]) = Len(log[s]) + 1 /\ log'[s][Len(log[s]) + 1] = u
<1>1. log \in [Sessions -> Seq(Uploads)]
  BY DEF CoreTypes
<1>2. CASE log' = log
  BY <1>1, <1>2
<1>3. CASE u.rev = Len(log[s]) + 1 /\ log' = [log EXCEPT ![s] = Append(log[s], u)]
  <2>1. Append(log[s], u) \in Seq(Uploads) /\ Len(log[s]) \in Nat
    BY <1>1
  <2>2. /\ Len(Append(log[s], u)) = Len(log[s]) + 1 /\ Append(log[s], u)[Len(log[s]) + 1] = u
        /\ \A r \in 1..Len(log[s]) : Append(log[s], u)[r] = log[s][r]
    BY <1>1
  <2>3. log'[s] = Append(log[s], u) /\ \A t \in Sessions : t # s => log'[t] = log[t]
    BY <1>1, <1>3
  <2>4. log' \in [Sessions -> Seq(Uploads)]
    BY <1>1, <1>3, <2>1
  <2> QED BY <1>1, <1>3, <2>1, <2>2, <2>3, <2>4
<1> QED BY <1>2, <1>3 DEF Arrives

\* What a step takes from the queue, or replaces at its head.
LEMMA Heads ==
  ASSUME CoreTypes, Len(queue) > 0
  PROVE  /\ First \in QueuedEvents /\ First.session \in Sessions /\ First.upload \in Uploads /\
              First.id \in Nat \ {0} /\ First.upload.rev \in Nat
         /\ Tail(queue) \in Seq(QueuedEvents) /\ Len(Tail(queue)) = Len(queue) - 1
         /\ \A i \in 1..Len(Tail(queue)) : Tail(queue)[i] = queue[i + 1] /\ i + 1 \in 1..Len(queue)
         /\ \A u \in Uploads : LET q == [queue EXCEPT ![1].upload = u] IN
               /\ q \in Seq(QueuedEvents) /\ Len(q) = Len(queue)
               /\ q[1].upload = u /\ q[1].id = First.id /\ q[1].session = First.session /\
                    q[1].content = First.content
               /\ \A i \in 1..Len(queue) : i # 1 => q[i] = queue[i]
<1>1. queue \in Seq(QueuedEvents) /\ Len(queue) \in Nat /\ 1 \in 1..Len(queue)
  BY DEF CoreTypes
<1>2. First \in QueuedEvents
  BY <1>1 DEF First
<1>3. First.session \in Sessions /\ First.upload \in Uploads /\ First.id \in Nat \ {0} /\ First.upload.rev \in Nat
  BY <1>2 DEF QueuedEvents, Uploads
<1>4. Tail(queue) \in Seq(QueuedEvents) /\ Len(Tail(queue)) = Len(queue) - 1
  BY <1>1
<1>5. \A i \in 1..Len(Tail(queue)) : Tail(queue)[i] = queue[i + 1] /\ i + 1 \in 1..Len(queue)
  BY <1>1, <1>4
<1>6. ASSUME NEW u \in Uploads
      PROVE  LET q == [queue EXCEPT ![1].upload = u] IN
               /\ q \in Seq(QueuedEvents) /\ Len(q) = Len(queue)
               /\ q[1].upload = u /\ q[1].id = First.id /\ q[1].session = First.session /\
                    q[1].content = First.content
               /\ \A i \in 1..Len(queue) : i # 1 => q[i] = queue[i]
  <2> DEFINE e == [First EXCEPT !.upload = u]
  <2>1. e \in QueuedEvents /\ e.upload = u /\ e.id = First.id /\ e.session = First.session /\
          e.content = First.content
    BY <1>2 DEF QueuedEvents
  <2>2. [queue EXCEPT ![1].upload = u] = [queue EXCEPT ![1] = e]
    BY <1>1 DEF First
  <2> HIDE DEF e
  <2>3. /\ [queue EXCEPT ![1] = e] \in Seq(QueuedEvents) /\ Len([queue EXCEPT ![1] = e]) = Len(queue)
    BY <1>1, <2>1
  <2>4. [queue EXCEPT ![1] = e][1] = e /\ \A i \in 1..Len(queue) : i # 1 => [queue EXCEPT ![1] = e][i] = queue[i]
    BY <1>1
  <2> QED BY <2>1, <2>2, <2>3, <2>4
<1> QED BY <1>2, <1>3, <1>4, <1>5, <1>6

-----------------------------------------------------------------------------
(* The core invariant is kept by each of them.                             *)

\* Facts about one log entry that the proofs keep needing.
LEMMA Entries ==
  ASSUME CoreTypes
  PROVE  \A s \in Sessions : /\ Len(log[s]) \in Nat /\ rev[s] \in Nat /\ inflight[s] \in Uploads /\
                                  inflight[s].rev \in Nat
                             /\ \A r \in 1..Len(log[s]) : log[s][r] \in Uploads /\ log[s][r].rev \in Nat /\
                                  log[s][r].event \in Nat
<1>1. \A s \in Sessions : /\ Len(log[s]) \in Nat /\ rev[s] \in Nat /\ inflight[s] \in Uploads
                          /\ \A r \in 1..Len(log[s]) : log[s][r] \in Uploads
  BY DEF CoreTypes
<1> QED BY <1>1 DEF Uploads

\* Facts about one queued Event that the proofs keep needing.
LEMMA QueueEntries ==
  ASSUME CoreTypes
  PROVE  /\ Len(queue) \in Nat
         /\ \A i \in 1..Len(queue) : /\ queue[i] \in QueuedEvents /\ queue[i].id \in Nat \ {0} /\
                                          queue[i].session \in Sessions
                                     /\ queue[i].upload \in Uploads /\ queue[i].upload.rev \in Nat /\
                                          queue[i].upload.event \in Nat
         /\ \A e \in dead : e.id \in Nat \ {0}
<1>1. Len(queue) \in Nat /\ (\A i \in 1..Len(queue) : queue[i] \in QueuedEvents) /\ dead \in SUBSET QueuedEvents
  BY DEF CoreTypes
<1>2. \A e \in QueuedEvents : e.id \in Nat \ {0} /\ e.session \in Sessions /\ e.upload \in Uploads
  BY DEF QueuedEvents
<1>3. \A u \in Uploads : u.rev \in Nat /\ u.event \in Nat
  BY DEF Uploads
<1> QED BY <1>1, <1>2, <1>3

\* What a step does to session s, and to no other.
Elsewhere(s) == \A t \in Sessions : t # s => log'[t] = log[t] /\ rev'[t] = rev[t] /\ inflight'[t] = inflight[t]

\* The log of s has got one more entry, u, at the revision after the committed one.
Grown(s, u) == /\ Len(log[s]) = rev[s] /\ Len(log'[s]) = rev[s] + 1 /\ log'[s][rev[s] + 1] = u /\ u.rev = rev[s] + 1
               /\ \A r \in 1..Len(log[s]) : log'[s][r] = log[s][r]

\* The log of s is as it was.
Same(s) == log'[s] = log[s]

\* A session step, session by session: the log, the committed revision and the upload together.
LEMMA SessionEffect ==
  ASSUME CoreTypes, LogInv, RevInv, InflightInv, NEW s \in Sessions, SessionStep(s)
  PROVE  /\ Elsewhere(s)
         /\ log' \in [Sessions -> Seq(Uploads)] /\ rev' \in [Sessions -> Nat] /\ inflight' \in [Sessions -> Uploads]
         /\ Same(s) \/ (inflight[s] # NoUpload /\ Grown(s, inflight[s]))
         /\ \/ rev'[s] = rev[s] /\ inflight'[s] = inflight[s]
            \/ /\ inflight[s] # NoUpload
               /\ rev'[s] = rev[s] + 1 /\ Len(log'[s]) = rev[s] + 1 /\ log'[s][rev[s] + 1] = inflight[s]
               /\ inflight'[s] = NoUpload \/ NewUpload(inflight'[s], s, rev[s] + 2)
            \/ /\ inflight[s] = NoUpload \/ ~(rev[s] + 1 \in 1..Len(log'[s]) /\ log'[s][rev[s] + 1] = inflight[s])
               /\ rev'[s] = rev[s] /\ NewUpload(inflight'[s], s, rev[s] + 1)
<1> DEFINE u == inflight[s]
<1>1. u \in Uploads /\ u.rev \in Nat /\ rev[s] \in Nat /\ Len(log[s]) \in Nat
  BY Entries
<1>2. u # NoUpload => u.rev = rev[s] + 1
  BY DEF InflightInv
<1>3. log' = log \/ (u # NoUpload /\ Arrives(s, u))
  BY DEF SessionStep
<1>4. /\ log' \in [Sessions -> Seq(Uploads)]
      /\ \A t \in Sessions : t # s => log'[t] = log[t]
      /\ \A r \in 1..Len(log[s]) : log'[s][r] = log[s][r]
      /\ \/ log' = log
         \/ u.rev = Len(log[s]) + 1 /\ Len(log'[s]) = Len(log[s]) + 1 /\ log'[s][Len(log[s]) + 1] = u
  BY <1>1, <1>3, Arrivals
<1>5. Same(s) \/ (u # NoUpload /\ Grown(s, u))
  BY <1>1, <1>2, <1>3, <1>4 DEF Same, Grown
<1>6. rev \in [Sessions -> Nat] /\ inflight \in [Sessions -> Uploads]
  BY DEF CoreTypes
<1>7. Len(log'[s]) \in Nat /\ DOMAIN log'[s] = 1..Len(log'[s])
  BY <1>4
<1>8. Len(log[s]) <= rev[s] + 1
  BY DEF RevInv
<1>9. Len(log'[s]) <= rev[s] + 1
  BY <1>1, <1>5, <1>8 DEF Same, Grown
<1>10. u # NoUpload => (HeldIn(log'[s], u) <=> (rev[s] + 1 \in 1..Len(log'[s]) /\ log'[s][rev[s] + 1] = u))
  BY <1>2, <1>7 DEF HeldIn
<1> HIDE DEF u
<1>11. CASE UNCHANGED rev /\ UNCHANGED inflight
  BY <1>4, <1>5, <1>6, <1>11 DEF Elsewhere, u
<1>12. CASE /\ u # NoUpload /\ HeldIn(log'[s], u)
            /\ rev' = [rev EXCEPT ![s] = u.rev]
            /\ \E v \in Uploads : /\ inflight' = [inflight EXCEPT ![s] = v]
                                  /\ v = NoUpload \/ NewUpload(v, s, u.rev + 1)
  <2>1. PICK v \in Uploads : /\ inflight' = [inflight EXCEPT ![s] = v]
                             /\ v = NoUpload \/ NewUpload(v, s, u.rev + 1)
    BY <1>12
  <2>2. inflight' \in [Sessions -> Uploads] /\ inflight'[s] = v /\ \A t \in Sessions : t # s =>
          inflight'[t] = inflight[t]
    BY <1>6, <2>1
  <2>3. rev' \in [Sessions -> Nat] /\ rev'[s] = rev[s] + 1 /\ \A t \in Sessions : t # s => rev'[t] = rev[t]
    BY <1>1, <1>2, <1>6, <1>12
  <2>4. u.rev + 1 = rev[s] + 2
    BY <1>1, <1>2, <1>12
  <2>5. Len(log'[s]) = rev[s] + 1 /\ log'[s][rev[s] + 1] = u
    BY <1>1, <1>7, <1>9, <1>10, <1>12
  <2>6. v = NoUpload \/ NewUpload(v, s, rev[s] + 2)
    BY <2>1, <2>4
  <2> QED BY <1>4, <1>5, <1>12, <2>2, <2>3, <2>5, <2>6 DEF Elsewhere, u
<1>13. CASE /\ u = NoUpload \/ ~HeldIn(log'[s], u)
            /\ UNCHANGED rev
            /\ \E v \in Uploads : inflight' = [inflight EXCEPT ![s] = v] /\ NewUpload(v, s, rev[s] + 1)
  <2>1. PICK v \in Uploads : inflight' = [inflight EXCEPT ![s] = v] /\ NewUpload(v, s, rev[s] + 1)
    BY <1>13
  <2>2. inflight' \in [Sessions -> Uploads] /\ inflight'[s] = v /\ \A t \in Sessions : t # s =>
          inflight'[t] = inflight[t]
    BY <1>6, <2>1
  <2>3. u = NoUpload \/ ~(rev[s] + 1 \in 1..Len(log'[s]) /\ log'[s][rev[s] + 1] = u)
    BY <1>10, <1>13
  <2> QED BY <1>4, <1>5, <1>6, <1>13, <2>1, <2>2, <2>3 DEF Elsewhere, u
<1> QED BY <1>11, <1>12, <1>13 DEF SessionStep, u

\* A session step keeps the uploads in order.
LEMMA SessionStepKeeps ==
  ASSUME CoreTypes, CoreInv, NEW s \in Sessions, SessionStep(s)
  PROVE  CoreTypes' /\ CoreInv'
<1> DEFINE u == inflight[s]
<1>17. LogInv /\ RevInv /\ InflightInv /\ HeadInv /\ IdsInv /\ OnceInv /\ StoredInv /\ OpenInv
  BY DEF CoreInv
<1>1. /\ Elsewhere(s)
      /\ Same(s) \/ (u # NoUpload /\ Grown(s, u))
      /\ \/ rev'[s] = rev[s] /\ inflight'[s] = inflight[s]
         \/ /\ u # NoUpload
            /\ rev'[s] = rev[s] + 1 /\ Len(log'[s]) = rev[s] + 1 /\ log'[s][rev[s] + 1] = u
            /\ inflight'[s] = NoUpload \/ NewUpload(inflight'[s], s, rev[s] + 2)
         \/ /\ u = NoUpload \/ ~(rev[s] + 1 \in 1..Len(log'[s]) /\ log'[s][rev[s] + 1] = u)
            /\ rev'[s] = rev[s] /\ NewUpload(inflight'[s], s, rev[s] + 1)
  BY <1>17, SessionEffect
<1>2. UNCHANGED queue /\ UNCHANGED dead /\ UNCHANGED events
  BY DEF SessionStep
<1>3. CoreTypes'
  BY <1>17, <1>2, SessionEffect DEF CoreTypes
<1>4. /\ Len(log[s]) \in Nat /\ rev[s] \in Nat /\ u \in Uploads /\ u.rev \in Nat
      /\ u # NoUpload => u.rev = rev[s] + 1 /\ u.event = 0
      /\ rev[s] <= Len(log[s]) /\ Len(log[s]) <= rev[s] + 1
  BY <1>17, Entries DEF RevInv, InflightInv
<1>5. /\ \A r \in 1..Len(log[s]) : log'[s][r] = log[s][r]
      /\ \A r \in 1..Len(log'[s]) :
           r \in 1..Len(log[s]) \/ (u # NoUpload /\ Len(log[s]) = rev[s] /\ r = rev[s] + 1 /\ log'[s][r] = u)
      /\ Len(log'[s]) \in {Len(log[s]), rev[s] + 1} /\ Len(log[s]) <= Len(log'[s])
  BY <1>1, <1>4 DEF Same, Grown
<1>6. \A t \in Sessions : \A r \in 1..Len(log'[t]) :
         \/ r \in 1..Len(log[t]) /\ log'[t][r] = log[t][r]
         \/ t = s /\ r = rev[s] + 1 /\ Len(log[s]) = rev[s] /\ log'[t][r] = u /\ u.event = 0 /\ u.rev = r
  BY <1>1, <1>4, <1>5 DEF Elsewhere
<1>7. u # NoUpload => u.event = 0 /\ u.rev = rev[s] + 1
  BY <1>4
<1>8. \A t \in Sessions : Len(log[t]) \in Nat /\ rev[t] \in Nat /\
        (t # s => Len(log'[t]) = Len(log[t]) /\ rev'[t] = rev[t])
  BY <1>1, Entries DEF Elsewhere
<1> HIDE DEF u
<1>9. LogInv'
  BY <1>17, <1>6 DEF LogInv
<1>10. RevInv'
  <2>1. rev'[s] <= Len(log'[s]) /\ Len(log'[s]) <= rev'[s] + 1
    BY <1>1, <1>4, <1>5
  <2> QED BY <1>17, <1>8, <2>1 DEF RevInv
<1>11. InflightInv'
  <2>1. inflight'[s] # NoUpload => inflight'[s].rev = rev'[s] + 1 /\ inflight'[s].event = 0
    BY <1>1, <1>4 DEF NewUpload, u
  <2> QED BY <1>17, <1>1, <2>1 DEF InflightInv, Elsewhere
<1>12. IdsInv'
  BY <1>17, <1>2, <1>6 DEF IdsInv
<1>13. OnceInv'
  <2> SUFFICES ASSUME NEW t \in Sessions, NEW v \in Sessions, NEW r \in 1..Len(log'[t]), NEW q \in 1..Len(log'[v]),
                      log'[t][r].event # 0, log'[t][r].event = log'[v][q].event
               PROVE  t = v /\ r = q
    BY DEF OnceInv
  <2>1. r \in 1..Len(log[t]) /\ log'[t][r] = log[t][r]
    BY <1>6
  <2>2. q \in 1..Len(log[v]) /\ log'[v][q] = log[v][q]
    BY <1>6
  <2> QED BY <1>17, <2>1, <2>2 DEF OnceInv
<1>14. StoredInv'
  <2>1. \A i \in 1..Len(queue) : queue[i].id # 0
    BY QueueEntries
  <2>2. \A e \in dead : e.id # 0
    BY QueueEntries
  <2> QED BY <1>17, <1>2, <1>6, <2>1, <2>2 DEF StoredInv
<1>15. HeadInv'
  <2> SUFFICES ASSUME NEW i \in 1..Len(queue), queue[i].upload # NoUpload
               PROVE  /\ i = 1 /\ queue[i].upload.event = queue[i].id /\ Fit(queue[i].content)
                      /\ queue[i].upload.rev \in 1..(rev'[queue[i].session] + 1)
                      /\ HeldIn(log'[queue[i].session], queue[i].upload) =>
                           queue[i].upload.rev = rev'[queue[i].session] + 1
    BY <1>2 DEF HeadInv, Holds
  <2> DEFINE v == queue[i].upload
  <2> DEFINE t == queue[i].session
  <2>1. /\ i = 1 /\ v.event = queue[i].id /\ Fit(queue[i].content) /\ v.rev \in 1..(rev[t] + 1)
        /\ Holds(t, v) => v.rev = rev[t] + 1
    BY <1>17 DEF HeadInv
  <2>2. v.event # 0 /\ v.rev \in Nat /\ t \in Sessions
    BY <2>1, QueueEntries
  <2>3. rev'[t] \in {rev[t], rev[t] + 1} /\ rev[t] \in Nat
    BY <1>1, <1>8, <2>2
  <2>4. log[t] \in Seq(Uploads) /\ log'[t] \in Seq(Uploads)
    BY <1>3, <2>2 DEF CoreTypes
  <2>5. DOMAIN log[t] = 1..Len(log[t]) /\ DOMAIN log'[t] = 1..Len(log'[t])
    BY <2>4
  <2> HIDE DEF v, t
  <2>6. ASSUME HeldIn(log'[t], v) PROVE v.rev = rev'[t] + 1
    <3>1. v.rev \in 1..Len(log'[t]) /\ log'[t][v.rev] = v
      BY <2>5, <2>6 DEF HeldIn
    <3>2. v.rev \in 1..Len(log[t]) /\ log[t][v.rev] = v
      BY <1>6, <2>2, <3>1
    <3>3. v.rev = rev[t] + 1
      BY <2>1, <2>5, <3>2 DEF Holds, HeldIn
    <3>4. t = s => rev'[s] = rev[s]
      BY <1>1, <1>7, <2>2, <3>1, <3>3
    <3> QED BY <1>8, <2>2, <3>3, <3>4
  <2> QED BY <2>1, <2>3, <2>6 DEF v, t
<1>16. OpenInv'
  <2> SUFFICES ASSUME NEW t \in Sessions, Len(log'[t]) = rev'[t] + 1
               PROVE  \/ inflight'[t] = log'[t][rev'[t] + 1]
                      \/ \E i \in 1..Len(queue) : queue[i].session = t /\ queue[i].upload = log'[t][rev'[t] + 1]
    BY <1>2 DEF OpenInv
  <2>1. CASE t # s
    BY <1>17, <1>1, <2>1 DEF OpenInv, Elsewhere
  <2>2. CASE t = s
    <3>1. rev'[s] = rev[s]
      BY <1>1, <1>4, <2>2
    <3>2. CASE Same(s)
      <4>1. Len(log[s]) = rev[s] + 1 /\ log'[s][rev[s] + 1] = log[s][rev[s] + 1]
        BY <2>2, <3>1, <3>2 DEF Same
      <4>2. \/ u = log[s][rev[s] + 1]
            \/ \E i \in 1..Len(queue) : queue[i].session = s /\ queue[i].upload = log[s][rev[s] + 1]
        BY <1>17, <4>1 DEF OpenInv, u
      <4>3. rev[s] + 1 \in 1..Len(log[s])
        BY <1>4, <4>1
      <4>4. u = log[s][rev[s] + 1] => u # NoUpload
        <5>1. log[s][rev[s] + 1].rev = rev[s] + 1
          BY <1>17, <4>3 DEF LogInv
        <5> QED BY <1>4, <5>1 DEF NoUpload
      <4>5. u = log[s][rev[s] + 1] => inflight'[s] = u
        BY <1>1, <1>4, <3>1, <4>1, <4>3, <4>4, <2>2 DEF u
      <4> QED BY <2>2, <3>1, <4>1, <4>2, <4>5
    <3>3. CASE u # NoUpload /\ Grown(s, u)
      <4>1. log'[s][rev[s] + 1] = u /\ rev[s] + 1 \in 1..Len(log'[s])
        BY <1>4, <3>3 DEF Grown
      <4>2. inflight'[s] = u
        BY <1>1, <1>4, <3>1, <3>3, <4>1 DEF u
      <4> QED BY <2>2, <3>1, <4>1, <4>2
    <3> QED BY <1>1, <3>2, <3>3
  <2> QED BY <2>1, <2>2
<1> QED BY <1>3, <1>9, <1>10, <1>11, <1>12, <1>13, <1>14, <1>15, <1>16 DEF CoreInv

\* New uploads for sessions that had none keep the uploads in order.
LEMMA CoverStepKeeps ==
  ASSUME CoreTypes, CoreInv, CoverStep
  PROVE  CoreTypes' /\ CoreInv'
<1>1. UNCHANGED log /\ UNCHANGED rev /\ UNCHANGED queue /\ UNCHANGED dead /\ UNCHANGED events
  BY DEF CoverStep
<1>2. \A s \in Sessions :
        inflight'[s] = inflight[s] \/ (inflight[s] = NoUpload /\ NewUpload(inflight'[s], s, rev[s] + 1))
  BY DEF CoverStep
<1>3. CoreTypes'
  BY DEF CoverStep, CoreTypes
<1>4. LogInv' /\ RevInv' /\ IdsInv' /\ OnceInv' /\ StoredInv'
  BY <1>1 DEF CoreInv, LogInv, RevInv, IdsInv, OnceInv, StoredInv
<1>5. HeadInv'
  BY <1>1 DEF CoreInv, HeadInv, Holds
<1>6. InflightInv'
  BY <1>1, <1>2 DEF CoreInv, InflightInv, NewUpload
<1>7. OpenInv'
  <2> SUFFICES ASSUME NEW s \in Sessions, Len(log[s]) = rev[s] + 1
               PROVE  \/ inflight'[s] = log[s][rev[s] + 1]
                      \/ \E i \in 1..Len(queue) : queue[i].session = s /\ queue[i].upload = log[s][rev[s] + 1]
    BY <1>1 DEF OpenInv
  <2>1. \/ inflight[s] = log[s][rev[s] + 1]
        \/ \E i \in 1..Len(queue) : queue[i].session = s /\ queue[i].upload = log[s][rev[s] + 1]
    BY DEF CoreInv, OpenInv
  <2>2. rev[s] + 1 \in 1..Len(log[s])
    BY Entries
  <2>3. log[s][rev[s] + 1].rev = rev[s] + 1 /\ rev[s] \in Nat
    BY <2>2, Entries DEF CoreInv, LogInv
  <2>4. log[s][rev[s] + 1] # NoUpload
    BY <2>3 DEF NoUpload
  <2> QED BY <1>2, <2>1, <2>4
<1> QED BY <1>3, <1>4, <1>5, <1>6, <1>7 DEF CoreInv

\* A new Event keeps the uploads in order.
LEMMA EmitStepKeeps ==
  ASSUME CoreTypes, CoreInv, EmitStep
  PROVE  CoreTypes' /\ CoreInv'
<1>1. UNCHANGED log /\ UNCHANGED rev /\ UNCHANGED inflight /\ UNCHANGED dead /\ events > 0 /\ events' = events - 1
  BY DEF EmitStep
<1>2. PICK e \in QueuedEvents : e.id = events /\ e.upload = NoUpload /\ queue' = Append(queue, e)
  BY DEF EmitStep
<1>3. queue \in Seq(QueuedEvents) /\ events \in Nat /\ Len(queue) \in Nat
  BY DEF CoreTypes
<1>4. /\ queue' \in Seq(QueuedEvents) /\ Len(queue') = Len(queue) + 1 /\ queue'[Len(queue) + 1] = e
      /\ \A i \in 1..Len(queue) : queue'[i] = queue[i]
  BY <1>2, <1>3
<1>5. CoreTypes'
  BY <1>1, <1>3, <1>4 DEF CoreTypes
<1>6. \A i \in 1..Len(queue') : \/ i \in 1..Len(queue) /\ queue'[i] = queue[i]
                                \/ i = Len(queue) + 1 /\ queue'[i] = e
  BY <1>3, <1>4
<1>7. LogInv' /\ RevInv' /\ InflightInv' /\ OnceInv'
  BY <1>1 DEF CoreInv, LogInv, RevInv, InflightInv, OnceInv
<1>8. HeadInv'
  BY <1>1, <1>2, <1>6 DEF CoreInv, HeadInv, Holds
<1>9. /\ \A i \in 1..Len(queue) : queue[i].id \in Nat \ {0} /\ queue[i].id > events
      /\ \A d \in dead : d.id \in Nat \ {0} /\ d.id > events
      /\ \A s \in Sessions : \A r \in 1..Len(log[s]) : log[s][r].event \in Nat /\
           (log[s][r].event = 0 \/ log[s][r].event > events)
  BY QueueEntries, Entries DEF CoreInv, IdsInv
<1>10. IdsInv'
  <2>1. \A i \in 1..Len(queue') : queue'[i].id > events'
    BY <1>1, <1>2, <1>3, <1>6, <1>9
  <2>2. \A i, j \in 1..Len(queue') : queue'[i].id = queue'[j].id => i = j
    <3>1. \A i, j \in 1..Len(queue) : queue[i].id = queue[j].id => i = j
      BY DEF CoreInv, IdsInv
    <3> QED BY <1>2, <1>3, <1>6, <1>9, <3>1
  <2>3. \A d \in dead' : d.id > events' /\ \A i \in 1..Len(queue') : queue'[i].id # d.id
    <3>1. \A d \in dead : \A i \in 1..Len(queue) : queue[i].id # d.id
      BY DEF CoreInv, IdsInv
    <3> QED BY <1>1, <1>2, <1>3, <1>6, <1>9, <3>1
  <2>4. \A s \in Sessions : \A r \in 1..Len(log'[s]) : log'[s][r].event = 0 \/ log'[s][r].event > events'
    BY <1>1, <1>3, <1>9
  <2> QED BY <2>1, <2>2, <2>3, <2>4 DEF IdsInv
<1>11. StoredInv'
  <2> SUFFICES ASSUME NEW s \in Sessions, NEW r \in 1..Len(log[s])
               PROVE  /\ \A i \in 1..Len(queue') : log[s][r].event = queue'[i].id => i = 1 /\
                           queue'[i].session = s /\ queue'[i].upload = log[s][r]
                      /\ \A d \in dead : log[s][r].event # d.id
    BY <1>1 DEF StoredInv
  <2>1. /\ \A i \in 1..Len(queue) : log[s][r].event = queue[i].id => i = 1 /\ queue[i].session = s /\
             queue[i].upload = log[s][r]
        /\ \A d \in dead : log[s][r].event # d.id
    BY DEF CoreInv, StoredInv
  <2>2. log[s][r].event # e.id
    BY <1>1, <1>2, <1>3, <1>9
  <2> QED BY <1>6, <2>1, <2>2
<1>12. OpenInv'
  <2> SUFFICES ASSUME NEW s \in Sessions, Len(log[s]) = rev[s] + 1
               PROVE  \/ inflight[s] = log[s][rev[s] + 1]
                      \/ \E i \in 1..Len(queue') : queue'[i].session = s /\ queue'[i].upload = log[s][rev[s] + 1]
    BY <1>1 DEF OpenInv
  <2>1. \/ inflight[s] = log[s][rev[s] + 1]
        \/ \E i \in 1..Len(queue) : queue[i].session = s /\ queue[i].upload = log[s][rev[s] + 1]
    BY DEF CoreInv, OpenInv
  <2>2. \A i \in 1..Len(queue) : i \in 1..Len(queue')
    BY <1>3, <1>4
  <2> QED BY <1>4, <2>1, <2>2
<1> QED BY <1>5, <1>7, <1>8, <1>10, <1>11, <1>12 DEF CoreInv

\* An Event step: the log, the committed revision, the queue and the dead letters together.
LEMMA EventEffect ==
  ASSUME CoreTypes, LogInv, RevInv, HeadInv, EventStep
  PROVE  /\ First.session \in Sessions /\ First.upload \in Uploads /\ First.id \in Nat \ {0} /\
              First.upload.rev \in Nat
         /\ inflight' = inflight /\ events' = events /\ inflight[First.session] = NoUpload
         /\ \A t \in Sessions : t # First.session => log'[t] = log[t] /\ rev'[t] = rev[t]
         /\ log' \in [Sessions -> Seq(Uploads)] /\ rev' \in [Sessions -> Nat]
         /\ First.upload # NoUpload => First.upload.event = First.id /\
              First.upload.rev \in 1..(rev[First.session] + 1)
         /\ Same(First.session) \/ (First.upload # NoUpload /\ Grown(First.session, First.upload))
         /\ \/ UNCHANGED rev /\ UNCHANGED queue /\ UNCHANGED dead
            \/ /\ First.upload # NoUpload
               /\ rev'[First.session] = rev[First.session] + 1 /\ Len(log'[First.session]) = rev[First.session] + 1
               /\ queue' = Tail(queue) /\ UNCHANGED dead
            \/ /\ First.upload = NoUpload \/ ~HeldIn(log'[First.session], First.upload)
               /\ UNCHANGED rev
               /\ \/ queue' = Tail(queue) /\ dead' = dead \cup {First}
                  \/ /\ UNCHANGED dead
                     /\ \E w \in Uploads : /\ queue' = [queue EXCEPT ![1].upload = w] /\ Fit(First.content)
                                           /\ w.event = First.id /\ w.rev \in 1..(rev[First.session] + 1)
<1> DEFINE u == First.upload
<1> DEFINE s == First.session
<1>1. s \in Sessions /\ u \in Uploads /\ First.id \in Nat \ {0} /\ u.rev \in Nat /\ Len(queue) > 0
  BY Heads DEF EventStep
<1>2. rev[s] \in Nat /\ Len(log[s]) \in Nat /\ rev[s] <= Len(log[s]) /\ Len(log[s]) <= rev[s] + 1
  BY <1>1, Entries DEF RevInv
<1>3. 1 \in 1..Len(queue) /\ queue[1] = First
  BY <1>1, QueueEntries DEF First
<1>4. u # NoUpload => /\ u.event = First.id /\ u.rev \in 1..(rev[s] + 1)
                      /\ Holds(s, u) => u.rev = rev[s] + 1
  BY <1>3 DEF HeadInv
<1>5. inflight' = inflight /\ events' = events /\ inflight[s] = NoUpload
  BY DEF EventStep
<1>6. log' = log \/ (u # NoUpload /\ Arrives(s, u))
  BY DEF EventStep
<1>7. /\ log' \in [Sessions -> Seq(Uploads)]
      /\ \A t \in Sessions : t # s => log'[t] = log[t]
      /\ \A r \in 1..Len(log[s]) : log'[s][r] = log[s][r]
      /\ \/ log' = log
         \/ u.rev = Len(log[s]) + 1 /\ Len(log'[s]) = Len(log[s]) + 1 /\ log'[s][Len(log[s]) + 1] = u
  BY <1>1, <1>6, Arrivals
<1>8. Same(s) \/ (u # NoUpload /\ Grown(s, u))
  BY <1>1, <1>2, <1>4, <1>6, <1>7 DEF Same, Grown
<1>9. rev \in [Sessions -> Nat]
  BY DEF CoreTypes
<1>10. Len(log'[s]) \in Nat /\ DOMAIN log'[s] = 1..Len(log'[s])
  BY <1>1, <1>7
<1> HIDE DEF u, s
<1>11. ASSUME u # NoUpload, HeldIn(log'[s], u) PROVE u.rev = rev[s] + 1 /\ Len(log'[s]) = rev[s] + 1
  <2>1. CASE Same(s)
    <3>1. u.rev = rev[s] + 1
      BY <1>4, <1>11, <2>1 DEF Same, Holds
    <3> QED BY <1>2, <1>10, <1>11, <2>1, <3>1 DEF Same, HeldIn
  <2>2. CASE Grown(s, u)
    BY <2>2 DEF Grown
  <2> QED BY <1>8, <2>1, <2>2
<1>12. CASE UNCHANGED rev /\ UNCHANGED queue /\ UNCHANGED dead
  BY <1>1, <1>4, <1>5, <1>7, <1>8, <1>9, <1>12 DEF u, s
<1>13. CASE /\ u # NoUpload /\ HeldIn(log'[s], u)
            /\ rev' = [rev EXCEPT ![s] = u.rev]
            /\ queue' = Tail(queue) /\ UNCHANGED dead
  <2>1. rev' \in [Sessions -> Nat] /\ rev'[s] = rev[s] + 1 /\ (\A t \in Sessions : t # s => rev'[t] = rev[t])
    BY <1>1, <1>9, <1>11, <1>13
  <2>2. Len(log'[s]) = rev[s] + 1
    BY <1>11, <1>13
  <2> QED BY <1>1, <1>4, <1>5, <1>7, <1>8, <1>13, <2>1, <2>2 DEF u, s
<1>14. CASE /\ u = NoUpload \/ ~HeldIn(log'[s], u)
            /\ UNCHANGED rev
            /\ queue' = Tail(queue) /\ dead' = dead \cup {First}
  BY <1>1, <1>4, <1>5, <1>7, <1>8, <1>9, <1>14 DEF u, s
<1>15. CASE /\ u = NoUpload \/ ~HeldIn(log'[s], u)
            /\ Fit(First.content)
            /\ UNCHANGED rev /\ UNCHANGED dead
            /\ \E w \in Uploads : /\ queue' = [queue EXCEPT ![1].upload = w]
                                  /\ w.event = First.id /\ w.rev \in 1..(rev[s] + 1)
  BY <1>1, <1>4, <1>5, <1>7, <1>8, <1>9, <1>15 DEF u, s
<1> QED BY <1>12, <1>13, <1>14, <1>15 DEF EventStep, u, s

\* An Event step keeps the uploads in order.
LEMMA EventStepKeeps ==
  ASSUME CoreTypes, CoreInv, EventStep
  PROVE  CoreTypes' /\ CoreInv'
<1> DEFINE u == First.upload
<1> DEFINE s == First.session
<1>1. LogInv /\ RevInv /\ InflightInv /\ HeadInv /\ IdsInv /\ OnceInv /\ StoredInv /\ OpenInv
  BY DEF CoreInv
<1>2. /\ s \in Sessions /\ u \in Uploads /\ First.id \in Nat \ {0} /\ u.rev \in Nat
      /\ inflight' = inflight /\ events' = events /\ inflight[s] = NoUpload
      /\ \A t \in Sessions : t # s => log'[t] = log[t] /\ rev'[t] = rev[t]
      /\ log' \in [Sessions -> Seq(Uploads)] /\ rev' \in [Sessions -> Nat]
      /\ u # NoUpload => u.event = First.id /\ u.rev \in 1..(rev[s] + 1)
      /\ Same(s) \/ (u # NoUpload /\ Grown(s, u))
  BY <1>1, EventEffect
<1>3. \/ UNCHANGED rev /\ UNCHANGED queue /\ UNCHANGED dead
      \/ /\ u # NoUpload
         /\ rev'[s] = rev[s] + 1 /\ Len(log'[s]) = rev[s] + 1
         /\ queue' = Tail(queue) /\ UNCHANGED dead
      \/ /\ u = NoUpload \/ ~HeldIn(log'[s], u)
         /\ UNCHANGED rev
         /\ \/ queue' = Tail(queue) /\ dead' = dead \cup {First}
            \/ /\ UNCHANGED dead
               /\ \E w \in Uploads : /\ queue' = [queue EXCEPT ![1].upload = w] /\ Fit(First.content)
                                     /\ w.event = First.id /\ w.rev \in 1..(rev[s] + 1)
  BY <1>1, EventEffect
<1>4. rev[s] \in Nat /\ Len(log[s]) \in Nat /\ rev[s] <= Len(log[s]) /\ Len(log[s]) <= rev[s] + 1
  BY <1>1, <1>2, Entries DEF RevInv
<1>5. Len(queue) \in Nat /\ Len(queue) > 0 /\ 1 \in 1..Len(queue) /\ queue[1] = First /\ First \in QueuedEvents
  BY Heads, QueueEntries DEF EventStep, First
<1>6. \A t \in Sessions : \A r \in 1..Len(log'[t]) :
         \/ r \in 1..Len(log[t]) /\ log'[t][r] = log[t][r]
         \/ t = s /\ r = rev[s] + 1 /\ Len(log[s]) = rev[s] /\ log'[t][r] = u /\ u # NoUpload /\ u.rev = r
  BY <1>2, <1>4 DEF Same, Grown
\* What is left of the queue: the entries behind the head, and the head, the same or with a new upload.
<1> DEFINE Moved(i, d) == i + d \in 1..Len(queue) /\ queue'[i] = queue[i + d]
<1> DEFINE Replaced == /\ queue'[1].id = First.id /\ queue'[1].session = s /\ queue'[1].content = First.content
                       /\ queue'[1].upload.event = First.id /\ queue'[1].upload.rev \in 1..(rev[s] + 1)
                       /\ u = NoUpload \/ ~HeldIn(log'[s], u)
                       /\ Fit(First.content) /\ rev' = rev /\ dead' = dead
<1>8. /\ queue' \in Seq(QueuedEvents) /\ Len(queue') \in Nat
      /\ \/ \A i \in 1..Len(queue') : Moved(i, 0)
         \/ \A i \in 1..Len(queue') : Moved(i, 1)
         \/ (\A i \in 1..Len(queue') : Moved(i, 0) \/ i = 1) /\ Replaced
  <2>0. queue \in Seq(QueuedEvents)
    BY DEF CoreTypes
  <2>1. CASE queue' = queue
    BY <1>5, <2>0, <2>1
  <2>2. CASE queue' = Tail(queue)
    BY <1>5, <2>2, Heads
  <2>3. CASE /\ u = NoUpload \/ ~HeldIn(log'[s], u)
             /\ rev' = rev /\ UNCHANGED dead
             /\ \E w \in Uploads : /\ queue' = [queue EXCEPT ![1].upload = w] /\ Fit(First.content)
                                   /\ w.event = First.id /\ w.rev \in 1..(rev[s] + 1)
    <3>1. PICK w \in Uploads : /\ queue' = [queue EXCEPT ![1].upload = w] /\ Fit(First.content)
                               /\ w.event = First.id /\ w.rev \in 1..(rev[s] + 1)
      BY <2>3
    <3>2. /\ queue' \in Seq(QueuedEvents) /\ Len(queue') = Len(queue)
          /\ queue'[1].upload = w /\ queue'[1].id = First.id /\ queue'[1].session = First.session /\
               queue'[1].content = First.content
          /\ \A i \in 1..Len(queue) : i # 1 => queue'[i] = queue[i]
      BY <1>5, <3>1, Heads
    <3>3. Replaced
      BY <2>3, <3>1, <3>2
    <3> QED BY <1>5, <3>2, <3>3
  <2> QED BY <1>3, <2>1, <2>2, <2>3
<1>9. \A d \in dead' : d \in dead \/ (d = First /\ \A i \in 1..Len(queue') : Moved(i, 1) /\ i + 1 # 1)
  <2>1. CASE dead' = dead
    BY <2>1
  <2>2. CASE queue' = Tail(queue) /\ dead' = dead \cup {First}
    BY <1>5, <2>2, Heads
  <2> QED BY <1>3, <2>1, <2>2
<1>10. CoreTypes'
  <2>1. dead' \in SUBSET QueuedEvents
    BY <1>5, <1>9 DEF CoreTypes
  <2> QED BY <1>2, <1>8, <2>1 DEF CoreTypes
<1> HIDE DEF u, s, Replaced
<1>11. LogInv'
  BY <1>1, <1>6 DEF LogInv
<1>12. RevInv'
  <2>1. rev'[s] <= Len(log'[s]) /\ Len(log'[s]) <= rev'[s] + 1
    BY <1>2, <1>3, <1>4 DEF Same, Grown
  <2>2. \A t \in Sessions : t # s => rev'[t] <= Len(log'[t]) /\ Len(log'[t]) <= rev'[t] + 1
    BY <1>1, <1>2 DEF RevInv
  <2> QED BY <2>1, <2>2 DEF RevInv
<1>13. InflightInv'
  BY <1>1, <1>2 DEF InflightInv
\* Ids: what is left has the id of what it was.
<1>14. \A i \in 1..Len(queue') : \E j \in 1..Len(queue) : queue'[i].id = queue[j].id /\ j \in {i, i + 1}
  BY <1>5, <1>8 DEF Replaced
<1>15. \A i, j \in 1..Len(queue) : queue[i].id = queue[j].id => i = j
  BY <1>1 DEF IdsInv
<1>16. \A i \in 1..Len(queue') : \/ \E j \in 1..Len(queue) : j # 1 /\ queue'[i] = queue[j]
                                 \/ i = 1 /\ queue'[1].id = First.id
  BY <1>5, <1>8 DEF Replaced
<1>17. IdsInv'
  <2>1. \A i \in 1..Len(queue') : queue'[i].id > events'
    BY <1>1, <1>2, <1>14 DEF IdsInv
  <2>2. \A i, j \in 1..Len(queue') : queue'[i].id = queue'[j].id => i = j
    BY <1>5, <1>8, <1>15 DEF Replaced
  <2>3. \A d \in dead' : d.id > events' /\ \A i \in 1..Len(queue') : queue'[i].id # d.id
    <3> SUFFICES ASSUME NEW d \in dead' PROVE d.id > events' /\ \A i \in 1..Len(queue') : queue'[i].id # d.id
      OBVIOUS
    <3>1. CASE d \in dead
      BY <1>1, <1>2, <1>14, <3>1 DEF IdsInv
    <3>2. CASE d = First /\ \A i \in 1..Len(queue') : Moved(i, 1) /\ i + 1 # 1
      BY <1>1, <1>2, <1>5, <1>15, <3>2 DEF IdsInv
    <3> QED BY <1>9, <3>1, <3>2
  <2>4. \A t \in Sessions : \A r \in 1..Len(log'[t]) : log'[t][r].event = 0 \/ log'[t][r].event > events'
    <3>1. u # NoUpload => u.event > events
      BY <1>1, <1>2, <1>5 DEF IdsInv
    <3> QED BY <1>1, <1>2, <1>6, <3>1 DEF IdsInv
  <2> QED BY <2>1, <2>2, <2>3, <2>4 DEF IdsInv
\* The log holds at most one upload of the first Event, the one in its entry.
<1>18. \A t \in Sessions : \A r \in 1..Len(log[t]) : log[t][r].event = First.id => t = s /\ u = log[t][r] /\
         u # NoUpload
  <2>1. \A t \in Sessions : \A r \in 1..Len(log[t]) : log[t][r].event = First.id => t = s /\ u = log[t][r]
    BY <1>1, <1>5 DEF StoredInv, u, s
  <2>2. NoUpload.event # First.id
    BY <1>2 DEF NoUpload
  <2> QED BY <2>1, <2>2
<1>19. \A t \in Sessions : \A r \in 1..Len(log'[t]) : log'[t][r].event = First.id => t = s /\ u = log'[t][r] /\
         HeldIn(log'[s], u) /\ u # NoUpload
  <2> SUFFICES ASSUME NEW t \in Sessions, NEW r \in 1..Len(log'[t]), log'[t][r].event = First.id
               PROVE  t = s /\ u = log'[t][r] /\ HeldIn(log'[s], u) /\ u # NoUpload
    OBVIOUS
  <2>1. t = s /\ u = log'[t][r] /\ u # NoUpload
    BY <1>6, <1>18
  <2>2. u.rev = r
    BY <1>11, <2>1 DEF LogInv
  <2>3. DOMAIN log'[s] = 1..Len(log'[s])
    BY <1>2
  <2> QED BY <2>1, <2>2, <2>3 DEF HeldIn
<1>20. OnceInv'
  <2>1. ASSUME Grown(s, u), NEW t \in Sessions, NEW r \in 1..Len(log[t]), u # NoUpload
        PROVE  log[t][r].event # u.event
    <3>1. SUFFICES ASSUME log[t][r].event = u.event PROVE FALSE
      OBVIOUS
    <3>2. t = s /\ u = log[t][r]
      BY <1>2, <1>18, <2>1, <3>1
    <3>3. u.rev = r /\ u.rev = rev[s] + 1 /\ Len(log[s]) = rev[s]
      BY <1>1, <2>1, <3>2 DEF LogInv, Grown
    <3> QED BY <1>4, <3>2, <3>3
  <2>2. \A t \in Sessions : \A r \in 1..Len(log'[t]) :
         \/ r \in 1..Len(log[t]) /\ log'[t][r] = log[t][r]
         \/ t = s /\ r = rev[s] + 1 /\ Grown(s, u) /\ log'[t][r] = u /\ u # NoUpload
    BY <1>2, <1>4, <1>6 DEF Same
  <2> SUFFICES ASSUME NEW t \in Sessions, NEW v \in Sessions, NEW r \in 1..Len(log'[t]), NEW q \in 1..Len(log'[v]),
                      log'[t][r].event # 0, log'[t][r].event = log'[v][q].event
               PROVE  t = v /\ r = q
    BY DEF OnceInv
  <2>3. CASE r \in 1..Len(log[t]) /\ log'[t][r] = log[t][r] /\ q \in 1..Len(log[v]) /\ log'[v][q] = log[v][q]
    BY <1>1, <2>3 DEF OnceInv
  <2> QED BY <2>1, <2>2, <2>3
<1>21. StoredInv'
  <2> SUFFICES ASSUME NEW t \in Sessions, NEW r \in 1..Len(log'[t])
               PROVE  /\ \A i \in 1..Len(queue') : log'[t][r].event = queue'[i].id => i = 1 /\
                           queue'[i].session = t /\ queue'[i].upload = log'[t][r]
                      /\ \A d \in dead' : log'[t][r].event # d.id
    BY DEF StoredInv
  <2>1. CASE log'[t][r].event = First.id
    <3>1. t = s /\ u = log'[t][r] /\ HeldIn(log'[s], u) /\ u # NoUpload
      BY <1>19, <2>1
    <3>2. (queue' = queue \/ queue' = Tail(queue)) /\ dead' = dead
      BY <1>3, <3>1
    <3>3. \A i \in 1..Len(queue') : queue'[i].id = First.id => i = 1 /\ queue'[1] = First
      <4>1. CASE queue' = queue
        BY <1>5, <1>15, <4>1
      <4>2. CASE queue' = Tail(queue)
        <5>1. \A i \in 1..Len(queue') : queue'[i] = queue[i + 1] /\ i + 1 \in 1..Len(queue) /\ i + 1 # 1
          BY <1>5, <4>2, Heads
        <5>2. \A i \in 1..Len(queue') : queue[i + 1].id # queue[1].id
          BY <1>5, <1>15, <5>1
        <5> QED BY <1>5, <5>1, <5>2
      <4> QED BY <3>2, <4>1, <4>2
    <3>4. \A d \in dead : d.id # First.id
      BY <1>1, <1>5 DEF IdsInv
    <3> QED BY <2>1, <3>1, <3>2, <3>3, <3>4 DEF u, s
  <2>2. CASE log'[t][r].event # First.id
    <3>1. r \in 1..Len(log[t]) /\ log'[t][r] = log[t][r]
      BY <1>2, <1>6, <2>2
    <3>2. /\ \A i \in 1..Len(queue) : log[t][r].event = queue[i].id => i = 1
          /\ \A d \in dead : log[t][r].event # d.id
      BY <1>1, <3>1 DEF StoredInv
    <3>3. \A i \in 1..Len(queue) : log[t][r].event # queue[i].id
      BY <1>5, <2>2, <3>1, <3>2
    <3>4. \A i \in 1..Len(queue') : log[t][r].event # queue'[i].id
      BY <1>14, <3>3
    <3>5. \A d \in dead' : log[t][r].event # d.id
      BY <1>9, <2>2, <3>1, <3>2
    <3> QED BY <3>1, <3>4, <3>5
  <2> QED BY <2>1, <2>2
<1>22. HeadInv'
  <2> SUFFICES ASSUME NEW i \in 1..Len(queue'), queue'[i].upload # NoUpload
               PROVE  /\ i = 1 /\ queue'[i].upload.event = queue'[i].id /\ Fit(queue'[i].content)
                      /\ queue'[i].upload.rev \in 1..(rev'[queue'[i].session] + 1)
                      /\ HeldIn(log'[queue'[i].session], queue'[i].upload) =>
                           queue'[i].upload.rev = rev'[queue'[i].session] + 1
    BY DEF HeadInv, Holds
  <2>1. CASE \A j \in 1..Len(queue') : Moved(j, 1)
    BY <1>1, <2>1 DEF HeadInv
  <2>2. CASE i = 1 /\ Replaced
    <3>1. /\ queue'[i].id = First.id /\ queue'[i].session = s /\ queue'[i].content = First.content
          /\ queue'[i].upload.event = First.id /\ queue'[i].upload.rev \in 1..(rev[s] + 1)
          /\ u = NoUpload \/ ~HeldIn(log'[s], u)
          /\ Fit(First.content) /\ rev' = rev
      BY <2>2 DEF Replaced
    <3>2. ~HeldIn(log'[s], queue'[i].upload)
      <4>1. SUFFICES ASSUME HeldIn(log'[s], queue'[i].upload) PROVE FALSE
        OBVIOUS
      <4>2. queue'[i].upload.rev \in 1..Len(log'[s]) /\ log'[s][queue'[i].upload.rev] = queue'[i].upload
        BY <1>2, <4>1 DEF HeldIn
      <4>3. HeldIn(log'[s], u) /\ u # NoUpload
        BY <1>2, <1>19, <3>1, <4>2
      <4> QED BY <3>1, <4>3
    <3> QED BY <2>2, <3>1, <3>2
  <2>3. CASE (\A j \in 1..Len(queue') : Moved(j, 0) \/ j = 1) /\ queue'[1] = queue[1] /\ queue' = queue /\
               rev' = rev /\ dead' = dead
    <3>1. /\ i = 1 /\ queue'[i] = First /\ u # NoUpload /\ u.event = First.id /\ Fit(First.content) /\
               u.rev \in 1..(rev[s] + 1)
          /\ HeldIn(log[s], u) => u.rev = rev[s] + 1
      BY <1>1, <1>5, <2>3 DEF HeadInv, Holds, u, s
    <3>2. HeldIn(log'[s], u) => u.rev = rev[s] + 1
      BY <1>2, <3>1 DEF Same, Grown
    <3> QED BY <2>3, <3>1, <3>2 DEF u, s
  <2>4. CASE (\A j \in 1..Len(queue') : Moved(j, 0)) /\ ~(queue' = queue /\ rev' = rev /\ dead' = dead)
    <3>1. queue' = Tail(queue) \/ \E w \in Uploads : queue' = [queue EXCEPT ![1].upload = w]
      BY <1>3, <2>4
    <3>2. i # 1 => FALSE
      BY <1>1, <2>4 DEF HeadInv
    <3>3. queue' = Tail(queue) => FALSE
      <4>1. ASSUME queue' = Tail(queue) PROVE FALSE
        <5>1. queue'[1] = queue[2] /\ 2 \in 1..Len(queue)
          BY <1>5, <3>2, <4>1, Heads
        <5>2. queue'[1] = queue[1]
          BY <2>4, <3>2
        <5>3. queue[1].id # queue[2].id
          BY <1>5, <1>15, <5>1
        <5> QED BY <5>1, <5>2, <5>3
      <4> QED BY <4>1
    <3>4. Replaced
      <4>1. PICK w \in Uploads : /\ queue' = [queue EXCEPT ![1].upload = w] /\ Fit(First.content)
                                 /\ w.event = First.id /\ w.rev \in 1..(rev[s] + 1)
                                 /\ (u = NoUpload \/ ~HeldIn(log'[s], u)) /\ rev' = rev /\ dead' = dead
        BY <1>3, <2>4, <3>3
      <4>2. /\ queue'[1].upload = w /\ queue'[1].id = First.id /\ queue'[1].session = First.session /\
                 queue'[1].content = First.content
        BY <1>5, <4>1, Heads
      <4> QED BY <4>1, <4>2 DEF Replaced, s
    <3> QED BY <2>2, <3>2, <3>4
  <2> QED BY <1>1, <1>5, <1>8, <2>1, <2>2, <2>3, <2>4 DEF HeadInv
<1>23. OpenInv'
  <2> SUFFICES ASSUME NEW t \in Sessions, Len(log'[t]) = rev'[t] + 1
               PROVE  \/ inflight'[t] = log'[t][rev'[t] + 1]
                      \/ \E i \in 1..Len(queue') : queue'[i].session = t /\ queue'[i].upload = log'[t][rev'[t] + 1]
    BY DEF OpenInv
  <2> DEFINE e == log'[t][rev'[t] + 1]
  <2>1. rev'[t] + 1 \in 1..Len(log'[t]) /\ e.rev = rev'[t] + 1 /\ rev'[t] \in Nat /\ e # NoUpload
    <3>1. rev'[t] \in Nat /\ rev'[t] + 1 \in 1..Len(log'[t])
      BY <1>2
    <3>2. e.rev = rev'[t] + 1
      BY <1>11, <3>1 DEF LogInv
    <3> QED BY <3>1, <3>2 DEF NoUpload
  <2>2. ASSUME NEW i \in 1..Len(queue), queue[i].session = t, queue[i].upload = e
        PROVE  \E k \in 1..Len(queue') : queue'[k].session = t /\ queue'[k].upload = e
    <3>1. i = 1 /\ queue[i] = First
      BY <1>1, <1>5, <2>1, <2>2 DEF HeadInv
    <3>2. t = s /\ u = e /\ u # NoUpload
      BY <2>1, <2>2, <3>1 DEF u, s
    <3>3. HeldIn(log'[s], u) /\ Len(log'[s]) # rev'[s]
      BY <1>2, <2>1, <3>2 DEF HeldIn
    <3>4. queue' = queue
      BY <1>3, <1>4, <3>2, <3>3
    <3> QED BY <2>2, <3>4
  <2>3. CASE t # s
    <3>1. log'[t] = log[t] /\ rev'[t] = rev[t]
      BY <1>2, <2>3
    <3> QED BY <1>1, <1>2, <2>2, <3>1 DEF OpenInv
  <2>4. CASE t = s /\ Same(s)
    <3>1. rev'[s] = rev[s]
      BY <1>3, <1>4, <2>4
    <3>2. log'[s] = log[s]
      BY <2>4 DEF Same
    <3> QED BY <1>1, <1>2, <2>1, <2>2, <2>4, <3>1, <3>2 DEF OpenInv
  <2>5. CASE t = s /\ u # NoUpload /\ Grown(s, u)
    <3>1. rev'[s] = rev[s]
      BY <1>3, <1>4, <2>5
    <3>2. e = u
      BY <2>5, <3>1 DEF Grown
    <3>3. queue[1].session = t /\ queue[1].upload = e
      BY <1>5, <2>5, <3>2 DEF u, s
    <3> QED BY <1>5, <2>2, <3>3
  <2> QED BY <1>2, <2>3, <2>4, <2>5
<1> QED BY <1>10, <1>11, <1>12, <1>13, <1>17, <1>20, <1>21, <1>22, <1>23 DEF CoreInv

-----------------------------------------------------------------------------
(* What an upload's steps have in common.                                  *)

\* The types of the uploads are a part of the type invariant.
LEMMA TypesAreCore == ASSUME TypeOK PROVE CoreTypes
  BY DEF TypeOK, CoreTypes

\* A step that leaves the uploads alone keeps them in order.
LEMMA RestStepKeeps ==
  ASSUME CoreTypes, CoreInv, RestStep
  PROVE  CoreTypes' /\ CoreInv'
<1>1. UNCHANGED log /\ UNCHANGED rev /\ UNCHANGED inflight /\ UNCHANGED queue /\ UNCHANGED dead /\ UNCHANGED events
  BY DEF RestStep
<1>2. CoreTypes'
  BY <1>1 DEF CoreTypes
<1>3. LogInv' /\ RevInv' /\ InflightInv' /\ OnceInv' /\ StoredInv' /\ IdsInv'
  BY <1>1 DEF CoreInv, LogInv, RevInv, InflightInv, OnceInv, StoredInv, IdsInv
<1>4. HeadInv' /\ OpenInv'
  BY <1>1 DEF CoreInv, HeadInv, Holds, OpenInv
<1> QED BY <1>2, <1>3, <1>4 DEF CoreInv

\* The uploads stay in order.
LEMMA CoreKept ==
  ASSUME CoreTypes, CoreInv, CoreStep
  PROVE  CoreTypes' /\ CoreInv'
  BY RestStepKeeps, EmitStepKeeps, CoverStepKeeps, EventStepKeeps, SessionStepKeeps DEF CoreStep

\* The logs only grow.
LEMMA LogGrows ==
  ASSUME CoreTypes, CoreStep
  PROVE  \A s \in Sessions : /\ Len(log[s]) \in Nat /\ Len(log'[s]) \in Nat /\ Len(log[s]) <= Len(log'[s])
                             /\ \A r \in 1..Len(log[s]) : log'[s][r] = log[s][r]
<1> DEFINE Grows == \A s \in Sessions : /\ Len(log[s]) \in Nat /\ Len(log'[s]) \in Nat /\ Len(log[s]) <= Len(log'[s])
                                        /\ \A r \in 1..Len(log[s]) : log'[s][r] = log[s][r]
<1>1. ASSUME NEW s \in Sessions, NEW u \in Uploads, Arrives(s, u) \/ log' = log PROVE Grows
  BY <1>1, Arrivals, Entries DEF CoreTypes
<1>2. log' = log => Grows
  BY Entries DEF CoreTypes
<1>3. ASSUME NEW s \in Sessions, SessionStep(s) PROVE Grows
  BY <1>1, <1>3, Entries DEF SessionStep
<1>4. ASSUME EventStep PROVE Grows
  <2>1. First.session \in Sessions /\ First.upload \in Uploads
    BY <1>4, Heads DEF EventStep
  <2> QED BY <1>1, <1>4, <2>1 DEF EventStep
<1> SUFFICES Grows
  OBVIOUS
<1> HIDE DEF Grows
<1>5. CASE RestStep \/ EmitStep \/ CoverStep
  BY <1>2, <1>5 DEF RestStep, EmitStep, CoverStep
<1>6. CASE \E s \in Sessions : SessionStep(s)
  <2>1. PICK s \in Sessions : SessionStep(s)
    BY <1>6
  <2> QED BY <1>3, <2>1
<1> QED BY <1>4, <1>5, <1>6 DEF CoreStep

\* What an answer of the Relay does to the logs.
LEMMA Answers ==
  ASSUME CoreTypes, NEW s \in Sessions, NEW u \in Uploads
  PROVE  /\ Verdict(s, u) = "ok" /\ log' = Stored(s, u) => Arrives(s, u) /\ HeldIn(log'[s], u)
         /\ Unanswered(s, u) => Arrives(s, u)
         /\ \A reason : Refusal(s, u, reason) => Arrives(s, u)
<1>1. ASSUME Verdict(s, u) = "ok", log' = Stored(s, u) PROVE Arrives(s, u)
  BY <1>1 DEF Verdict, Stored, Arrives
<1>2. ASSUME Verdict(s, u) = "ok", log' = Stored(s, u) PROVE HeldIn(log'[s], u)
  <2>1. CASE Holds(s, u)
    BY <1>2, <2>1 DEF Stored, Holds
  <2>2. CASE ~Holds(s, u)
    <3>1. u.rev = Len(log[s]) + 1 /\ log' = [log EXCEPT ![s] = Append(log[s], u)]
      BY <1>2, <2>2 DEF Verdict, Stored
    <3>2. log[s] \in Seq(Uploads) /\ Len(log[s]) \in Nat
      BY DEF CoreTypes
    <3>3. log'[s] = Append(log[s], u)
      BY <3>1 DEF CoreTypes
    <3>4. Len(log'[s]) = Len(log[s]) + 1 /\ log'[s] \in Seq(Uploads) /\ log'[s][Len(log[s]) + 1] = u
      BY <3>2, <3>3
    <3>5. u.rev \in DOMAIN log'[s]
      BY <3>1, <3>2, <3>4
    <3> QED BY <3>1, <3>4, <3>5 DEF HeldIn
  <2> QED BY <2>1, <2>2
<1>3. Unanswered(s, u) => log' = log \/ (Verdict(s, u) = "ok" /\ log' = Stored(s, u))
  BY DEF Unanswered
<1>4. \A reason : Refusal(s, u, reason) => log' = log \/ (Verdict(s, u) = "ok" /\ log' = Stored(s, u))
  BY DEF Refusal
<1>5. log' = log => Arrives(s, u)
  BY DEF Arrives
<1> QED BY <1>1, <1>2, <1>3, <1>4, <1>5

\* Stages of a pass that need nothing, or little, of the state.
PassInv == StageInv /\ RefsInv

\* A pass that stops, or starts again, has nothing to know.
LEMMA Halts ==
  ASSUME TypeOK, pass' \in {Idle, Recovering}
  PROVE  pass' \in Passes /\ PassInv'
<1>1. pass' \in Passes
  BY StopTypes
<1>2. Idle.pc = "idle" /\ Recovering.pc = "snapshot"
  BY DEF Idle, Recovering
<1>4. pass'.pc \in {"idle", "snapshot"}
  BY <1>2
<1>3. StageInv'
  BY <1>4 DEF StageInv
<1> QED BY <1>1, <1>3, <1>4 DEF PassInv, RefsInv

\* A pass goes on to the Events when no session's upload is of unknown fate.
LEMMA Drains ==
  ASSUME TypeOK, pass' = Draining, \A s \in Sessions : inflight'[s] = NoUpload
  PROVE  pass' \in Passes /\ PassInv'
<1>1. pass' \in Passes
  BY StopTypes
<1>2. pass'.pc = "drain"
  BY <1>1 DEF Idle, Draining
<1>3. StageInv'
  BY <1>2 DEF StageInv
<1> QED BY <1>1, <1>2, <1>3 DEF PassInv, RefsInv

\* A pass that goes on with the same view, version and references keeps them sound.
LEMMA RefsKept ==
  ASSUME TypeOK, RefsInv, CoreStep, pass.pc \in {"prepare", "send", "manifest"},
         pass'.view = pass.view, pass'.version = pass.version, pass'.revs = pass.revs
  PROVE  RefsInv'
<1>1. CoreTypes
  BY TypesAreCore
<1>2. DOMAIN pass.view \in SUBSET Sessions
  BY UploadTypes
<1>3. \A s \in Sessions : /\ Len(log[s]) \in Nat /\ Len(log'[s]) \in Nat /\ Len(log[s]) <= Len(log'[s])
                          /\ \A r \in 1..Len(log[s]) : log'[s][r] = log[s][r]
  BY <1>1, LogGrows
<1> SUFFICES ASSUME NEW s \in Referred(pass.revs)
             PROVE  /\ s \in DOMAIN pass.view
                    /\ pass.revs[s] \in 1..Len(log'[s])
                    /\ log'[s][pass.revs[s]].recips = pass.version
                    /\ log'[s][pass.revs[s]].content = pass.view[s]
  BY DEF RefsInv
<1>4. /\ s \in DOMAIN pass.view
      /\ pass.revs[s] \in 1..Len(log[s])
      /\ log[s][pass.revs[s]].recips = pass.version
      /\ log[s][pass.revs[s]].content = pass.view[s]
  BY DEF RefsInv
<1> QED BY <1>2, <1>3, <1>4

-----------------------------------------------------------------------------
(* The stages of a pass, action by action: publication of the sessions.    *)

\* A step that moves the uploads in one of the ways above, and leaves the pass in order.
Sound == CoreStep /\ pass' \in Passes /\ PassInv'

\* A pass begins.
LEMMA BeginPassSound == ASSUME TypeOK, CoreInv, PassInv, BeginPass PROVE Sound
<1>1. pass' = [Idle EXCEPT !.pc = "snapshot", !.view = [s \in present |-> content[s]]]
  BY DEF BeginPass
<1>2. RestStep
  BY DEF BeginPass, RestStep, durable, relay, counts
<1>3. present \in SUBSET Sessions /\ [s \in present |-> content[s]] \in [present -> Contents]
  BY DEF TypeOK
<1>4. [s \in present |-> content[s]] \in Views
  BY <1>3 DEF Views
<1>5. pass' \in Passes
  BY <1>1, <1>4, Blank DEF Passes, Pcs, Idle
<1>6. pass'.pc = "snapshot"
  BY <1>1 DEF Idle
<1>7. StageInv' /\ RefsInv'
  BY <1>6 DEF StageInv, RefsInv
<1> QED BY <1>2, <1>5, <1>7 DEF Sound, CoreStep, PassInv

\* The recipient snapshot is there.
LEMMA SnapshotSound == ASSUME TypeOK, CoreInv, PassInv, Snapshot PROVE Sound
<1> DEFINE open == {s \in Sessions : inflight[s] # NoUpload}
<1>1. pass' = [pass EXCEPT !.pc = "reconcile", !.version = relayRecips, !.todo = open,
                           !.had = (open # {}), !.deferred = FALSE]
  BY DEF Snapshot
<1>2. RestStep
  BY DEF Snapshot, RestStep, durable, relay, counts
<1>3. PICK b \in BOOLEAN : b = (open # {}) /\
             pass' = [pass EXCEPT !.pc = "reconcile", !.version = relayRecips, !.todo = open,
                                 !.had = b, !.deferred = FALSE]
  BY <1>1
<1>4. open \in SUBSET Sessions /\ relayRecips \in Nat
  BY DEF TypeOK
<1> HIDE DEF open
<1>5. pass \in Passes
  BY DEF TypeOK
<1>6. pass' \in Passes
  BY <1>3, <1>4, <1>5 DEF Passes, Pcs
<1>7. pass'.pc = "reconcile" /\ pass'.todo = open /\ pass'.had = b
  BY <1>3, <1>5 DEF Passes
<1>8. inflight' = inflight
  BY <1>2 DEF RestStep
<1>9. StageInv' /\ RefsInv'
  BY <1>3, <1>7, <1>8 DEF StageInv, RefsInv, open
<1> QED BY <1>2, <1>6, <1>9 DEF Sound, CoreStep, PassInv

\* The pass goes back to idle, or begins again for the keyring's sake.
LEMMA HaltsSound == ASSUME TypeOK, RestStep, pass' \in {Idle, Recovering} PROVE Sound
  BY Halts DEF Sound, CoreStep

\* The Relay has no recipients ready.
LEMMA SnapshotNotReadySound == ASSUME TypeOK, CoreInv, PassInv, SnapshotNotReady PROVE Sound
<1>1. Return("not-ready")
  BY DEF SnapshotNotReady
<1>2. pass' = Idle
  BY <1>1, Stops DEF MayDrain
<1>3. RestStep
  BY DEF SnapshotNotReady, RestStep, durable, relay
<1> QED BY <1>2, <1>3, HaltsSound

\* The recipient snapshot is lost.
LEMMA SnapshotLostSound == ASSUME TypeOK, CoreInv, PassInv, SnapshotLost PROVE Sound
<1>1. Throw
  BY DEF SnapshotLost
<1>2. pass' \in {Idle, Recovering}
  BY <1>1, Stops
<1>3. RestStep
  BY DEF SnapshotLost, RestStep, durable, relay
<1> QED BY <1>2, <1>3, HaltsSound

\* While uploads are settled, the session in turn has one.
LEMMA ReconcileStage ==
  ASSUME TypeOK, StageInv, pass.pc = "reconcile", pass.todo # {}
  PROVE  /\ Turn \in pass.todo /\ Turn \in Sessions /\ inflight[Turn] # NoUpload /\
              inflight[Turn] \in Uploads /\ pass.had
         /\ pass \in Passes /\ inflight \in [Sessions -> Uploads] /\ rev \in [Sessions -> Nat]
<1>1. Turn \in pass.todo /\ Turn \in Sessions
  BY TurnIsNext
<1>2. pass \in Passes /\ inflight \in [Sessions -> Uploads] /\ rev \in [Sessions -> Nat]
  BY DEF TypeOK
<1> QED BY <1>1, <1>2 DEF StageInv

\* One upload of unknown fate is asked after.
LEMMA ReconcileInflightSound == ASSUME TypeOK, CoreInv, PassInv, ReconcileInflight PROVE Sound
<1> DEFINE s == Turn
<1> DEFINE u == inflight[s]
<1>1. /\ s \in pass.todo /\ s \in Sessions /\ u # NoUpload /\ u \in Uploads /\ pass.had
      /\ pass \in Passes /\ inflight \in [Sessions -> Uploads] /\ rev \in [Sessions -> Nat]
  BY ReconcileStage DEF PassInv, ReconcileInflight
<1>2. UNCHANGED queue /\ UNCHANGED dead /\ UNCHANGED events /\ log' = log /\ pass.pc = "reconcile"
  BY DEF ReconcileInflight, relay, counts
<1>3. \/ /\ Holds(s, u) /\ rev' = [rev EXCEPT ![s] = u.rev] /\ inflight' = [inflight EXCEPT ![s] = NoUpload]
         /\ pass' = [pass EXCEPT !.todo = pass.todo \ {s}]
      \/ /\ pass' = [pass EXCEPT !.todo = pass.todo \ {s}, !.deferred = (pass.deferred \/ s \notin DOMAIN pass.view)]
         /\ rev' = rev /\ inflight' = inflight
  BY DEF ReconcileInflight, Committed, Dropped
<1>4. SessionStep(s)
  BY <1>1, <1>2, <1>3, Blank DEF SessionStep, Holds
<1> HIDE DEF u, s
<1>5. CASE /\ Holds(s, u) /\ rev' = [rev EXCEPT ![s] = u.rev] /\ inflight' = [inflight EXCEPT ![s] = NoUpload]
           /\ pass' = [pass EXCEPT !.todo = pass.todo \ {s}]
  <2>1. pass' \in Passes
    BY <1>1, <1>5 DEF Passes
  <2>2. /\ pass'.pc = "reconcile" /\ pass'.had = pass.had /\ pass'.todo = pass.todo \ {s}
        /\ pass'.deferred = pass.deferred /\ pass'.view = pass.view
    BY <1>1, <1>2, <1>5 DEF Passes
  <2>3. inflight'[s] = NoUpload /\ \A t \in Sessions : t # s => inflight'[t] = inflight[t]
    BY <1>1, <1>5
  <2>4. pass.todo \subseteq Sessions
    BY <1>1 DEF Passes
  <2>5. StageInv' /\ RefsInv'
    BY <1>1, <1>2, <2>2, <2>3, <2>4 DEF StageInv, RefsInv, PassInv
  <2> QED BY <1>1, <1>4, <2>1, <2>5 DEF Sound, CoreStep, PassInv
<1>6. CASE /\ pass' = [pass EXCEPT !.todo = pass.todo \ {s}, !.deferred = (pass.deferred \/ s \notin DOMAIN pass.view)]
           /\ rev' = rev /\ inflight' = inflight
  <2>1. PICK b \in BOOLEAN : /\ b = (pass.deferred \/ s \notin DOMAIN pass.view)
                             /\ pass' = [pass EXCEPT !.todo = pass.todo \ {s}, !.deferred = b]
    BY <1>6
  <2>2. pass' \in Passes
    BY <1>1, <2>1 DEF Passes
  <2>3. /\ pass'.pc = "reconcile" /\ pass'.had = pass.had /\ pass'.todo = pass.todo \ {s}
        /\ pass'.deferred = b /\ pass'.view = pass.view
    BY <1>1, <1>2, <2>1 DEF Passes
  <2>4. StageInv' /\ RefsInv'
    BY <1>1, <1>2, <1>6, <2>1, <2>3 DEF StageInv, RefsInv, PassInv
  <2> QED BY <1>1, <1>4, <2>2, <2>4 DEF Sound, CoreStep, PassInv
<1> QED BY <1>3, <1>5, <1>6

\* The question is lost.
LEMMA ReconcileLostSound == ASSUME TypeOK, CoreInv, PassInv, ReconcileLost PROVE Sound
<1>1. pass.pc = "reconcile" /\ pass' = [pass EXCEPT !.todo = pass.todo \ {Turn}, !.deferred = TRUE]
  BY DEF ReconcileLost
<1>2. RestStep
  BY DEF ReconcileLost, RestStep, durable, relay
<1>3. pass \in Passes
  BY DEF TypeOK
<1>4. pass' \in Passes
  BY <1>1, <1>3 DEF Passes
<1>5. /\ pass'.pc = "reconcile" /\ pass'.had = pass.had /\ pass'.todo = pass.todo \ {Turn} /\ pass'.deferred
  BY <1>1, <1>3 DEF Passes
<1>6. inflight' = inflight
  BY <1>2 DEF RestStep
<1>7. StageInv' /\ RefsInv'
  BY <1>1, <1>5, <1>6 DEF StageInv, RefsInv, PassInv
<1> QED BY <1>2, <1>4, <1>7 DEF Sound, CoreStep, PassInv

\* Every upload is settled or kept: the pass stops, drains or publishes.
LEMMA AllocateSound == ASSUME TypeOK, CoreInv, PassInv, Allocate PROVE Sound
<1> DEFINE minimum == IF pass.had THEN manifest.acc + 1 ELSE 0
<1>1. pass.pc = "reconcile" /\ pass.todo = {} /\ pass \in Passes /\ manifest.acc \in Nat
  BY DEF Allocate, TypeOK
<1>2. \/ Return("fail-closed")
      \/ Return("blocked")
      \/ ~pass.deferred /\ Unchanged(pass.version, minimum) /\ Return("unchanged")
      \/ /\ ~pass.deferred
         /\ pass' = [pass EXCEPT !.pc = "prepare", !.todo = DOMAIN pass.view,
                       !.revs = NoRefs, !.retried = FALSE,
                       !.pub = [rev |-> NextManifest(minimum), recips |-> pass.version]]
  BY DEF Allocate
<1>3. RestStep
  BY DEF Allocate, RestStep, relay, counts
<1>4. inflight' = inflight
  BY <1>3 DEF RestStep
<1>5. \A s \in Sessions : inflight[s] # NoUpload => pass.had /\ (pass.deferred \/ s \in DOMAIN pass.view)
  BY <1>1 DEF PassInv, StageInv
<1>6. CASE Return("fail-closed")
  <2>1. pass' = Idle
    BY <1>6, Stops DEF MayDrain
  <2> QED BY <1>3, <2>1, HaltsSound
<1>7. CASE Return("blocked")
  <2>1. pass' = Idle \/ (pass' = Draining /\ \A s \in Sessions : inflight[s] = NoUpload)
    BY <1>7, Stops DEF MayDrain
  <2> QED BY <1>3, <1>4, <2>1, HaltsSound, Drains DEF Sound, CoreStep
<1>8. CASE ~pass.deferred /\ Unchanged(pass.version, minimum) /\ Return("unchanged")
  <2>1. ~pass.had
    BY <1>1, <1>8 DEF Unchanged
  <2>2. \A s \in Sessions : inflight[s] = NoUpload
    BY <1>5, <2>1
  <2>3. pass' = Idle \/ pass' = Draining
    BY <1>8, Stops
  <2> QED BY <1>3, <1>4, <2>2, <2>3, HaltsSound, Drains DEF Sound, CoreStep
<1>9. CASE /\ ~pass.deferred
           /\ pass' = [pass EXCEPT !.pc = "prepare", !.todo = DOMAIN pass.view,
                       !.revs = NoRefs, !.retried = FALSE,
                       !.pub = [rev |-> NextManifest(minimum), recips |-> pass.version]]
  <2>1. minimum \in Nat /\ pass.version \in Nat
    BY <1>1 DEF Passes
  <2>2. [rev |-> NextManifest(minimum), recips |-> pass.version] \in [rev : Nat, recips : Nat]
    BY <2>1, NextManifests
  <2>3. DOMAIN pass.view \in SUBSET Sessions
    BY UploadTypes
  <2>4. PICK p \in [rev : Nat, recips : Nat] : pass' = [pass EXCEPT !.pc = "prepare", !.todo = DOMAIN pass.view,
                       !.revs = NoRefs, !.retried = FALSE, !.pub = p]
    BY <1>9, <2>2
  <2> HIDE DEF minimum
  <2>5. pass' \in Passes
    BY <1>1, <2>3, <2>4, Blank DEF Passes, Pcs
  <2>6. pass'.pc = "prepare" /\ pass'.todo = DOMAIN pass.view /\ pass'.revs = NoRefs /\ pass'.view = pass.view
    BY <1>1, <2>4 DEF Passes
  <2>7. StageInv'
    BY <1>4, <1>5, <1>9, <2>6 DEF StageInv
  <2>8. RefsInv'
    BY <2>6 DEF RefsInv, Referred, NoRefs
  <2> QED BY <1>3, <2>5, <2>7, <2>8 DEF Sound, CoreStep, PassInv
<1> QED BY <1>2, <1>6, <1>7, <1>8, <1>9

\* In these stages the sessions still to be sent are in the view, and only they have uploads of unknown fate.
LEMMA PublishStage ==
  ASSUME TypeOK, CoreInv, StageInv, pass.pc \in {"prepare", "send"}, pass.todo # {}
  PROVE  /\ Turn \in pass.todo /\ Turn \in Sessions /\ Turn \in DOMAIN pass.view
         /\ inflight[Turn] \in Uploads /\ inflight[Turn].rev \in Nat /\ rev[Turn] \in Nat
         /\ inflight[Turn] # NoUpload => inflight[Turn].rev = rev[Turn] + 1 /\ inflight[Turn].event = 0
         /\ pass \in Passes /\ inflight \in [Sessions -> Uploads] /\ rev \in [Sessions -> Nat]
         /\ Source(Turn) \in Contents /\ pass.version \in Nat /\ relayRecips \in Nat /\ CoreTypes
         /\ pass.todo \subseteq DOMAIN pass.view /\ DOMAIN pass.view \in SUBSET Sessions /\
              pass.todo \subseteq Sessions
         /\ \A s \in Sessions : inflight[s] # NoUpload => s \in pass.todo
<1>1. Turn \in pass.todo /\ Turn \in Sessions
  BY TurnIsNext
<1>2. pass \in Passes /\ inflight \in [Sessions -> Uploads] /\ rev \in [Sessions -> Nat] /\ relayRecips \in Nat
  BY DEF TypeOK
<1>3. pass.todo \subseteq DOMAIN pass.view /\ \A s \in Sessions : inflight[s] # NoUpload => s \in pass.todo
  BY DEF StageInv
<1>4. inflight[Turn] \in Uploads /\ inflight[Turn].rev \in Nat /\ rev[Turn] \in Nat
  BY <1>1, <1>2 DEF Uploads
<1>5. inflight[Turn] # NoUpload => inflight[Turn].rev = rev[Turn] + 1 /\ inflight[Turn].event = 0
  BY <1>1 DEF CoreInv, InflightInv
<1>6. pass.version \in Nat /\ pass.todo \subseteq Sessions
  BY <1>2 DEF Passes
<1> QED BY <1>1, <1>2, <1>3, <1>4, <1>5, <1>6, UploadTypes, TypesAreCore

\* The next session's upload is made.
LEMMA PrepareSessionSound == ASSUME TypeOK, CoreInv, PassInv, PrepareSession PROVE Sound
<1> DEFINE s == Turn
<1> DEFINE u == inflight[s]
<1>1. /\ s \in pass.todo /\ s \in Sessions /\ s \in DOMAIN pass.view
      /\ u \in Uploads /\ u.rev \in Nat /\ rev[s] \in Nat
      /\ u # NoUpload => u.rev = rev[s] + 1 /\ u.event = 0
      /\ pass \in Passes /\ inflight \in [Sessions -> Uploads] /\ rev \in [Sessions -> Nat]
      /\ Source(s) \in Contents /\ pass.version \in Nat
      /\ pass.todo \subseteq DOMAIN pass.view /\ pass.todo \subseteq Sessions
      /\ \A t \in Sessions : inflight[t] # NoUpload => t \in pass.todo
  BY PublishStage DEF PassInv, PrepareSession
<1>2. UNCHANGED queue /\ UNCHANGED dead /\ UNCHANGED events /\ log' = log /\ pass.pc = "prepare"
  BY DEF PrepareSession, relay, counts
<1>3. pass' = [pass EXCEPT !.pc = "send"]
  BY DEF PrepareSession
<1>4. \E w : /\ inflight' = [inflight EXCEPT ![s] = w]
             /\ \/ u = NoUpload /\ rev' = rev /\ w = SessionUpload(Source(s), rev[s] + 1, pass.version)
                \/ u # NoUpload /\ Holds(s, u) /\ rev' = [rev EXCEPT ![s] = u.rev] /\
                     w = SessionUpload(Source(s), u.rev + 1, pass.version)
                \/ u # NoUpload /\ ~Holds(s, u) /\ rev' = rev /\ w = u /\ u.content = Source(s) /\
                     u.recips = pass.version
                \/ u # NoUpload /\ ~Holds(s, u) /\ rev' = rev /\ w = Reencrypted(u, Source(s), pass.version)
  BY DEF PrepareSession, Committed
<1>5. PICK w : /\ inflight' = [inflight EXCEPT ![s] = w]
               /\ \/ u = NoUpload /\ rev' = rev /\ w = SessionUpload(Source(s), rev[s] + 1, pass.version)
                  \/ u # NoUpload /\ Holds(s, u) /\ rev' = [rev EXCEPT ![s] = u.rev] /\
                       w = SessionUpload(Source(s), u.rev + 1, pass.version)
                  \/ u # NoUpload /\ ~Holds(s, u) /\ rev' = rev /\ w = u /\ u.content = Source(s) /\
                       u.recips = pass.version
                  \/ u # NoUpload /\ ~Holds(s, u) /\ rev' = rev /\ w = Reencrypted(u, Source(s), pass.version)
  BY <1>4
<1> HIDE DEF u, s
<1>6. w \in Uploads
  BY <1>1, <1>5, UploadTypes
<1>7. Reencrypted(u, Source(s), pass.version) = [u EXCEPT !.content = Source(s), !.recips = pass.version, !.enc = u.enc + 1]
  BY DEF Reencrypted
<1>8. w.content = Source(s) /\ w.recips = pass.version /\ w.event = 0 /\ w.rev \in Nat \ {0}
      /\ w.rev = IF u # NoUpload /\ Holds(s, u) THEN u.rev + 1 ELSE rev[s] + 1
  <2>1. \A r, v : LET n == SessionUpload(Source(s), r, v) IN n.content = Source(s) /\ n.recips = v /\
          n.event = 0 /\ n.rev = r
    BY DEF SessionUpload
  <2>2. LET n == Reencrypted(u, Source(s), pass.version) IN
           n.content = Source(s) /\ n.recips = pass.version /\ n.event = u.event /\ n.rev = u.rev
    BY <1>1, <1>7 DEF Uploads
  <2>3. CASE u = NoUpload
    BY <1>1, <1>5, <2>1, <2>3
  <2>4. CASE u # NoUpload
    BY <1>1, <1>5, <2>1, <2>2, <2>4
  <2> QED BY <2>3, <2>4
<1>9. SessionStep(s)
  BY <1>1, <1>2, <1>5, <1>6, <1>8 DEF SessionStep, NewUpload, Holds, u
<1>10. pass' \in Passes
  BY <1>1, <1>3 DEF Passes, Pcs
<1>11. /\ pass'.pc = "send" /\ pass'.todo = pass.todo /\ pass'.view = pass.view /\ pass'.revs = pass.revs /\
            pass'.version = pass.version
  BY <1>1, <1>3 DEF Passes
<1>12. inflight'[s] = w /\ w # NoUpload /\ \A t \in Sessions : t # s => inflight'[t] = inflight[t]
  <2>1. w # NoUpload
    BY <1>8 DEF NoUpload
  <2> QED BY <1>1, <1>5, <2>1
<1>13. Turn' = s
  BY <1>11 DEF Turn, s
<1>14. StageInv'
  <2>1. pass'.todo # {} /\ inflight'[Turn'] # NoUpload /\ inflight'[Turn'].content = pass'.view[Turn'] /\
          inflight'[Turn'].recips = pass'.version
    BY <1>1, <1>8, <1>11, <1>12, <1>13 DEF Source
  <2>2. pass'.todo \subseteq DOMAIN pass'.view /\ \A t \in Sessions : inflight'[t] # NoUpload => t \in pass'.todo
    BY <1>1, <1>11, <1>12
  <2> QED BY <1>11, <2>1, <2>2 DEF StageInv
<1>15. CoreStep
  BY <1>1, <1>9 DEF CoreStep
<1>16. RefsInv'
  BY <1>2, <1>11, <1>15, RefsKept DEF PassInv
<1> QED BY <1>10, <1>14, <1>15, <1>16 DEF Sound, PassInv

\* The question after an earlier upload is lost.
LEMMA PrepareLostSound == ASSUME TypeOK, CoreInv, PassInv, PrepareLost PROVE Sound
<1>1. Return("network")
  BY DEF PrepareLost
<1>2. pass' = Idle
  BY <1>1, Stops DEF MayDrain
<1>3. RestStep
  BY DEF PrepareLost, RestStep, durable, relay
<1> QED BY <1>2, <1>3, HaltsSound

\* While a session is sent, its upload is of the pass's copy, for the pass's recipients.
LEMMA SendStage ==
  ASSUME TypeOK, CoreInv, StageInv, pass.pc = "send"
  PROVE  /\ pass.todo # {} /\ inflight[Turn] # NoUpload
         /\ inflight[Turn].content = pass.view[Turn] /\ inflight[Turn].recips = pass.version
  BY DEF StageInv

\* The upload of the session in turn is settled: the Relay holds it.
LEMMA Settles ==
  ASSUME TypeOK, CoreInv, PassInv, pass.pc = "send", UNCHANGED queue, UNCHANGED dead, UNCHANGED events,
         Arrives(Turn, inflight[Turn]), HeldIn(log'[Turn], inflight[Turn]),
         rev' = [rev EXCEPT ![Turn] = inflight[Turn].rev], inflight' = [inflight EXCEPT ![Turn] = NoUpload],
         pass' = [pass EXCEPT !.pc = "prepare", !.todo = pass.todo \ {Turn},
                              !.revs = With(pass.revs, Turn, inflight[Turn].rev)]
  PROVE  Sound
<1> DEFINE s == Turn
<1> DEFINE u == inflight[s]
<1>1. u # NoUpload /\ u.content = pass.view[s] /\ u.recips = pass.version /\ pass.todo # {}
  BY SendStage DEF PassInv
<1>2. /\ s \in pass.todo /\ s \in Sessions /\ s \in DOMAIN pass.view
      /\ u \in Uploads /\ u.rev \in Nat /\ rev[s] \in Nat
      /\ pass \in Passes /\ inflight \in [Sessions -> Uploads] /\ rev \in [Sessions -> Nat] /\ CoreTypes
      /\ pass.todo \subseteq DOMAIN pass.view /\ pass.todo \subseteq Sessions
      /\ DOMAIN pass.view \in SUBSET Sessions
      /\ \A t \in Sessions : inflight[t] # NoUpload => t \in pass.todo
  BY <1>1, PublishStage DEF PassInv
<1> HIDE DEF u, s
<1>3. SessionStep(s)
  BY <1>1, <1>2, Blank DEF SessionStep, u, s
<1>4. CoreStep
  BY <1>2, <1>3 DEF CoreStep
<1>5. With(pass.revs, s, u.rev) \in References
  BY <1>2, WithTypes DEF Passes
<1>6. pass' = [pass EXCEPT !.pc = "prepare", !.todo = pass.todo \ {s}, !.revs = With(pass.revs, s, u.rev)]
  BY DEF u, s
<1>7. pass' \in Passes
  BY <1>2, <1>5, <1>6 DEF Passes, Pcs
<1>8. pass'.pc = "prepare" /\ pass'.todo = pass.todo \ {s} /\ pass'.revs = With(pass.revs, s, u.rev) /\
        pass'.view = pass.view /\ pass'.version = pass.version
  BY <1>2, <1>6 DEF Passes
<1>9. inflight'[s] = NoUpload /\ \A t \in Sessions : t # s => inflight'[t] = inflight[t]
  BY <1>2 DEF s
<1>10. StageInv'
  <2>1. pass'.todo \subseteq DOMAIN pass'.view /\ \A t \in Sessions : inflight'[t] # NoUpload => t \in pass'.todo
    BY <1>2, <1>8, <1>9
  <2> QED BY <1>8, <2>1 DEF StageInv
<1>11. \A t \in Sessions : With(pass.revs, s, u.rev)[t] = IF t = s THEN u.rev ELSE pass.revs[t]
  <2>1. pass.revs \in [Sessions -> Nat]
    BY <1>2 DEF Passes, References
  <2> QED BY <2>1 DEF With
<1>12. \A t \in Sessions : /\ Len(log[t]) \in Nat /\ Len(log'[t]) \in Nat /\ Len(log[t]) <= Len(log'[t])
                           /\ \A r \in 1..Len(log[t]) : log'[t][r] = log[t][r]
  BY <1>2, <1>4, LogGrows
<1>13. u.rev \in 1..Len(log'[s]) /\ log'[s][u.rev] = u
  <2>1. CoreTypes'
    BY <1>2, <1>4, CoreKept
  <2>2. DOMAIN log'[s] = 1..Len(log'[s])
    BY <1>2, <2>1 DEF CoreTypes
  <2> QED BY <2>2 DEF HeldIn, u, s
<1>14. RefsInv'
  <2> SUFFICES ASSUME NEW t \in Referred(pass'.revs)
               PROVE  /\ t \in DOMAIN pass'.view
                      /\ pass'.revs[t] \in 1..Len(log'[t])
                      /\ log'[t][pass'.revs[t]].recips = pass'.version
                      /\ log'[t][pass'.revs[t]].content = pass'.view[t]
    BY DEF RefsInv
  <2>0. t \in Sessions /\ pass'.revs[t] # 0
    BY DEF Referred
  <2>1. CASE t = s
    <3>1. pass'.revs[t] = u.rev
      BY <1>8, <1>11, <2>0, <2>1
    <3> QED BY <1>1, <1>2, <1>8, <1>13, <2>1, <3>1
  <2>2. CASE t # s
    <3>1. t \in Referred(pass.revs) /\ pass'.revs[t] = pass.revs[t]
      BY <1>8, <1>11, <2>0, <2>2 DEF Referred
    <3>2. /\ t \in DOMAIN pass.view
          /\ pass.revs[t] \in 1..Len(log[t])
          /\ log[t][pass.revs[t]].recips = pass.version
          /\ log[t][pass.revs[t]].content = pass.view[t]
      BY <3>1 DEF PassInv, RefsInv
    <3> QED BY <1>2, <1>8, <1>12, <2>0, <3>1, <3>2
  <2> QED BY <2>1, <2>2
<1> QED BY <1>4, <1>7, <1>10, <1>14 DEF Sound, PassInv

\* An upload is answered.
LEMMA SendSessionSound == ASSUME TypeOK, CoreInv, PassInv, SendSession PROVE Sound
<1> DEFINE s == Turn
<1> DEFINE u == inflight[s]
<1>1. pass.pc = "send" /\ UNCHANGED queue /\ UNCHANGED dead /\ UNCHANGED events
  BY DEF SendSession, counts
<1>2. Verdict(s, u) = "ok" /\ log' = Stored(s, u)
  BY DEF SendSession
<1>3. rev' = [rev EXCEPT ![s] = u.rev] /\ inflight' = [inflight EXCEPT ![s] = NoUpload]
  BY DEF SendSession, Committed, Dropped
<1>4. pass' = [pass EXCEPT !.pc = "prepare", !.todo = pass.todo \ {s}, !.revs = With(pass.revs, s, u.rev)]
  BY DEF SendSession
<1>5. s \in Sessions /\ u \in Uploads /\ CoreTypes
  BY <1>1, SendStage, PublishStage DEF PassInv
<1>6. Arrives(s, u) /\ HeldIn(log'[s], u)
  BY <1>2, <1>5, Answers
<1> QED BY <1>1, <1>3, <1>4, <1>6, Settles

\* The upload may have arrived; the pass is over.
LEMMA SendGivesUp ==
  ASSUME TypeOK, CoreInv, PassInv, pass.pc = "send", UNCHANGED queue, UNCHANGED dead, UNCHANGED events,
         UNCHANGED rev, UNCHANGED inflight, Arrives(Turn, inflight[Turn]), pass' = Idle
  PROVE  Sound
<1>1. pass.todo # {} /\ inflight[Turn] # NoUpload
  BY SendStage DEF PassInv
<1>2. Turn \in Sessions
  BY <1>1, TurnIsNext
<1>3. SessionStep(Turn)
  BY <1>1, <1>2 DEF SessionStep
<1> QED BY <1>2, <1>3, Halts DEF Sound, CoreStep

\* An upload is not answered.
LEMMA SendSessionLostSound == ASSUME TypeOK, CoreInv, PassInv, SendSessionLost PROVE Sound
<1>1. pass.pc = "send" /\ UNCHANGED queue /\ UNCHANGED dead /\ UNCHANGED events /\ UNCHANGED rev /\ UNCHANGED inflight
  BY DEF SendSessionLost, durable
<1>2. Unanswered(Turn, inflight[Turn])
  BY DEF SendSessionLost
<1>3. Return("network") \/ Return("recipient-set")
  BY DEF SendSessionLost
<1>4. pass' = Idle
  BY <1>3, Stops DEF MayDrain
<1>5. Turn \in Sessions /\ inflight[Turn] \in Uploads /\ CoreTypes
  BY <1>1, SendStage, PublishStage DEF PassInv
<1>6. Arrives(Turn, inflight[Turn])
  BY <1>2, <1>5, Answers
<1> QED BY <1>1, <1>4, <1>6, SendGivesUp

\* What each decision says of the upload.
LEMMA Decisions ==
  \A reason, held, a, b, again :
     LET d == DecideSession(reason, held, a, b, again) IN
     /\ d \in {"commit", "retry-next-revision"} => held
     /\ d = "refresh-reencrypt" => ~held
     /\ d \in {"commit", "retry-next-revision", "refresh-reencrypt", "defer", "fail-closed"}
  BY DEF DecideSession

\* The whole set is prepared again.
LEMMA RestartsSound ==
  ASSUME TypeOK, CoreInv, PassInv, pass.pc = "send", SessionStep(Turn), NEW b \in BOOLEAN,
         \A t \in Sessions : inflight'[t] # NoUpload => inflight[t] # NoUpload,
         pass' = [pass EXCEPT !.pc = "prepare", !.version = relayRecips, !.todo = DOMAIN pass.view, !.revs = NoRefs, !.retried = b]
  PROVE  Sound
<1>1. pass.todo # {}
  BY SendStage DEF PassInv
<1>2. /\ Turn \in Sessions /\ pass \in Passes /\ pass.todo \subseteq DOMAIN pass.view /\
           DOMAIN pass.view \in SUBSET Sessions
      /\ relayRecips \in Nat
      /\ \A t \in Sessions : inflight[t] # NoUpload => t \in pass.todo
  BY <1>1, PublishStage DEF PassInv
<1>3. pass' \in Passes
  BY <1>2, Blank DEF Passes, Pcs
<1>4. pass'.pc = "prepare" /\ pass'.todo = DOMAIN pass.view /\ pass'.view = pass.view /\ pass'.revs = NoRefs
  BY <1>2 DEF Passes
<1>5. StageInv'
  BY <1>2, <1>4 DEF StageInv
<1>6. RefsInv'
  BY <1>4 DEF RefsInv, Referred, NoRefs
<1> QED BY <1>2, <1>3, <1>5, <1>6 DEF Sound, CoreStep, PassInv

\* An upload is refused: settled, given up, or the whole set begins again.
LEMMA SessionRefusedSound == ASSUME TypeOK, CoreInv, PassInv, SessionRefused PROVE Sound
<1> DEFINE s == Turn
<1> DEFINE u == inflight[s]
<1> DEFINE held == HeldIn(log'[s], u)
<1>1. pass.pc = "send" /\ UNCHANGED queue /\ UNCHANGED dead /\ UNCHANGED events
  BY DEF SessionRefused
<1>2. PICK reason \in {"changed", "conflict"} :
         LET d == DecideSession(reason, held, pass.version, relayRecips, pass.retried) IN
         /\ Refusal(s, u, reason)
         /\ CASE d = "commit" ->
                 /\ rev' = Committed(s, u.rev) /\ inflight' = Dropped(s)
                 /\ pass' = [pass EXCEPT !.pc = "prepare", !.todo = @ \ {s},
                                         !.revs = With(@, s, u.rev)]
                 /\ UNCHANGED <<fails, offline>>
            [] d \in {"defer", "fail-closed"} ->
                 /\ Return(IF d = "defer" THEN "network" ELSE "fail-closed")
                 /\ UNCHANGED <<rev, inflight>>
            [] d = "refresh-reencrypt" ->
                 /\ inflight' = [inflight EXCEPT ![s] = Reencrypted(u, Source(s), relayRecips)]
                 /\ pass' = Again
                 /\ UNCHANGED <<rev, fails, offline>>
            [] d = "retry-next-revision" ->
                 /\ rev' = Committed(s, u.rev) /\ inflight' = Dropped(s)
                 /\ pass' = [Again EXCEPT !.retried = (relayRecips = pass.version)]
                 /\ UNCHANGED <<fails, offline>>
  BY DEF SessionRefused
<1> DEFINE d == DecideSession(reason, held, pass.version, relayRecips, pass.retried)
<1>3. /\ u # NoUpload /\ pass.todo # {}
  BY <1>1, SendStage DEF PassInv
<1>4. /\ s \in pass.todo /\ s \in Sessions
      /\ u \in Uploads /\ u.rev \in Nat /\ rev[s] \in Nat /\ u.rev = rev[s] + 1 /\ u.event = 0
      /\ pass \in Passes /\ inflight \in [Sessions -> Uploads] /\ rev \in [Sessions -> Nat] /\ CoreTypes
      /\ Source(s) \in Contents /\ relayRecips \in Nat
  BY <1>1, <1>3, PublishStage DEF PassInv
<1>5. Arrives(s, u)
  BY <1>2, <1>4, Answers
<1>6. /\ d \in {"commit", "retry-next-revision"} => held
      /\ d = "refresh-reencrypt" => ~held
  BY Decisions
<1> HIDE DEF held
<1>18. (CASE d = "commit" ->
                 /\ rev' = Committed(s, u.rev) /\ inflight' = Dropped(s)
                 /\ pass' = [pass EXCEPT !.pc = "prepare", !.todo = @ \ {s},
                                         !.revs = With(@, s, u.rev)]
                 /\ UNCHANGED <<fails, offline>>
            [] d \in {"defer", "fail-closed"} ->
                 /\ Return(IF d = "defer" THEN "network" ELSE "fail-closed")
                 /\ UNCHANGED <<rev, inflight>>
            [] d = "refresh-reencrypt" ->
                 /\ inflight' = [inflight EXCEPT ![s] = Reencrypted(u, Source(s), relayRecips)]
                 /\ pass' = Again
                 /\ UNCHANGED <<rev, fails, offline>>
            [] d = "retry-next-revision" ->
                 /\ rev' = Committed(s, u.rev) /\ inflight' = Dropped(s)
                 /\ pass' = [Again EXCEPT !.retried = (relayRecips = pass.version)]
                 /\ UNCHANGED <<fails, offline>>)
  BY <1>2
<1>19. d \in {"commit", "retry-next-revision", "refresh-reencrypt", "defer", "fail-closed"}
  BY Decisions
<1> HIDE DEF d
<1>7. \/ /\ d = "commit"
         /\ rev' = Committed(s, u.rev) /\ inflight' = Dropped(s)
         /\ pass' = [pass EXCEPT !.pc = "prepare", !.todo = @ \ {s}, !.revs = With(@, s, u.rev)]
      \/ /\ d \in {"defer", "fail-closed"}
         /\ Return(IF d = "defer" THEN "network" ELSE "fail-closed")
         /\ rev' = rev /\ inflight' = inflight
      \/ /\ d = "refresh-reencrypt"
         /\ inflight' = [inflight EXCEPT ![s] = Reencrypted(u, Source(s), relayRecips)]
         /\ pass' = Again /\ rev' = rev
      \/ /\ d = "retry-next-revision"
         /\ rev' = Committed(s, u.rev) /\ inflight' = Dropped(s)
         /\ pass' = [Again EXCEPT !.retried = (relayRecips = pass.version)]
  BY <1>18, <1>19
<1>17. CASE /\ d = "commit"
           /\ rev' = Committed(s, u.rev) /\ inflight' = Dropped(s)
           /\ pass' = [pass EXCEPT !.pc = "prepare", !.todo = @ \ {s}, !.revs = With(@, s, u.rev)]
  <2>1. /\ rev' = [rev EXCEPT ![s] = u.rev] /\ inflight' = [inflight EXCEPT ![s] = NoUpload]
        /\ pass' = [pass EXCEPT !.pc = "prepare", !.todo = pass.todo \ {s}, !.revs = With(pass.revs, s, u.rev)]
    BY <1>17 DEF Committed, Dropped
  <2> QED BY <1>1, <1>5, <1>6, <1>17, <2>1, Settles DEF held
<1>8. CASE /\ d \in {"defer", "fail-closed"}
           /\ Return(IF d = "defer" THEN "network" ELSE "fail-closed")
           /\ rev' = rev /\ inflight' = inflight
  <2>1. pass' = Idle
    BY <1>8, Stops DEF MayDrain
  <2> QED BY <1>1, <1>5, <1>8, <2>1, SendGivesUp
<1>9. CASE /\ d = "refresh-reencrypt"
           /\ inflight' = [inflight EXCEPT ![s] = Reencrypted(u, Source(s), relayRecips)]
           /\ pass' = Again /\ rev' = rev
  <2> DEFINE w == Reencrypted(u, Source(s), relayRecips)
  <2>1. w \in Uploads
    BY <1>4, UploadTypes
  <2>2. w.rev = u.rev /\ w.event = u.event
    BY <1>4 DEF Uploads, Reencrypted
  <2> HIDE DEF w
  <2>3. SessionStep(s)
    BY <1>1, <1>3, <1>4, <1>5, <1>6, <1>9, <2>1, <2>2 DEF SessionStep, NewUpload, held, w
  <2>4. \A t \in Sessions : inflight'[t] # NoUpload => inflight[t] # NoUpload
    BY <1>3, <1>4, <1>9
  <2>5. pass' = [pass EXCEPT !.pc = "prepare", !.version = relayRecips, !.todo = DOMAIN pass.view, !.revs = NoRefs, !.retried = pass.retried]
    BY <1>4, <1>9 DEF Again, Passes
  <2>6. pass.retried \in BOOLEAN
    BY <1>4 DEF Passes
  <2> QED BY <1>1, <2>3, <2>4, <2>5, <2>6, RestartsSound
<1>10. CASE /\ d = "retry-next-revision"
            /\ rev' = Committed(s, u.rev) /\ inflight' = Dropped(s)
            /\ pass' = [Again EXCEPT !.retried = (relayRecips = pass.version)]
  <2>1. rev' = [rev EXCEPT ![s] = u.rev] /\ inflight' = [inflight EXCEPT ![s] = NoUpload]
    BY <1>10 DEF Committed, Dropped
  <2>2. SessionStep(s)
    BY <1>1, <1>3, <1>4, <1>5, <1>6, <1>10, <2>1, Blank DEF SessionStep, held
  <2>3. \A t \in Sessions : inflight'[t] # NoUpload => inflight[t] # NoUpload
    BY <1>4, <2>1
  <2>4. PICK b \in BOOLEAN : b = (relayRecips = pass.version)
    OBVIOUS
  <2>5. pass' = [pass EXCEPT !.pc = "prepare", !.version = relayRecips, !.todo = DOMAIN pass.view, !.revs = NoRefs, !.retried = b]
    BY <1>4, <1>10, <2>4 DEF Again, Passes
  <2> QED BY <1>1, <2>2, <2>3, <2>5, RestartsSound
<1> QED BY <1>7, <1>8, <1>9, <1>10, <1>17

\* Every session is uploaded.
LEMMA SessionsUploadedSound == ASSUME TypeOK, CoreInv, PassInv, SessionsUploaded PROVE Sound
<1>1. pass.pc = "prepare" /\ pass.todo = {} /\ pass \in Passes
  BY DEF SessionsUploaded, TypeOK
<1>2. RestStep
  BY DEF SessionsUploaded, RestStep, relay, counts
<1>3. \/ pass' = [pass EXCEPT !.pc = "manifest", !.pub = [rev |-> NextManifest(0), recips |-> pass.version]]
      \/ pass.pub.recips = pass.version /\ pass' = [pass EXCEPT !.pc = "manifest", !.pub = pass.pub]
  BY DEF SessionsUploaded
<1>4. pass.version \in Nat /\ pass.pub \in [rev : Nat, recips : Nat]
  BY <1>1 DEF Passes
<1>5. [rev |-> NextManifest(0), recips |-> pass.version] \in [rev : Nat, recips : Nat]
  BY <1>4, NextManifests
<1>6. PICK p \in [rev : Nat, recips : Nat] : p.recips = pass.version /\
             pass' = [pass EXCEPT !.pc = "manifest", !.pub = p]
  BY <1>3, <1>4, <1>5
<1>7. pass' \in Passes
  BY <1>1, <1>6 DEF Passes, Pcs
<1>8. /\ pass'.pc = "manifest" /\ pass'.todo = {} /\ pass'.pub.recips = pass.version
      /\ pass'.view = pass.view /\ pass'.revs = pass.revs /\ pass'.version = pass.version
  BY <1>1, <1>6 DEF Passes
<1>9. \A s \in Sessions : inflight'[s] = NoUpload
  BY <1>1, <1>2 DEF PassInv, StageInv, RestStep
<1>10. StageInv'
  BY <1>8, <1>9 DEF StageInv
<1>11. CoreStep
  BY <1>2 DEF CoreStep
<1>12. RefsInv'
  BY <1>1, <1>8, <1>11, RefsKept DEF PassInv
<1> QED BY <1>7, <1>10, <1>11, <1>12 DEF Sound, PassInv

\* The manifest is answered.
LEMMA SendManifestSound == ASSUME TypeOK, CoreInv, PassInv, SendManifest PROVE Sound
<1>1. pass.pc = "manifest" /\ Return("published")
  BY DEF SendManifest
<1>2. pass' = Idle \/ pass' = Draining
  BY <1>1, Stops
<1>3. RestStep
  BY DEF SendManifest, RestStep, counts
<1>4. \A s \in Sessions : inflight'[s] = NoUpload
  BY <1>1, <1>3 DEF PassInv, StageInv, RestStep
<1> QED BY <1>2, <1>3, <1>4, HaltsSound, Drains DEF Sound, CoreStep

\* The manifest is not answered.
LEMMA ManifestLostSound == ASSUME TypeOK, CoreInv, PassInv, ManifestLost PROVE Sound
<1>1. Throw
  BY DEF ManifestLost
<1>2. pass' \in {Idle, Recovering}
  BY <1>1, Stops
<1>3. RestStep
  BY DEF ManifestLost, RestStep, durable
<1> QED BY <1>2, <1>3, HaltsSound

\* The manifest is refused.
LEMMA ManifestRefusedSound == ASSUME TypeOK, CoreInv, PassInv, ManifestRefused PROVE Sound
<1>1. \/ Fault
      \/ pass' = [Idle EXCEPT !.pc = "snapshot", !.view = pass.view, !.attempt = pass.attempt + 1, !.recovering = pass.recovering]
  BY DEF ManifestRefused
<1>2. RestStep
  BY DEF ManifestRefused, RestStep, relay, counts
<1>3. CASE Fault
  BY <1>2, <1>3, Stops, HaltsSound
<1>4. CASE pass' = [Idle EXCEPT !.pc = "snapshot", !.view = pass.view, !.attempt = pass.attempt + 1, !.recovering = pass.recovering]
  <2>1. pass.view \in Views /\ pass.attempt + 1 \in Nat /\ pass.recovering \in BOOLEAN
    BY DEF TypeOK, Passes
  <2>2. pass' \in Passes
    BY <1>4, <2>1, Blank DEF Idle, Passes, Pcs
  <2>3. pass'.pc = "snapshot"
    BY <1>4 DEF Idle
  <2>4. StageInv' /\ RefsInv'
    BY <2>3 DEF StageInv, RefsInv
  <2> QED BY <1>2, <2>2, <2>4 DEF Sound, CoreStep, PassInv
<1> QED BY <1>1, <1>3, <1>4

-----------------------------------------------------------------------------
(* The Events.                                                             *)

\* The Events may drain; sessions that need new recipients are covered first.
LEMMA BeginDrainSound == ASSUME TypeOK, CoreInv, PassInv, BeginDrain PROVE Sound
<1> DEFINE covered == [s \in Sessions |-> IF s \in Uncovered
                                          THEN SessionUpload(content[s], rev[s] + 1, relayRecips)
                                          ELSE inflight[s]]
<1> DEFINE first == [Idle EXCEPT !.pc = "event", !.version = relayRecips, !.left = Len(queue)]
<1>1. pass.pc = "drain" /\ \A s \in Sessions : inflight[s] = NoUpload
  BY DEF BeginDrain, PassInv, StageInv
<1>2. \/ pass' = first /\ inflight' = inflight
      \/ inflight' = covered /\ End
      \/ /\ inflight' = covered
         /\ pass' = [first EXCEPT !.pc = "cover", !.todo = {s \in Sessions : covered[s] # NoUpload}]
  BY DEF BeginDrain
<1>3. UNCHANGED log /\ UNCHANGED rev /\ UNCHANGED queue /\ UNCHANGED dead /\ UNCHANGED events
  BY DEF BeginDrain, relay, counts
<1>4. /\ inflight \in [Sessions -> Uploads] /\ rev \in [Sessions -> Nat] /\ content \in [Sessions -> Contents]
      /\ relayRecips \in Nat /\ Len(queue) \in Nat
  BY DEF TypeOK
<1>5. ASSUME inflight' = covered PROVE CoverStep
  <2>1. \A s \in Sessions : SessionUpload(content[s], rev[s] + 1, relayRecips) \in Uploads
    BY <1>4, UploadTypes
  <2>2. \A s \in Sessions :
          covered[s] = inflight[s] \/ covered[s] = SessionUpload(content[s], rev[s] + 1, relayRecips)
    OBVIOUS
  <2>3. \A c, r, v : SessionUpload(c, r, v).rev = r /\ SessionUpload(c, r, v).event = 0
    BY DEF SessionUpload
  <2>4. covered \in [Sessions -> Uploads]
    BY <1>4, <2>1, <2>2
  <2> HIDE DEF covered
  <2> QED BY <1>1, <1>3, <1>5, <2>1, <2>2, <2>3, <2>4 DEF CoverStep, NewUpload
<1>6. first \in Passes
  BY <1>4, Blank DEF Idle, Passes, Pcs
<1>7. first.pc = "event" /\ first.left = Len(queue)
  BY DEF Idle
<1>8. CASE pass' = first /\ inflight' = inflight
  <2>1. StageInv' /\ RefsInv'
    BY <1>1, <1>3, <1>4, <1>7, <1>8 DEF StageInv, RefsInv
  <2>2. RestStep
    BY <1>3, <1>8 DEF RestStep
  <2> QED BY <1>6, <1>8, <2>1, <2>2 DEF Sound, CoreStep, PassInv
<1>9. CASE inflight' = covered /\ End
  BY <1>5, <1>9, Stops, Halts DEF Sound, CoreStep
<1> HIDE DEF first, covered
<1>10. CASE /\ inflight' = covered
            /\ pass' = [first EXCEPT !.pc = "cover", !.todo = {s \in Sessions : covered[s] # NoUpload}]
  <2>1. pass' \in Passes
    BY <1>6, <1>10 DEF Passes, Pcs
  <2>2. pass'.pc = "cover" /\ pass'.todo = {s \in Sessions : covered[s] # NoUpload}
    BY <1>6, <1>10 DEF Passes
  <2>3. StageInv' /\ RefsInv'
    BY <1>10, <2>2 DEF StageInv, RefsInv
  <2> QED BY <1>5, <1>10, <2>1, <2>3 DEF Sound, CoreStep, PassInv
<1> QED BY <1>2, <1>8, <1>9, <1>10

\* The recipients are not to be had.
LEMMA DrainLostSound == ASSUME TypeOK, CoreInv, PassInv, DrainLost PROVE Sound
<1>1. pass' = Idle
  BY DEF DrainLost, End
<1>2. RestStep
  BY DEF DrainLost, RestStep, durable, relay
<1> QED BY <1>1, <1>2, HaltsSound

\* While sessions are covered, those with an upload are the ones still to be sent.
LEMMA CoverStage ==
  ASSUME TypeOK, CoreInv, StageInv, pass.pc = "cover", pass.todo # {}
  PROVE  /\ Turn \in pass.todo /\ Turn \in Sessions /\ inflight[Turn] # NoUpload
         /\ inflight[Turn] \in Uploads /\ inflight[Turn].rev \in Nat /\ rev[Turn] \in Nat
         /\ inflight[Turn].rev = rev[Turn] + 1 /\ inflight[Turn].event = 0
         /\ pass \in Passes /\ inflight \in [Sessions -> Uploads] /\ rev \in [Sessions -> Nat]
         /\ content[Turn] \in Contents /\ relayRecips \in Nat /\ CoreTypes
         /\ \A s \in Sessions : inflight[s] # NoUpload <=> s \in pass.todo
<1>1. Turn \in pass.todo /\ Turn \in Sessions
  BY TurnIsNext
<1>2. pass \in Passes /\ inflight \in [Sessions -> Uploads] /\ rev \in [Sessions -> Nat] /\ relayRecips \in Nat
      /\ content \in [Sessions -> Contents]
  BY DEF TypeOK
<1>3. \A s \in Sessions : inflight[s] # NoUpload <=> s \in pass.todo
  BY DEF StageInv
<1>4. inflight[Turn] \in Uploads /\ inflight[Turn].rev \in Nat /\ rev[Turn] \in Nat
  BY <1>1, <1>2 DEF Uploads
<1>5. inflight[Turn].rev = rev[Turn] + 1 /\ inflight[Turn].event = 0
  BY <1>1, <1>3 DEF CoreInv, InflightInv
<1> QED BY <1>1, <1>2, <1>3, <1>4, <1>5, TypesAreCore

\* The upload of the session in turn is settled: the Relay holds it.
LEMMA CoverSettles ==
  ASSUME TypeOK, CoreInv, PassInv, pass.pc = "cover", pass.todo # {}, UNCHANGED queue, UNCHANGED dead,
           UNCHANGED events,
         Arrives(Turn, inflight[Turn]), HeldIn(log'[Turn], inflight[Turn]),
         rev' = [rev EXCEPT ![Turn] = inflight[Turn].rev], inflight' = [inflight EXCEPT ![Turn] = NoUpload],
         pass' = [pass EXCEPT !.todo = pass.todo \ {Turn}, !.retried = FALSE]
  PROVE  Sound
<1> DEFINE s == Turn
<1> DEFINE u == inflight[s]
<1>1. /\ s \in pass.todo /\ s \in Sessions /\ u # NoUpload /\ u \in Uploads
      /\ pass \in Passes /\ inflight \in [Sessions -> Uploads]
      /\ \A t \in Sessions : inflight[t] # NoUpload <=> t \in pass.todo
  BY CoverStage DEF PassInv
<1> HIDE DEF u, s
<1>2. SessionStep(s)
  BY <1>1, Blank DEF SessionStep, u, s
<1>3. pass' = [pass EXCEPT !.todo = pass.todo \ {s}, !.retried = FALSE]
  BY DEF s
<1>4. pass' \in Passes
  BY <1>1, <1>3 DEF Passes
<1>5. pass'.pc = "cover" /\ pass'.todo = pass.todo \ {s}
  BY <1>1, <1>3 DEF Passes
<1>6. inflight'[s] = NoUpload /\ \A t \in Sessions : t # s => inflight'[t] = inflight[t]
  BY <1>1 DEF s
<1>7. \A t \in Sessions : inflight'[t] # NoUpload <=> t \in pass'.todo
  BY <1>1, <1>5, <1>6
<1>8. StageInv' /\ RefsInv'
  BY <1>5, <1>7 DEF StageInv, RefsInv
<1> QED BY <1>1, <1>2, <1>4, <1>8 DEF Sound, CoreStep, PassInv

\* A covering upload is answered.
LEMMA CoverSessionSound == ASSUME TypeOK, CoreInv, PassInv, CoverSession PROVE Sound
<1> DEFINE s == Turn
<1> DEFINE u == inflight[s]
<1>1. pass.pc = "cover" /\ pass.todo # {} /\ UNCHANGED queue /\ UNCHANGED dead /\ UNCHANGED events
  BY DEF CoverSession, counts
<1>2. Verdict(s, u) = "ok" /\ log' = Stored(s, u)
  BY DEF CoverSession
<1>3. rev' = [rev EXCEPT ![s] = u.rev] /\ inflight' = [inflight EXCEPT ![s] = NoUpload]
  BY DEF CoverSession, Committed, Dropped
<1>4. pass' = [pass EXCEPT !.todo = pass.todo \ {s}, !.retried = FALSE]
  BY DEF CoverSession
<1>5. s \in Sessions /\ u \in Uploads /\ CoreTypes
  BY <1>1, CoverStage DEF PassInv
<1>6. Arrives(s, u) /\ HeldIn(log'[s], u)
  BY <1>2, <1>5, Answers
<1> QED BY <1>1, <1>3, <1>4, <1>6, CoverSettles

\* A covering upload may have arrived; the pass is over.
LEMMA CoverGivesUp ==
  ASSUME TypeOK, CoreInv, PassInv, pass.pc = "cover", pass.todo # {}, UNCHANGED queue, UNCHANGED dead,
           UNCHANGED events,
         UNCHANGED rev, UNCHANGED inflight, Arrives(Turn, inflight[Turn]), pass' = Idle
  PROVE  Sound
<1>1. Turn \in Sessions /\ inflight[Turn] # NoUpload
  BY CoverStage DEF PassInv
<1>2. SessionStep(Turn)
  BY <1>1 DEF SessionStep
<1> QED BY <1>1, <1>2, Halts DEF Sound, CoreStep

\* A covering upload is not answered.
LEMMA CoverLostSound == ASSUME TypeOK, CoreInv, PassInv, CoverLost PROVE Sound
<1>1. pass.pc = "cover" /\ pass.todo # {} /\ UNCHANGED queue /\ UNCHANGED dead /\ UNCHANGED events /\
        UNCHANGED rev /\ UNCHANGED inflight
  BY DEF CoverLost, durable
<1>2. Unanswered(Turn, inflight[Turn]) /\ pass' = Idle
  BY DEF CoverLost, End
<1>3. Turn \in Sessions /\ inflight[Turn] \in Uploads /\ CoreTypes
  BY <1>1, CoverStage DEF PassInv
<1>4. Arrives(Turn, inflight[Turn])
  BY <1>2, <1>3, Answers
<1> QED BY <1>1, <1>2, <1>4, CoverGivesUp

\* A covering upload is refused.
LEMMA CoverRefusedSound == ASSUME TypeOK, CoreInv, PassInv, CoverRefused PROVE Sound
<1> DEFINE s == Turn
<1> DEFINE u == inflight[s]
<1> DEFINE held == HeldIn(log'[s], u)
<1> DEFINE next == IF held THEN SessionUpload(content[s], u.rev + 1, relayRecips)
                           ELSE Reencrypted(u, content[s], relayRecips)
<1>1. pass.pc = "cover" /\ pass.todo # {} /\ UNCHANGED queue /\ UNCHANGED dead /\ UNCHANGED events
  BY DEF CoverRefused
<1>2. PICK reason \in {"changed", "conflict"} :
         LET d == DecideSession(reason, held, u.recips, relayRecips, pass.retried) IN
         /\ Refusal(s, u, reason)
         /\ CASE d = "commit" ->
                 /\ rev' = Committed(s, u.rev) /\ inflight' = Dropped(s)
                 /\ pass' = [pass EXCEPT !.todo = @ \ {s}, !.retried = FALSE]
                 /\ UNCHANGED <<fails, offline>>
            [] \/ d \in {"defer", "fail-closed"}
               \/ s \notin present
               \/ d \in {"refresh-reencrypt", "retry-next-revision"} /\ ~Fit(content[s]) ->
                 End /\ UNCHANGED <<rev, inflight>>
            [] OTHER ->
                 /\ rev' = IF held THEN Committed(s, u.rev) ELSE rev
                 /\ inflight' = [inflight EXCEPT ![s] = next]
                 /\ pass' = [pass EXCEPT !.retried = IF held THEN relayRecips = u.recips ELSE @,
                                         !.pub.recips = relayRecips]
                 /\ UNCHANGED <<fails, offline>>
  BY DEF CoverRefused
<1> DEFINE d == DecideSession(reason, held, u.recips, relayRecips, pass.retried)
<1>3. d = "commit" => held
  BY Decisions
<1>4. \/ /\ d = "commit"
         /\ rev' = Committed(s, u.rev) /\ inflight' = Dropped(s)
         /\ pass' = [pass EXCEPT !.todo = @ \ {s}, !.retried = FALSE]
      \/ End /\ rev' = rev /\ inflight' = inflight
      \/ /\ rev' = IF held THEN Committed(s, u.rev) ELSE rev
         /\ inflight' = [inflight EXCEPT ![s] = next]
         /\ pass' = [pass EXCEPT !.retried = IF held THEN relayRecips = u.recips ELSE @,
                                 !.pub.recips = relayRecips]
  <2>1. (CASE d = "commit" ->
                 /\ rev' = Committed(s, u.rev) /\ inflight' = Dropped(s)
                 /\ pass' = [pass EXCEPT !.todo = @ \ {s}, !.retried = FALSE]
                 /\ UNCHANGED <<fails, offline>>
            [] \/ d \in {"defer", "fail-closed"}
               \/ s \notin present
               \/ d \in {"refresh-reencrypt", "retry-next-revision"} /\ ~Fit(content[s]) ->
                 End /\ UNCHANGED <<rev, inflight>>
            [] OTHER ->
                 /\ rev' = IF held THEN Committed(s, u.rev) ELSE rev
                 /\ inflight' = [inflight EXCEPT ![s] = next]
                 /\ pass' = [pass EXCEPT !.retried = IF held THEN relayRecips = u.recips ELSE @,
                                         !.pub.recips = relayRecips]
                 /\ UNCHANGED <<fails, offline>>)
    BY <1>2
  <2> HIDE DEF d
  <2> QED BY <2>1
<1>5. /\ s \in pass.todo /\ s \in Sessions /\ u # NoUpload
      /\ u \in Uploads /\ u.rev \in Nat /\ rev[s] \in Nat
      /\ u.rev = rev[s] + 1 /\ u.event = 0
      /\ pass \in Passes /\ inflight \in [Sessions -> Uploads] /\ rev \in [Sessions -> Nat]
      /\ content[s] \in Contents /\ relayRecips \in Nat /\ CoreTypes
      /\ \A t \in Sessions : inflight[t] # NoUpload <=> t \in pass.todo
  BY <1>1, CoverStage DEF PassInv
<1>6. Arrives(s, u)
  BY <1>2, <1>5, Answers
<1>7. SessionUpload(content[s], u.rev + 1, relayRecips) \in Uploads /\
        Reencrypted(u, content[s], relayRecips) \in Uploads
  BY <1>5, UploadTypes
<1>8. Reencrypted(u, content[s], relayRecips).rev = u.rev /\ Reencrypted(u, content[s], relayRecips).event = 0
  BY <1>5 DEF Uploads, Reencrypted
<1>9. SessionUpload(content[s], u.rev + 1, relayRecips).rev = u.rev + 1 /\
        SessionUpload(content[s], u.rev + 1, relayRecips).event = 0
  BY DEF SessionUpload
<1>10. next \in Uploads /\ next.event = 0 /\ next.rev = IF held THEN u.rev + 1 ELSE u.rev
  BY <1>7, <1>8, <1>9
<1> HIDE DEF d, held, next
<1>11. CASE /\ d = "commit"
            /\ rev' = Committed(s, u.rev) /\ inflight' = Dropped(s)
            /\ pass' = [pass EXCEPT !.todo = @ \ {s}, !.retried = FALSE]
  <2>1. /\ rev' = [rev EXCEPT ![s] = u.rev] /\ inflight' = [inflight EXCEPT ![s] = NoUpload]
        /\ pass' = [pass EXCEPT !.todo = pass.todo \ {s}, !.retried = FALSE]
    BY <1>11 DEF Committed, Dropped
  <2> QED BY <1>1, <1>3, <1>6, <1>11, <2>1, CoverSettles DEF held
<1>12. CASE End /\ rev' = rev /\ inflight' = inflight
  BY <1>1, <1>6, <1>12, Stops, CoverGivesUp
<1>13. CASE /\ rev' = IF held THEN Committed(s, u.rev) ELSE rev
            /\ inflight' = [inflight EXCEPT ![s] = next]
            /\ pass' = [pass EXCEPT !.retried = IF held THEN relayRecips = u.recips ELSE @,
                                    !.pub.recips = relayRecips]
  <2>1. SessionStep(s)
    <3>1. CASE held
      BY <1>1, <1>5, <1>6, <1>10, <1>13, <3>1 DEF SessionStep, NewUpload, Committed, held
    <3>2. CASE ~held
      BY <1>1, <1>5, <1>6, <1>10, <1>13, <3>2 DEF SessionStep, NewUpload, held
    <3> QED BY <3>1, <3>2
  <2>2. inflight'[s] = next /\ \A t \in Sessions : t # s => inflight'[t] = inflight[t]
    BY <1>5, <1>13
  <2>3. next # NoUpload
    BY <1>5, <1>10 DEF NoUpload
  <2>4. pass.retried \in BOOLEAN /\ pass.pub \in [rev : Nat, recips : Nat]
    BY <1>5 DEF Passes
  <2>5. PICK b \in BOOLEAN : pass' = [pass EXCEPT !.retried = b, !.pub.recips = relayRecips]
    BY <1>13, <2>4
  <2>6. PICK p \in [rev : Nat, recips : Nat] : pass' = [pass EXCEPT !.retried = b, !.pub = p]
    <3>1. [pass.pub EXCEPT !.recips = relayRecips] \in [rev : Nat, recips : Nat]
      BY <1>5, <2>4
    <3>2. pass' = [pass EXCEPT !.retried = b, !.pub = [pass.pub EXCEPT !.recips = relayRecips]]
      BY <1>5, <2>5 DEF Passes
    <3> QED BY <3>1, <3>2
  <2>7. pass' \in Passes
    BY <1>5, <2>6 DEF Passes
  <2>8. pass'.pc = "cover" /\ pass'.todo = pass.todo
    BY <1>1, <1>5, <2>6 DEF Passes
  <2>9. \A t \in Sessions : inflight'[t] # NoUpload <=> t \in pass'.todo
    BY <1>5, <2>2, <2>3, <2>8
  <2>10. StageInv' /\ RefsInv'
    BY <2>8, <2>9 DEF StageInv, RefsInv
  <2> QED BY <1>5, <2>1, <2>7, <2>10 DEF Sound, CoreStep, PassInv
<1> QED BY <1>4, <1>11, <1>12, <1>13

\* All sessions are covered.
LEMMA CoveredSound == ASSUME TypeOK, CoreInv, PassInv, Covered PROVE Sound
<1>1. pass.pc = "cover" /\ pass.todo = {} /\ pass \in Passes /\ Len(queue) \in Nat
  BY DEF Covered, TypeOK
<1>2. RestStep
  BY DEF Covered, RestStep, relay, counts
<1>3. pass' = [pass EXCEPT !.pc = "event", !.pub.recips = 0, !.retried = FALSE, !.left = Len(queue)]
  BY DEF Covered
<1>4. PICK p \in [rev : Nat, recips : Nat] :
             pass' = [pass EXCEPT !.pc = "event", !.pub = p, !.retried = FALSE, !.left = Len(queue)]
  <2>1. pass.pub \in [rev : Nat, recips : Nat]
    BY <1>1 DEF Passes
  <2>2. [pass.pub EXCEPT !.recips = 0] \in [rev : Nat, recips : Nat]
    BY <2>1
  <2>3. pass' = [pass EXCEPT !.pc = "event", !.pub = [pass.pub EXCEPT !.recips = 0], !.retried = FALSE, !.left = Len(queue)]
    BY <1>1, <1>3 DEF Passes
  <2> QED BY <2>2, <2>3
<1>5. pass' \in Passes
  BY <1>1, <1>4 DEF Passes, Pcs
<1>6. pass'.pc = "event" /\ pass'.left = Len(queue)
  BY <1>1, <1>4 DEF Passes
<1>7. \A s \in Sessions : inflight'[s] = NoUpload
  BY <1>1, <1>2 DEF PassInv, StageInv, RestStep
<1>8. Len(queue') = Len(queue)
  BY <1>2 DEF RestStep
<1>9. StageInv' /\ RefsInv'
  BY <1>1, <1>6, <1>7, <1>8 DEF StageInv, RefsInv
<1> QED BY <1>2, <1>5, <1>9 DEF Sound, CoreStep, PassInv

\* In these stages no session's upload is of unknown fate, and the first Event is there.
LEMMA DrainStage ==
  ASSUME TypeOK, CoreInv, StageInv, pass.pc \in {"event", "sendEvent"}, pass.left > 0
  PROVE  /\ Len(queue) > 0 /\ Len(queue) \in Nat /\ queue # <<>> /\ Head(queue) = First /\ pass.left \in Nat /\
              pass.left <= Len(queue)
         /\ First \in QueuedEvents /\ First.session \in Sessions /\ First.upload \in Uploads /\ First.id \in Nat \ {0}
         /\ First.upload.rev \in Nat /\ rev[First.session] \in Nat
         /\ First.upload # NoUpload => /\ First.upload.event = First.id /\ Fit(First.content)
                                       /\ First.upload.rev \in 1..(rev[First.session] + 1)
         /\ \A s \in Sessions : inflight[s] = NoUpload
         /\ inflight[First.session] = NoUpload
         /\ pass \in Passes /\ CoreTypes /\ relayRecips \in Nat /\ pass.version \in Nat /\ First.content \in Contents
<1>1. CoreTypes /\ pass \in Passes /\ relayRecips \in Nat /\ queue \in Seq(QueuedEvents) /\ rev \in [Sessions -> Nat]
  BY TypesAreCore DEF TypeOK
<1>2. pass.left \in Nat /\ pass.version \in Nat
  BY <1>1 DEF Passes
<1>3. pass.left <= Len(queue) /\ \A s \in Sessions : inflight[s] = NoUpload
  BY DEF StageInv
<1>4. Len(queue) \in Nat /\ Len(queue) > 0 /\ queue # <<>> /\ Head(queue) = First /\ 1 \in 1..Len(queue)
  BY <1>1, <1>2, <1>3 DEF First
<1>5. /\ First \in QueuedEvents /\ First.session \in Sessions /\ First.upload \in Uploads /\ First.id \in Nat \ {0}
      /\ First.upload.rev \in Nat
  BY <1>1, <1>4, Heads
<1>6. First.upload # NoUpload => /\ First.upload.event = First.id /\ Fit(First.content)
                                 /\ First.upload.rev \in 1..(rev[First.session] + 1)
  BY <1>4 DEF CoreInv, HeadInv, First
<1>7. First.content \in Contents
  BY <1>5 DEF QueuedEvents
<1> QED BY <1>1, <1>2, <1>3, <1>4, <1>5, <1>6, <1>7

\* The first Event leaves the queue.
LEMMA EventLeaves ==
  ASSUME TypeOK, CoreInv, PassInv, pass.pc \in {"event", "sendEvent"}, pass.left > 0, EventStep, UNCHANGED inflight,
         queue' = Tail(queue), pass' = [pass EXCEPT !.pc = "event", !.left = pass.left - 1, !.retried = FALSE]
  PROVE  Sound
<1>1. /\ Len(queue) > 0 /\ Len(queue) \in Nat /\ pass.left \in Nat /\ pass.left <= Len(queue)
      /\ pass \in Passes /\ CoreTypes /\ \A s \in Sessions : inflight[s] = NoUpload
  BY DrainStage DEF PassInv
<1>2. Len(queue') = Len(queue) - 1
  BY <1>1, Heads
<1>3. pass.left - 1 \in Nat /\ pass.left - 1 <= Len(queue')
  BY <1>1, <1>2
<1>4. pass' \in Passes
  BY <1>1, <1>3 DEF Passes, Pcs
<1>5. pass'.pc = "event" /\ pass'.left = pass.left - 1
  BY <1>1 DEF Passes
<1>6. StageInv' /\ RefsInv'
  BY <1>1, <1>3, <1>5 DEF StageInv, RefsInv
<1> QED BY <1>4, <1>6 DEF Sound, CoreStep, PassInv

\* The first Event is sent, or sent again, with another upload.
LEMMA EventGoes ==
  ASSUME TypeOK, CoreInv, PassInv, pass.pc \in {"event", "sendEvent"}, pass.left > 0, EventStep, UNCHANGED inflight,
         NEW w \in Uploads, w # NoUpload, queue' = [queue EXCEPT ![1].upload = w],
         pass' \in Passes, pass'.pc = "sendEvent", pass'.left = pass.left
  PROVE  Sound
<1>1. /\ Len(queue) > 0 /\ Len(queue) \in Nat /\ pass.left \in Nat /\ pass.left <= Len(queue)
      /\ CoreTypes /\ \A s \in Sessions : inflight[s] = NoUpload
  BY DrainStage DEF PassInv
<1>2. Len(queue') = Len(queue) /\ queue'[1].upload = w
  BY <1>1, Heads
<1>3. StageInv' /\ RefsInv'
  BY <1>1, <1>2 DEF StageInv, RefsInv
<1> QED BY <1>3 DEF Sound, CoreStep, PassInv

\* The first Event's upload is made, settled, or the Event is given up.
LEMMA PrepareEventSound == ASSUME TypeOK, CoreInv, PassInv, PrepareEvent PROVE Sound
<1> DEFINE e == First
<1> DEFINE u == First.upload
<1>1. pass.pc = "event" /\ pass.left > 0
  BY DEF PrepareEvent
<1>2. /\ Len(queue) > 0 /\ Head(queue) = e
      /\ e \in QueuedEvents /\ e.session \in Sessions /\ u \in Uploads /\ e.id \in Nat \ {0}
      /\ u.rev \in Nat /\ rev[e.session] \in Nat
      /\ u # NoUpload => u.event = e.id /\ Fit(e.content) /\ u.rev \in 1..(rev[e.session] + 1)
      /\ inflight[e.session] = NoUpload
      /\ pass \in Passes /\ CoreTypes /\ pass.version \in Nat /\ e.content \in Contents
  BY <1>1, DrainStage DEF PassInv
<1>3. \/ ~Fit(Head(queue).content) /\ Quarantine(Head(queue))
      \/ /\ Head(queue).upload # NoUpload /\ Holds(Head(queue).session, Head(queue).upload)
         /\ CompleteEvent(Head(queue), Head(queue).upload)
      \/ /\ Fit(Head(queue).content)
         /\ (Head(queue).upload = NoUpload \/ Head(queue).upload.recips = pass.version \/ ~Holds(Head(queue).session, Head(queue).upload))
         /\ queue' = [queue EXCEPT ![1].upload =
                        IF Head(queue).upload = NoUpload THEN EventUpload(Head(queue), rev[Head(queue).session] + 1, pass.version)
                        ELSE IF Head(queue).upload.recips = pass.version THEN Head(queue).upload
                        ELSE Reencrypted(Head(queue).upload, Head(queue).content, pass.version)]
         /\ pass' = [pass EXCEPT !.pc = "sendEvent"]
         /\ rev' = rev /\ dead' = dead
  BY DEF PrepareEvent
<1>4. inflight' = inflight /\ log' = log /\ events' = events
  BY DEF PrepareEvent, relay, counts
<1> HIDE DEF e, u
<1>5. CASE ~Fit(Head(queue).content) /\ Quarantine(Head(queue))
  <2>1. /\ dead' = dead \cup {e} /\ queue' = Tail(queue) /\ rev' = rev
        /\ pass' = [pass EXCEPT !.pc = "event", !.left = pass.left - 1, !.retried = FALSE]
    BY <1>2, <1>5 DEF Quarantine
  <2>2. u = NoUpload
    BY <1>2, <1>5
  <2>3. EventStep
    BY <1>2, <1>4, <2>1, <2>2 DEF EventStep, e, u
  <2> QED BY <1>1, <1>4, <2>1, <2>3, EventLeaves
<1>6. CASE /\ Head(queue).upload # NoUpload /\ Holds(Head(queue).session, Head(queue).upload)
           /\ CompleteEvent(Head(queue), Head(queue).upload)
  <2>1. u # NoUpload /\ Holds(e.session, u)
    BY <1>2, <1>6 DEF e, u
  <2>2. /\ dead' = dead /\ queue' = Tail(queue) /\ rev' = [rev EXCEPT ![e.session] = u.rev]
        /\ pass' = [pass EXCEPT !.pc = "event", !.left = pass.left - 1, !.retried = FALSE]
    BY <1>2, <1>6 DEF CompleteEvent, Committed, e, u
  <2>3. EventStep
    BY <1>2, <1>4, <2>1, <2>2 DEF EventStep, Holds, e, u
  <2> QED BY <1>1, <1>4, <2>2, <2>3, EventLeaves
<1>7. CASE /\ Fit(Head(queue).content)
           /\ (Head(queue).upload = NoUpload \/ Head(queue).upload.recips = pass.version \/ ~Holds(Head(queue).session, Head(queue).upload))
           /\ queue' = [queue EXCEPT ![1].upload =
                        IF Head(queue).upload = NoUpload THEN EventUpload(Head(queue), rev[Head(queue).session] + 1, pass.version)
                        ELSE IF Head(queue).upload.recips = pass.version THEN Head(queue).upload
                        ELSE Reencrypted(Head(queue).upload, Head(queue).content, pass.version)]
           /\ pass' = [pass EXCEPT !.pc = "sendEvent"]
           /\ rev' = rev /\ dead' = dead
  <2> DEFINE w == IF u = NoUpload THEN EventUpload(e, rev[e.session] + 1, pass.version)
                  ELSE IF u.recips = pass.version THEN u
                  ELSE Reencrypted(u, e.content, pass.version)
  <2>1. queue' = [queue EXCEPT ![1].upload = w]
    BY <1>2, <1>7 DEF e, u
  <2>2. EventUpload(e, rev[e.session] + 1, pass.version) \in Uploads /\
          Reencrypted(u, e.content, pass.version) \in Uploads
    BY <1>2, UploadTypes
  <2>3. EventUpload(e, rev[e.session] + 1, pass.version).event = e.id /\
          EventUpload(e, rev[e.session] + 1, pass.version).rev = rev[e.session] + 1
    BY DEF EventUpload
  <2>4. Reencrypted(u, e.content, pass.version).event = u.event /\ Reencrypted(u, e.content, pass.version).rev = u.rev
    BY <1>2 DEF Reencrypted, Uploads
  <2>5. w \in Uploads /\ w.event = e.id /\ w.rev \in 1..(rev[e.session] + 1)
    BY <1>2, <2>2, <2>3, <2>4
  <2>6. w # NoUpload
    BY <1>2, <2>5 DEF NoUpload
  <2>7. Fit(e.content) /\ (u = NoUpload \/ u.recips = pass.version \/ ~Holds(e.session, u))
    BY <1>2, <1>7 DEF e, u
  <2>8. queue' = queue \/ u = NoUpload \/ ~Holds(e.session, u)
    <3>1. ASSUME u # NoUpload, u.recips = pass.version PROVE queue' = queue
      <4>1. queue' = [queue EXCEPT ![1].upload = queue[1].upload]
        BY <2>1, <3>1 DEF u, First
      <4>2. queue[1] \in QueuedEvents /\ queue \in Seq(QueuedEvents) /\ Len(queue) \in Nat
        BY <1>2 DEF e, First, CoreTypes
      <4>3. [queue[1] EXCEPT !.upload = queue[1].upload] = queue[1]
        BY <4>2 DEF QueuedEvents
      <4>4. queue' = [queue EXCEPT ![1] = queue[1]]
        BY <1>2, <4>1, <4>2, <4>3
      <4> QED BY <4>2, <4>4
    <3> QED BY <2>7, <3>1
  <2> HIDE DEF w
  <2>9. EventStep
    <3>1. CASE queue' = queue
      BY <1>2, <1>4, <1>7, <3>1 DEF EventStep, e
    <3>2. CASE u = NoUpload \/ ~Holds(e.session, u)
      BY <1>2, <1>4, <1>7, <2>1, <2>5, <2>7, <3>2 DEF EventStep, e, u, Holds
    <3> QED BY <2>8, <3>1, <3>2
  <2>10. pass' \in Passes
    BY <1>2, <1>7 DEF Passes, Pcs
  <2>11. pass'.pc = "sendEvent" /\ pass'.left = pass.left
    BY <1>2, <1>7 DEF Passes
  <2> QED BY <1>1, <1>4, <2>1, <2>5, <2>6, <2>9, <2>10, <2>11, EventGoes
<1> QED BY <1>3, <1>5, <1>6, <1>7

\* The question after its earlier upload is lost.
LEMMA PrepareEventLostSound == ASSUME TypeOK, CoreInv, PassInv, PrepareEventLost PROVE Sound
<1>1. pass' = Idle
  BY DEF PrepareEventLost, End
<1>2. RestStep
  BY DEF PrepareEventLost, RestStep, durable, relay
<1> QED BY <1>1, <1>2, HaltsSound

\* While an Event is sent, it has an upload.
LEMMA SendStageOfEvent ==
  ASSUME TypeOK, CoreInv, StageInv, pass.pc = "sendEvent"
  PROVE  pass.left > 0 /\ First.upload # NoUpload
  BY DEF StageInv, First

\* An Event's upload is answered.
LEMMA SendEventSound == ASSUME TypeOK, CoreInv, PassInv, SendEvent PROVE Sound
<1> DEFINE u == First.upload
<1> DEFINE s == First.session
<1>1. pass.pc = "sendEvent" /\ inflight' = inflight /\ events' = events
  BY DEF SendEvent, counts
<1>2. pass.left > 0 /\ u # NoUpload
  BY <1>1, SendStageOfEvent DEF PassInv
<1>3. Len(queue) > 0 /\ Head(queue) = First /\ s \in Sessions /\ u \in Uploads /\ CoreTypes /\ inflight[s] = NoUpload
  BY <1>1, <1>2, DrainStage DEF PassInv
<1>4. Verdict(s, u) = "ok" /\ log' = Stored(s, u)
  BY <1>3 DEF SendEvent
<1>5. /\ dead' = dead /\ queue' = Tail(queue) /\ rev' = [rev EXCEPT ![s] = u.rev]
      /\ pass' = [pass EXCEPT !.pc = "event", !.left = pass.left - 1, !.retried = FALSE]
  BY <1>3 DEF SendEvent, CompleteEvent, Committed
<1>6. Arrives(s, u) /\ HeldIn(log'[s], u)
  BY <1>3, <1>4, Answers
<1>7. EventStep
  BY <1>1, <1>2, <1>3, <1>5, <1>6 DEF EventStep
<1> QED BY <1>1, <1>2, <1>5, <1>7, EventLeaves

\* The Event's upload may have arrived; the pass is over.
LEMMA EventGivesUp ==
  ASSUME TypeOK, CoreInv, PassInv, pass.pc = "sendEvent", UNCHANGED inflight, UNCHANGED events, UNCHANGED rev,
           UNCHANGED queue,
         UNCHANGED dead, Arrives(First.session, First.upload), pass' = Idle
  PROVE  Sound
<1>1. pass.left > 0 /\ First.upload # NoUpload
  BY SendStageOfEvent DEF PassInv
<1>2. Len(queue) > 0 /\ inflight[First.session] = NoUpload
  BY <1>1, DrainStage DEF PassInv
<1>3. EventStep
  BY <1>1, <1>2 DEF EventStep
<1> QED BY <1>3, Halts DEF Sound, CoreStep

\* An Event's upload is not answered.
LEMMA SendEventLostSound == ASSUME TypeOK, CoreInv, PassInv, SendEventLost PROVE Sound
<1>1. pass.pc = "sendEvent" /\ UNCHANGED queue /\ UNCHANGED dead /\ UNCHANGED events /\ UNCHANGED rev /\
        UNCHANGED inflight
  BY DEF SendEventLost, durable
<1>2. pass.left > 0
  BY <1>1, SendStageOfEvent DEF PassInv
<1>3. Head(queue) = First /\ First.session \in Sessions /\ First.upload \in Uploads /\ CoreTypes
  BY <1>1, <1>2, DrainStage DEF PassInv
<1>4. Unanswered(First.session, First.upload) /\ pass' = Idle
  BY <1>3 DEF SendEventLost, End
<1>5. Arrives(First.session, First.upload)
  BY <1>3, <1>4, Answers
<1> QED BY <1>1, <1>4, <1>5, EventGivesUp

\* An Event's upload is refused.
LEMMA EventRefusedSound == ASSUME TypeOK, CoreInv, PassInv, EventRefused PROVE Sound
<1> DEFINE u == First.upload
<1> DEFINE s == First.session
<1> DEFINE held == HeldIn(log'[s], u)
<1>1. pass.pc = "sendEvent" /\ inflight' = inflight /\ events' = events
  BY DEF EventRefused
<1>2. pass.left > 0 /\ u # NoUpload
  BY <1>1, SendStageOfEvent DEF PassInv
<1>3. /\ Len(queue) > 0 /\ Head(queue) = First
      /\ First \in QueuedEvents /\ s \in Sessions /\ u \in Uploads /\ First.id \in Nat \ {0}
      /\ u.rev \in Nat /\ rev[s] \in Nat /\ u.event = First.id /\ Fit(First.content) /\ u.rev \in 1..(rev[s] + 1)
      /\ inflight[s] = NoUpload
      /\ pass \in Passes /\ CoreTypes /\ relayRecips \in Nat /\ First.content \in Contents
  BY <1>1, <1>2, DrainStage DEF PassInv
<1>4. PICK reason \in {"changed", "conflict"} :
         LET d == DecideEvent(reason, HeldIn(log'[Head(queue).session], Head(queue).upload), pass.retried) IN
         /\ Refusal(Head(queue).session, Head(queue).upload, reason)
         /\ CASE d = "complete" -> CompleteEvent(Head(queue), Head(queue).upload)
              [] d = "quarantine" -> Quarantine(Head(queue))
              [] d = "defer" -> End /\ UNCHANGED <<rev, queue, dead>>
              [] d = "refresh" ->
                 /\ queue' = [queue EXCEPT ![1].upload = Reencrypted(Head(queue).upload, Head(queue).content, relayRecips)]
                 /\ pass' = [pass EXCEPT !.version = relayRecips, !.retried = TRUE]
                 /\ UNCHANGED <<rev, dead, fails, offline>>
  BY DEF EventRefused
<1> DEFINE d == DecideEvent(reason, held, pass.retried)
<1>5. /\ d = "complete" => held
      /\ d \in {"quarantine", "refresh"} => ~held
      /\ d \in {"complete", "quarantine", "defer", "refresh"}
  BY DEF DecideEvent
<1>6. Refusal(s, u, reason)
  BY <1>3, <1>4
<1>7. (CASE d = "complete" -> CompleteEvent(First, u)
         [] d = "quarantine" -> Quarantine(First)
         [] d = "defer" -> End /\ UNCHANGED <<rev, queue, dead>>
         [] d = "refresh" ->
              /\ queue' = [queue EXCEPT ![1].upload = Reencrypted(u, First.content, relayRecips)]
              /\ pass' = [pass EXCEPT !.version = relayRecips, !.retried = TRUE]
              /\ UNCHANGED <<rev, dead, fails, offline>>)
  BY <1>3, <1>4
<1> HIDE DEF d, held
<1>8. \/ d = "complete" /\ CompleteEvent(First, u)
      \/ d = "quarantine" /\ Quarantine(First)
      \/ End /\ rev' = rev /\ queue' = queue /\ dead' = dead
      \/ /\ d = "refresh"
         /\ queue' = [queue EXCEPT ![1].upload = Reencrypted(u, First.content, relayRecips)]
         /\ pass' = [pass EXCEPT !.version = relayRecips, !.retried = TRUE]
         /\ rev' = rev /\ dead' = dead
  BY <1>5, <1>7
<1>9. Arrives(s, u)
  BY <1>3, <1>6, Answers
<1>10. CASE d = "complete" /\ CompleteEvent(First, u)
  <2>1. /\ dead' = dead /\ queue' = Tail(queue) /\ rev' = [rev EXCEPT ![s] = u.rev]
        /\ pass' = [pass EXCEPT !.pc = "event", !.left = pass.left - 1, !.retried = FALSE]
    BY <1>10 DEF CompleteEvent, Committed
  <2>2. EventStep
    BY <1>1, <1>2, <1>3, <1>5, <1>9, <1>10, <2>1 DEF EventStep, held
  <2> QED BY <1>1, <1>2, <2>1, <2>2, EventLeaves
<1>11. CASE d = "quarantine" /\ Quarantine(First)
  <2>1. /\ dead' = dead \cup {First} /\ queue' = Tail(queue) /\ rev' = rev
        /\ pass' = [pass EXCEPT !.pc = "event", !.left = pass.left - 1, !.retried = FALSE]
    BY <1>11 DEF Quarantine
  <2>2. EventStep
    BY <1>1, <1>2, <1>3, <1>5, <1>9, <1>11, <2>1 DEF EventStep, held
  <2> QED BY <1>1, <1>2, <2>1, <2>2, EventLeaves
<1>12. CASE End /\ rev' = rev /\ queue' = queue /\ dead' = dead
  BY <1>1, <1>9, <1>12, Stops, EventGivesUp
<1>13. CASE /\ d = "refresh"
            /\ queue' = [queue EXCEPT ![1].upload = Reencrypted(u, First.content, relayRecips)]
            /\ pass' = [pass EXCEPT !.version = relayRecips, !.retried = TRUE]
            /\ rev' = rev /\ dead' = dead
  <2> DEFINE w == Reencrypted(u, First.content, relayRecips)
  <2>1. w \in Uploads
    BY <1>3, UploadTypes
  <2>2. w.event = u.event /\ w.rev = u.rev
    BY <1>3 DEF Reencrypted, Uploads
  <2>3. w # NoUpload
    BY <1>3, <2>2 DEF NoUpload
  <2> HIDE DEF w
  <2>4. queue' = [queue EXCEPT ![1].upload = w]
    BY <1>13 DEF w
  <2>5. EventStep
    BY <1>1, <1>2, <1>3, <1>5, <1>9, <1>13, <2>1, <2>2, <2>4 DEF EventStep, held
  <2>6. pass' \in Passes
    BY <1>3, <1>13 DEF Passes
  <2>7. pass'.pc = "sendEvent" /\ pass'.left = pass.left
    BY <1>1, <1>3, <1>13 DEF Passes
  <2> QED BY <1>1, <1>2, <2>1, <2>3, <2>4, <2>5, <2>6, <2>7, EventGoes
<1> QED BY <1>8, <1>10, <1>11, <1>12, <1>13

\* The pass ends.
LEMMA EndPassSound == ASSUME TypeOK, CoreInv, PassInv, EndPass PROVE Sound
<1>1. pass' = Idle
  BY DEF EndPass, End
<1>2. RestStep
  BY DEF EndPass, RestStep, durable, relay, counts
<1> QED BY <1>1, <1>2, HaltsSound

-----------------------------------------------------------------------------
(* The environment, and all steps together.                                *)

\* The environment leaves the pass and its uploads alone.
LEMMA AsideSound == ASSUME TypeOK, CoreInv, PassInv, RestStep, pass' = pass PROVE Sound
<1>1. UNCHANGED log /\ UNCHANGED inflight /\ UNCHANGED queue
  BY DEF RestStep
<1>2. StageInv'
  BY <1>1 DEF PassInv, StageInv, Turn
<1>3. RefsInv'
  BY <1>1 DEF PassInv, RefsInv
<1>4. pass' \in Passes
  BY DEF TypeOK
<1> QED BY <1>2, <1>3, <1>4 DEF Sound, CoreStep, PassInv

\* The sessions or the recipients change.
LEMMA ChangesSound ==
  ASSUME TypeOK, CoreInv, PassInv,
         (\E s \in Sessions : Change(s) \/ Appear(s) \/ Vanish(s)) \/ RecipientChange
  PROVE  Sound
<1>1. RestStep /\ pass' = pass
  BY DEF Change, Appear, Vanish, RecipientChange, RestStep, durable, memory, relay
<1> QED BY <1>1, AsideSound

\* An Event is queued.
LEMMA EmitSound == ASSUME TypeOK, CoreInv, PassInv, NEW s \in Sessions, Emit(s) PROVE Sound
<1> DEFINE e == [id |-> events, session |-> s, content |-> content[s], upload |-> NoUpload]
<1>1. UNCHANGED log /\ UNCHANGED rev /\ UNCHANGED inflight /\ UNCHANGED dead /\ pass' = pass
  BY DEF Emit, memory, relay
<1>2. events > 0 /\ events' = events - 1 /\ queue' = Append(queue, e)
  BY DEF Emit
<1>3. events \in Nat /\ content[s] \in Contents /\ queue \in Seq(QueuedEvents) /\ Len(queue) \in Nat /\
        pass \in Passes
  BY DEF TypeOK
<1>4. e \in QueuedEvents /\ e.id = events /\ e.upload = NoUpload
  BY <1>2, <1>3, Blank DEF QueuedEvents
<1> HIDE DEF e
<1>5. EmitStep
  BY <1>1, <1>2, <1>4 DEF EmitStep
<1>6. Len(queue') = Len(queue) + 1 /\ \A i \in 1..Len(queue) : queue'[i] = queue[i]
  BY <1>2, <1>3, <1>4
<1>7. pass.left \in Nat
  BY <1>3 DEF Passes
<1>8. pass.pc = "sendEvent" => pass.left <= Len(queue) /\ pass.left > 0 /\ queue[1].upload # NoUpload
  BY DEF PassInv, StageInv
<1>9. pass.pc = "sendEvent" => queue'[1].upload # NoUpload
  BY <1>3, <1>6, <1>7, <1>8
<1>10. pass.pc = "event" => pass.left <= Len(queue)
  BY DEF PassInv, StageInv
<1>11. pass.pc \in {"event", "sendEvent"} => pass.left <= Len(queue')
  BY <1>3, <1>6, <1>7, <1>8, <1>10
<1>12. StageInv'
  BY <1>1, <1>8, <1>9, <1>11 DEF PassInv, StageInv, Turn
<1>13. RefsInv'
  BY <1>1 DEF PassInv, RefsInv
<1> QED BY <1>1, <1>3, <1>5, <1>12, <1>13 DEF Sound, CoreStep, PassInv

\* The Bridge crashes.
LEMMA CrashSound == ASSUME TypeOK, CoreInv, PassInv, Crash PROVE Sound
<1>1. pass' = Idle
  BY DEF Crash
<1>2. RestStep
  BY DEF Crash, RestStep, durable, relay
<1> QED BY <1>1, <1>2, HaltsSound

\* A step is one of these, or changes nothing.
LEMMA Steps ==
  ASSUME [Next]_vars
  PROVE  \/ UNCHANGED vars
         \/ BeginPass \/ Snapshot \/ SnapshotNotReady \/ SnapshotLost
         \/ ReconcileInflight \/ ReconcileLost \/ Allocate
         \/ PrepareSession \/ PrepareLost
         \/ SendSession \/ SendSessionLost \/ SessionRefused
         \/ SessionsUploaded \/ SendManifest \/ ManifestLost \/ ManifestRefused
         \/ BeginDrain \/ DrainLost
         \/ CoverSession \/ CoverLost \/ CoverRefused \/ Covered
         \/ PrepareEvent \/ PrepareEventLost
         \/ SendEvent \/ SendEventLost \/ EventRefused \/ EndPass
         \/ (\E s \in Sessions : Change(s) \/ Appear(s) \/ Vanish(s)) \/ RecipientChange
         \/ (\E s \in Sessions : Emit(s)) \/ Crash
  BY Zenon DEF Next, Publish, Drain, Environment

\* Every step is sound.
LEMMA StepSound ==
  ASSUME TypeOK, CoreInv, PassInv, [Next]_vars
  PROVE  Sound
<1>1. UNCHANGED vars => Sound
  <2>1. UNCHANGED vars => RestStep /\ pass' = pass
    BY DEF vars, durable, memory, relay, counts, RestStep
  <2> QED BY <2>1, AsideSound
<1>2. (\E s \in Sessions : Emit(s)) => Sound
  BY EmitSound
<1>3. BeginPass \/ Snapshot \/ SnapshotNotReady \/ SnapshotLost
         \/ ReconcileInflight \/ ReconcileLost \/ Allocate \/ PrepareSession \/ PrepareLost => Sound
  BY BeginPassSound, SnapshotSound, SnapshotNotReadySound, SnapshotLostSound,
     ReconcileInflightSound, ReconcileLostSound, AllocateSound, PrepareSessionSound, PrepareLostSound
<1>4. SendSession \/ SendSessionLost \/ SessionRefused
         \/ SessionsUploaded \/ SendManifest \/ ManifestLost \/ ManifestRefused => Sound
  BY SendSessionSound, SendSessionLostSound, SessionRefusedSound,
     SessionsUploadedSound, SendManifestSound, ManifestLostSound, ManifestRefusedSound
<1>5. BeginDrain \/ DrainLost \/ CoverSession \/ CoverLost \/ CoverRefused \/ Covered => Sound
  BY BeginDrainSound, DrainLostSound, CoverSessionSound, CoverLostSound, CoverRefusedSound, CoveredSound
<1>6. PrepareEvent \/ PrepareEventLost \/ SendEvent \/ SendEventLost \/ EventRefused \/ EndPass => Sound
  BY PrepareEventSound, PrepareEventLostSound, SendEventSound, SendEventLostSound, EventRefusedSound,
      EndPassSound
<1>7. (\E s \in Sessions : Change(s) \/ Appear(s) \/ Vanish(s)) \/ RecipientChange \/ Crash => Sound
  BY ChangesSound, CrashSound
<1> QED BY <1>1, <1>2, <1>3, <1>4, <1>5, <1>6, <1>7, Steps

-----------------------------------------------------------------------------
(* The remaining types.                                                    *)

\* Each step changes only this of what the environment and the Relay keep.
LEMMA EnvironmentKept ==
  ASSUME [Next]_vars
  PROVE  /\ UNCHANGED present \/ \E s \in Sessions : Appear(s) \/ Vanish(s)
         /\ UNCHANGED content \/ \E s \in Sessions : Change(s)
         /\ UNCHANGED changes \/ \E s \in Sessions : Change(s) \/ Appear(s) \/ Vanish(s)
         /\ (UNCHANGED pairings /\ UNCHANGED relayRecips) \/ RecipientChange
<1> DEFINE Kept == UNCHANGED <<present, content, changes, pairings, relayRecips>>
<1>1. UNCHANGED vars => Kept
  BY DEF vars, durable, relay, counts
<1>2. BeginPass \/ Snapshot \/ SnapshotNotReady \/ SnapshotLost \/ ReconcileInflight \/ ReconcileLost => Kept
  BY DEF BeginPass, Snapshot, SnapshotNotReady, SnapshotLost, ReconcileInflight, ReconcileLost, durable, relay,
      counts
<1>3. Allocate \/ PrepareSession \/ PrepareLost \/ SendSession \/ SendSessionLost => Kept
  BY DEF Allocate, PrepareSession, PrepareLost, SendSession, SendSessionLost, durable, relay, counts
<1>4. SessionRefused \/ SessionsUploaded \/ SendManifest \/ ManifestLost \/ ManifestRefused => Kept
  BY DEF SessionRefused, SessionsUploaded, SendManifest, ManifestLost, ManifestRefused, durable, relay, counts
<1>5. BeginDrain \/ DrainLost \/ CoverSession \/ CoverLost \/ CoverRefused \/ Covered => Kept
  BY DEF BeginDrain, DrainLost, CoverSession, CoverLost, CoverRefused, Covered, durable, relay, counts
<1>6. PrepareEvent \/ PrepareEventLost \/ SendEvent \/ SendEventLost \/ EventRefused \/ EndPass \/ Crash => Kept
  BY DEF PrepareEvent, PrepareEventLost, SendEvent, SendEventLost, EventRefused, EndPass, Crash, durable, relay,
      counts
<1>7. (\E s \in Sessions : Emit(s)) => Kept
  BY DEF Emit, relay
<1>8. (\E s \in Sessions : Change(s)) => UNCHANGED present /\ UNCHANGED pairings /\ UNCHANGED relayRecips
  BY DEF Change, relay
<1>9. (\E s \in Sessions : Appear(s) \/ Vanish(s)) => UNCHANGED content /\ UNCHANGED pairings /\ UNCHANGED relayRecips
  BY DEF Appear, Vanish, relay
<1>10. RecipientChange => UNCHANGED present /\ UNCHANGED content /\ UNCHANGED changes
  BY DEF RecipientChange, durable
<1> QED BY <1>1, <1>2, <1>3, <1>4, <1>5, <1>6, <1>7, <1>8, <1>9, <1>10, Steps

\* The manifests, the recipients adopted, and what the passes so far have found.
LEMMA ManifestKept ==
  ASSUME [Next]_vars
  PROVE  /\ UNCHANGED recips \/ SessionsUploaded \/ Covered
         /\ UNCHANGED manifest \/ Allocate \/ SessionsUploaded \/ SendManifest \/ ManifestRefused
         /\ UNCHANGED relayManifest \/ SendManifest \/ ManifestLost
<1> DEFINE Kept == UNCHANGED recips /\ UNCHANGED manifest /\ UNCHANGED relayManifest
<1>1. UNCHANGED vars => Kept
  BY DEF vars, durable, relay
<1>2. BeginPass \/ Snapshot \/ SnapshotNotReady \/ SnapshotLost \/ ReconcileInflight \/ ReconcileLost => Kept
  BY DEF BeginPass, Snapshot, SnapshotNotReady, SnapshotLost, ReconcileInflight, ReconcileLost, durable, relay
<1>3. PrepareSession \/ PrepareLost \/ SendSession \/ SendSessionLost \/ SessionRefused => Kept
  BY DEF PrepareSession, PrepareLost, SendSession, SendSessionLost, SessionRefused, durable, relay
<1>4. BeginDrain \/ DrainLost \/ CoverSession \/ CoverLost \/ CoverRefused => Kept
  BY DEF BeginDrain, DrainLost, CoverSession, CoverLost, CoverRefused, durable, relay
<1>5. PrepareEvent \/ PrepareEventLost \/ SendEvent \/ SendEventLost \/ EventRefused \/ EndPass \/ Crash \/ RecipientChange => Kept
  BY DEF PrepareEvent, PrepareEventLost, SendEvent, SendEventLost, EventRefused, EndPass, Crash,
      RecipientChange, durable, relay
<1>6. (\E s \in Sessions : Emit(s)) => Kept
  BY DEF Emit, relay
<1>7. (\E s \in Sessions : Change(s) \/ Appear(s) \/ Vanish(s)) => Kept
  BY DEF Change, Appear, Vanish, relay
<1>8. Allocate => UNCHANGED recips /\ UNCHANGED relayManifest
  BY DEF Allocate, relay
<1>9. SessionsUploaded => UNCHANGED relayManifest
  BY DEF SessionsUploaded, relay
<1>10. SendManifest => UNCHANGED recips
  BY DEF SendManifest
<1>11. ManifestLost => UNCHANGED recips /\ UNCHANGED manifest
  BY DEF ManifestLost, durable
<1>12. ManifestRefused => UNCHANGED recips /\ UNCHANGED relayManifest
  BY DEF ManifestRefused, relay
<1>13. Covered => UNCHANGED manifest /\ UNCHANGED relayManifest
  BY DEF Covered, relay
<1> QED BY <1>1, <1>2, <1>3, <1>4, <1>5, <1>6, <1>7, <1>8, <1>9, <1>10, <1>11, <1>12, <1>13, Steps

\* Mishaps are counted down.
LEMMA MishapTypes == ASSUME TypeOK, [Next]_vars PROVE mishaps' \in Nat
<1> DEFINE Fewer == mishaps' = mishaps \/ (mishaps > 0 /\ mishaps' = mishaps - 1)
<1>1. UNCHANGED vars => Fewer
  BY DEF vars, counts
<1>2. BeginPass \/ Snapshot \/ SnapshotNotReady \/ SnapshotLost \/ ReconcileInflight \/ ReconcileLost => Fewer
  BY DEF BeginPass, Snapshot, SnapshotNotReady, SnapshotLost, ReconcileInflight, ReconcileLost, Lost, counts
<1>3. Allocate \/ PrepareSession \/ PrepareLost \/ SendSession \/ SendSessionLost => Fewer
  BY DEF Allocate, PrepareSession, PrepareLost, SendSession, SendSessionLost, Lost, Unanswered, counts
<1>4. SessionRefused => Fewer
  BY DEF SessionRefused, Refusal
<1>5. SessionsUploaded \/ SendManifest \/ ManifestLost \/ ManifestRefused => Fewer
  BY DEF SessionsUploaded, SendManifest, ManifestLost, ManifestRefused, Lost, counts
<1>6. BeginDrain \/ DrainLost \/ CoverSession \/ CoverLost \/ Covered => Fewer
  BY DEF BeginDrain, DrainLost, CoverSession, CoverLost, Covered, Lost, Unanswered, counts
<1>7. CoverRefused => Fewer
  BY DEF CoverRefused, Refusal
<1>8. PrepareEvent \/ PrepareEventLost \/ SendEvent \/ SendEventLost \/ EndPass \/ Crash \/ RecipientChange => Fewer
  BY DEF PrepareEvent, PrepareEventLost, SendEvent, SendEventLost, EndPass, Crash, RecipientChange, Lost,
      Unanswered, counts
<1>9. EventRefused => Fewer
  BY DEF EventRefused, Refusal
<1>10. (\E s \in Sessions : Change(s) \/ Appear(s) \/ Vanish(s)) \/ (\E s \in Sessions : Emit(s)) => Fewer
  BY DEF Change, Appear, Vanish, Emit
<1>11. Fewer
  BY <1>1, <1>2, <1>3, <1>4, <1>5, <1>6, <1>7, <1>8, <1>9, <1>10, Steps
<1> QED BY <1>11 DEF TypeOK

\* What is remembered of the passes so far has its type.
LEMMA OutcomeTypes == ASSUME TypeOK, [Next]_vars PROVE fails' \in 0..2 /\ offline' \in BOOLEAN
<1> DEFINE Known == (fails' = fails /\ offline' = offline) \/ (\E o : Return(o)) \/ Throw \/ Fault \/ End
<1>1. UNCHANGED vars => Known
  BY DEF vars, memory
<1>2. BeginPass \/ Snapshot \/ SnapshotNotReady \/ SnapshotLost \/ ReconcileInflight \/ ReconcileLost => Known
  BY DEF BeginPass, Snapshot, SnapshotNotReady, SnapshotLost, ReconcileInflight, ReconcileLost
<1>3. Allocate \/ PrepareSession \/ PrepareLost \/ SendSession \/ SendSessionLost => Known
  BY DEF Allocate, PrepareSession, PrepareLost, SendSession, SendSessionLost
<1>4. SessionRefused => Known
  BY DEF SessionRefused, DecideSession
<1>5. SessionsUploaded \/ SendManifest \/ ManifestLost \/ ManifestRefused => Known
  BY DEF SessionsUploaded, SendManifest, ManifestLost, ManifestRefused
<1>6. BeginDrain \/ DrainLost \/ CoverSession \/ CoverLost \/ Covered => Known
  BY DEF BeginDrain, DrainLost, CoverSession, CoverLost, Covered
<1>7. CoverRefused => Known
  BY DEF CoverRefused
<1>8. PrepareEvent \/ PrepareEventLost \/ SendEvent \/ SendEventLost \/ EndPass => Known
  BY DEF PrepareEvent, PrepareEventLost, SendEvent, SendEventLost, EndPass, CompleteEvent, Quarantine
<1>9. EventRefused => Known
  BY DEF EventRefused, DecideEvent, CompleteEvent, Quarantine
<1>10. (\E s \in Sessions : Change(s) \/ Appear(s) \/ Vanish(s)) \/ (\E s \in Sessions : Emit(s)) \/ RecipientChange => Known
  BY DEF Change, Appear, Vanish, Emit, RecipientChange, memory
<1>11. Crash => fails' \in 0..2 /\ offline' \in BOOLEAN
  <2>1. Crash => fails' = 0 /\ offline' = FALSE
    BY DEF Crash
  <2>2. 0 \in 0..2 /\ FALSE \in BOOLEAN
    OBVIOUS
  <2> QED BY <2>1, <2>2, Zenon
<1>12. Known => fails' \in 0..2 /\ offline' \in BOOLEAN
  BY Stops DEF TypeOK
<1> HIDE DEF Known
<1> QED BY <1>1, <1>2, <1>3, <1>4, <1>5, <1>6, <1>7, <1>8, <1>9, <1>10, <1>11, <1>12, Steps

\* What the environment changes keeps its type.
LEMMA EnvironmentTypes ==
  ASSUME TypeOK, [Next]_vars
  PROVE  /\ present' \in SUBSET Sessions /\ content' \in [Sessions -> Contents]
         /\ changes' \in Nat /\ pairings' \in Nat /\ relayRecips' \in Nat
<1>1. /\ present \in SUBSET Sessions /\ content \in [Sessions -> Contents]
      /\ changes \in Nat /\ pairings \in Nat /\ relayRecips \in Nat
  BY DEF TypeOK
<1>2. ASSUME NEW s \in Sessions, Change(s)
      PROVE  changes > 0 /\ changes' = changes - 1 /\ \E c \in Contents : content' = [content EXCEPT ![s] = c]
  BY <1>2 DEF Change
<1>3. ASSUME NEW s \in Sessions, Appear(s) \/ Vanish(s)
      PROVE  changes > 0 /\ changes' = changes - 1 /\ present' \in {present \cup {s}, present \ {s}}
  BY <1>3 DEF Appear, Vanish
<1>4. RecipientChange => pairings > 0 /\ pairings' = pairings - 1 /\ relayRecips' = relayRecips + 1
  BY DEF RecipientChange
<1>5. present' \in SUBSET Sessions
  BY <1>1, <1>3, EnvironmentKept
<1>6. content' \in [Sessions -> Contents]
  BY <1>1, <1>2, EnvironmentKept
<1>7. changes' \in Nat
  BY <1>1, <1>2, <1>3, EnvironmentKept
<1>8. pairings' \in Nat /\ relayRecips' \in Nat
  BY <1>1, <1>4, EnvironmentKept
<1> QED BY <1>5, <1>6, <1>7, <1>8

\* The manifests keep their types.
LEMMA ManifestTypes ==
  ASSUME TypeOK, [Next]_vars
  PROVE  /\ recips' \in Nat
         /\ manifest' \in [alloc : Nat, acc : Nat, view : Views, recips : Nat]
         /\ relayManifest' \in [rev : Nat, recips : Nat, refs : References]
<1>1. /\ pass.version \in Nat /\ pass.view \in Views /\ pass.revs \in References
      /\ pass.pub.rev \in Nat /\ pass.pub.recips \in Nat
  BY DEF TypeOK, Passes
<1>2. /\ recips \in Nat /\ manifest \in [alloc : Nat, acc : Nat, view : Views, recips : Nat]
      /\ relayManifest \in [rev : Nat, recips : Nat, refs : References]
  BY DEF TypeOK
<1>3. manifest.alloc \in Nat /\ manifest.acc \in Nat /\ relayManifest.rev \in Nat
  BY <1>2
<1>4. \A n \in Nat : [manifest EXCEPT !.alloc = n] \in [alloc : Nat, acc : Nat, view : Views, recips : Nat]
  BY <1>2
<1>5. Allocate => manifest' = manifest \/ \E m \in Nat : manifest' = [manifest EXCEPT !.alloc = NextManifest(m)]
  <2>1. Allocate =>
          manifest' = manifest \/ manifest' = [manifest EXCEPT !.alloc = NextManifest(IF pass.had THEN manifest.acc + 1 ELSE 0)]
    BY DEF Allocate
  <2>2. (IF pass.had THEN manifest.acc + 1 ELSE 0) \in Nat
    BY <1>3
  <2> QED BY <2>1, <2>2
<1>6. SessionsUploaded => recips' = pass.version /\
        (manifest' = manifest \/ manifest' = [manifest EXCEPT !.alloc = NextManifest(0)])
  BY DEF SessionsUploaded
<1>7. Covered => recips' = Max({pass.version, pass.pub.recips})
  BY DEF Covered
<1>8. SendManifest => manifest' = Accepted /\ relayManifest' = Offered
  BY DEF SendManifest
<1>9. ManifestLost => relayManifest' \in {relayManifest, Offered}
  BY DEF ManifestLost
<1>10. ManifestRefused =>
         manifest' = manifest \/ manifest' = [manifest EXCEPT !.alloc = Max({manifest.alloc, relayManifest.rev})]
  BY DEF ManifestRefused
<1>11. \A a, b \in Nat : Max({a, b}) \in Nat
  BY Extremes
<1>12. Accepted \in [alloc : Nat, acc : Nat, view : Views, recips : Nat]
  BY <1>1, <1>3, <1>11 DEF Accepted
<1>13. Offered \in [rev : Nat, recips : Nat, refs : References]
  BY <1>1 DEF Offered
<1>14. recips' \in Nat
  BY <1>1, <1>2, <1>6, <1>7, <1>11, ManifestKept
<1>15. manifest' \in [alloc : Nat, acc : Nat, view : Views, recips : Nat]
  BY <1>2, <1>3, <1>4, <1>5, <1>6, <1>8, <1>10, <1>11, <1>12, NextManifests, ManifestKept
<1>16. relayManifest' \in [rev : Nat, recips : Nat, refs : References]
  BY <1>2, <1>8, <1>9, <1>13, ManifestKept
<1> QED BY <1>14, <1>15, <1>16

\* The type invariant is kept.
LEMMA TypesPreserved ==
  ASSUME TypeOK, CoreInv, PassInv, [Next]_vars
  PROVE  TypeOK'
<1>1. CoreTypes'
  BY StepSound, TypesAreCore, CoreKept DEF Sound
<1>2. pass' \in Passes
  BY StepSound DEF Sound
<1> QED BY <1>1, <1>2, EnvironmentTypes, ManifestTypes, MishapTypes, OutcomeTypes DEF TypeOK, CoreTypes

-----------------------------------------------------------------------------
(* Manifests.                                                              *)

\* The Bridge's accepted manifest is no newer than the Relay's.
LEMMA ManifestInvPreserved ==
  ASSUME TypeOK, ManifestInv, [Next]_vars
  PROVE  ManifestInv'
<1>1. manifest \in [alloc : Nat, acc : Nat, view : Views, recips : Nat] /\ manifest.acc <= relayManifest.rev
      /\ pass.pub.rev \in Nat /\ relayManifest.rev \in Nat
  BY DEF TypeOK, Passes, ManifestInv
<1>2. Allocate \/ SessionsUploaded \/ ManifestRefused => manifest'.acc = manifest.acc
  <2>1. \A n : [manifest EXCEPT !.alloc = n].acc = manifest.acc
    BY <1>1
  <2>2. Allocate \/ SessionsUploaded \/ ManifestRefused => manifest' = manifest \/ \E n :
          manifest' = [manifest EXCEPT !.alloc = n]
    BY DEF Allocate, SessionsUploaded, ManifestRefused
  <2> QED BY <2>1, <2>2
<1>3. SendManifest => manifest' = Accepted /\ relayManifest' = Offered
  BY DEF SendManifest
<1>4. ManifestLost => relayManifest' = relayManifest \/ (ManifestVerdict = "ok" /\ relayManifest' = Offered)
  BY DEF ManifestLost
<1>5. Accepted.acc = pass.pub.rev /\ Offered.rev = pass.pub.rev
  BY DEF Accepted, Offered
<1>6. ManifestVerdict = "ok" => pass.pub.rev > relayManifest.rev
  BY <1>1 DEF ManifestVerdict
<1>7. manifest'.acc <= relayManifest'.rev
  <2>1. manifest'.acc = manifest.acc \/ (manifest'.acc = pass.pub.rev /\ relayManifest'.rev = pass.pub.rev)
    BY <1>2, <1>3, <1>5, ManifestKept
  <2>2. relayManifest'.rev = relayManifest.rev \/ (SendManifest /\ manifest'.acc = pass.pub.rev /\ relayManifest'.rev = pass.pub.rev)
        \/ (relayManifest'.rev = pass.pub.rev /\ pass.pub.rev > relayManifest.rev)
    BY <1>3, <1>4, <1>5, <1>6, ManifestKept
  <2> QED BY <1>1, <2>1, <2>2
<1> QED BY <1>7 DEF ManifestInv

\* A manifest at the Relay goes on being sound: the uploads it refers to stay as they are.
LEMMA ManifestsStaySound ==
  ASSUME TypeOK, CoreInv, PassInv, ManifestInv, ManifestsAreSound, [Next]_vars
  PROVE  ManifestsAreSound'
<1>1. CoreTypes
  BY TypesAreCore
<1>2. \A s \in Sessions : /\ Len(log[s]) \in Nat /\ Len(log'[s]) \in Nat /\ Len(log[s]) <= Len(log'[s])
                          /\ \A r \in 1..Len(log[s]) : log'[s][r] = log[s][r]
  BY <1>1, LogGrows, StepSound DEF Sound
<1>3. log \in [Sessions -> Seq(Uploads)] /\ log' \in [Sessions -> Seq(Uploads)]
  BY <1>1, StepSound, CoreKept DEF Sound, CoreTypes
<1>4. \A s \in Sessions : DOMAIN log[s] = 1..Len(log[s]) /\ DOMAIN log'[s] = 1..Len(log'[s])
  BY <1>3
<1>5. Referred(relayManifest.refs) \subseteq Sessions /\ Referred(pass.revs) \subseteq Sessions
  BY DEF Referred
<1>6. /\ manifest.acc \in Nat /\ relayManifest.rev \in Nat /\ pass.pub.rev \in Nat /\
           manifest.acc <= relayManifest.rev
  BY DEF TypeOK, Passes, ManifestInv
<1> DEFINE Sent == /\ relayManifest' = Offered /\ pass.pc = "manifest" /\ log' = log
                   /\ ManifestVerdict = "ok" /\ (manifest' = Accepted \/ manifest' = manifest)
<1>7. CASE Sent
  <2>1. /\ relayManifest'.refs = pass.revs /\ relayManifest'.recips = pass.pub.recips /\
             relayManifest'.rev = pass.pub.rev
    BY <1>7 DEF Offered
  <2>2. pass.pub.recips = pass.version
    BY <1>7 DEF PassInv, StageInv
  <2>3. \A s \in Referred(pass.revs) : /\ pass.revs[s] \in 1..Len(log[s])
                                    /\ log[s][pass.revs[s]].recips = pass.version
                                    /\ log[s][pass.revs[s]].content = pass.view[s]
    BY <1>7 DEF PassInv, RefsInv
  <2>4. ManifestIsCovered'
    BY <1>4, <1>5, <1>7, <2>1, <2>2, <2>3 DEF ManifestIsCovered
  <2>5. pass.pub.rev > relayManifest.rev
    BY <1>6, <1>7 DEF ManifestVerdict
  <2>6. ManifestIsOneMoment'
    <3>1. CASE manifest' = manifest
      <4>1. manifest'.acc # relayManifest'.rev
        BY <1>6, <2>1, <2>5, <3>1
      <4> QED BY <4>1 DEF ManifestIsOneMoment
    <3>2. CASE manifest' = Accepted
      <4>1. manifest'.view = pass.view
        BY <3>2 DEF Accepted
      <4> QED BY <1>7, <2>1, <2>3, <4>1 DEF ManifestIsOneMoment
    <3> QED BY <1>7, <3>1, <3>2
  <2> QED BY <2>4, <2>6 DEF ManifestsAreSound
<1>8. CASE relayManifest' = relayManifest /\ manifest'.acc = manifest.acc /\ manifest'.view = manifest.view
  <2>1. \A s \in Referred(relayManifest.refs) : /\ relayManifest.refs[s] \in 1..Len(log[s])
                                             /\ log[s][relayManifest.refs[s]].recips = relayManifest.recips
    BY <1>4, <1>5 DEF ManifestsAreSound, ManifestIsCovered
  <2>2. \A s \in Referred(relayManifest.refs) : /\ relayManifest.refs[s] \in 1..Len(log'[s])
                                             /\ log'[s][relayManifest.refs[s]] = log[s][relayManifest.refs[s]]
    BY <1>2, <1>5, <2>1
  <2>3. ManifestIsCovered'
    BY <1>4, <1>5, <1>8, <2>1, <2>2 DEF ManifestIsCovered
  <2>4. ManifestIsOneMoment'
    BY <1>8, <2>2 DEF ManifestsAreSound, ManifestIsOneMoment
  <2> QED BY <2>3, <2>4 DEF ManifestsAreSound
<1>9. Sent \/ (relayManifest' = relayManifest /\ manifest'.acc = manifest.acc /\ manifest'.view = manifest.view)
  <2>1. manifest \in [alloc : Nat, acc : Nat, view : Views, recips : Nat]
    BY DEF TypeOK
  <2>2. \A n : [manifest EXCEPT !.alloc = n].acc = manifest.acc /\ [manifest EXCEPT !.alloc = n].view = manifest.view
    BY <2>1
  <2>3. Allocate \/ SessionsUploaded \/ ManifestRefused => manifest' = manifest \/ \E n :
          manifest' = [manifest EXCEPT !.alloc = n]
    BY DEF Allocate, SessionsUploaded, ManifestRefused
  <2>4. SendManifest => Sent
    BY DEF SendManifest
  <2>5. ManifestLost => relayManifest' = relayManifest \/ (ManifestVerdict = "ok" /\ relayManifest' = Offered)
    BY DEF ManifestLost
  <2>6. ManifestLost => pass.pc = "manifest" /\ log' = log /\ manifest' = manifest
    BY DEF ManifestLost, durable
  <2>7. Allocate \/ SessionsUploaded \/ ManifestRefused => manifest'.acc = manifest.acc /\
          manifest'.view = manifest.view
    BY <2>2, <2>3
  <2> QED BY <2>4, <2>5, <2>6, <2>7, ManifestKept
<1> QED BY <1>7, <1>8, <1>9

-----------------------------------------------------------------------------
(* The theorems.                                                           *)

\* The types hold at the start.
LEMMA InitTypes == ASSUME Init PROVE TypeOK
<1>1. PICK b \in Scenarios :
          /\ present = b.present /\ changes = b.changes /\ events = b.events
          /\ pairings = b.pairings /\ mishaps = b.mishaps
  BY DEF Init
<1>2. b \in [present : SUBSET Sessions, changes : Nat, events : Nat, pairings : Nat, mishaps : Nat]
  BY PublicationAssumption DEF Sessions
<1>3. present \in SUBSET Sessions /\ {events, pairings, changes, mishaps} \subseteq Nat
  BY <1>1, <1>2
<1>4. content \in [Sessions -> Contents]
  BY PublicationAssumption DEF Init
<1>5. rev \in [Sessions -> Nat] /\ recips \in Nat /\ relayRecips \in Nat /\ fails \in 0..2 /\ offline \in BOOLEAN
  <2>1. rev = [s \in Sessions |-> 0] /\ recips = 0 /\ relayRecips = 1 /\ fails = 0 /\ offline = FALSE
    BY DEF Init
  <2>2. 0 \in 0..2 /\ 0 \in Nat /\ 1 \in Nat
    OBVIOUS
  <2>3. rev \in [Sessions -> Nat]
    BY <2>1
  <2>4. offline \in BOOLEAN
    BY <2>1, Zenon
  <2> QED BY <2>1, <2>2, <2>3, <2>4, Zenon
<1>6. inflight \in [Sessions -> Uploads] /\ pass \in Passes
  BY Blank DEF Init
<1>7. manifest \in [alloc : Nat, acc : Nat, view : Views, recips : Nat]
  BY Blank DEF Init
<1>8. queue \in Seq(QueuedEvents) /\ dead \in SUBSET QueuedEvents /\ log \in [Sessions -> Seq(Uploads)]
  BY DEF Init
<1>9. relayManifest \in [rev : Nat, recips : Nat, refs : References]
  <2>1. PICK r \in RelayAhead : relayManifest = [rev |-> r, recips |-> 0, refs |-> NoRefs]
    BY DEF Init
  <2>2. r \in Nat
    BY PublicationAssumption
  <2> QED BY <2>1, <2>2, Blank
<1> QED BY <1>3, <1>4, <1>5, <1>6, <1>7, <1>8, <1>9 DEF TypeOK

\* The invariant holds at the start.
LEMMA InitSound == ASSUME Init PROVE IInv
<1>1. /\ rev = [s \in Sessions |-> 0] /\ inflight = [s \in Sessions |-> NoUpload] /\ queue = <<>> /\ dead = {}
      /\ log = [s \in Sessions |-> <<>>] /\ pass = Idle
  BY DEF Init
<1>2. \A s \in Sessions : rev[s] = 0 /\ inflight[s] = NoUpload /\ log[s] = <<>>
  BY <1>1
<1>3. Len(queue) = 0 /\ \A s \in Sessions : Len(log[s]) = 0
  BY <1>1, <1>2
<1>4. LogInv /\ RevInv /\ InflightInv /\ OnceInv
  BY <1>2, <1>3 DEF LogInv, RevInv, InflightInv, OnceInv
<1>5. HeadInv /\ StoredInv /\ OpenInv
  BY <1>2, <1>3 DEF HeadInv, StoredInv, OpenInv
<1>6. IdsInv
  BY <1>1, <1>2, <1>3 DEF IdsInv
<1>7. pass.pc = "idle"
  BY <1>1 DEF Idle
<1>8. StageInv /\ RefsInv
  BY <1>7 DEF StageInv, RefsInv
<1>9. PICK r \in RelayAhead : relayManifest = [rev |-> r, recips |-> 0, refs |-> NoRefs]
  BY DEF Init
<1>10. r \in Nat
  BY PublicationAssumption
<1>11. manifest.acc = 0 /\ relayManifest.rev = r /\ Referred(relayManifest.refs) = {}
  BY <1>9 DEF Init, Referred, NoRefs
<1>12. ManifestInv
  BY <1>10, <1>11 DEF ManifestInv
<1>13. ManifestsAreSound
  BY <1>11 DEF ManifestsAreSound, ManifestIsCovered, ManifestIsOneMoment
<1> QED BY <1>4, <1>5, <1>6, <1>8, <1>12, <1>13 DEF IInv, CoreInv

\* The type invariant and the inductive invariant hold for every number of sessions and
\* contents, and every course of changes, lost requests and crashes.
THEOREM PublicationInvariance == Spec => [](TypeOK /\ IInv)
<1>1. Init => TypeOK /\ IInv
  BY InitTypes, InitSound
<1>2. TypeOK /\ IInv /\ [Next]_vars => TypeOK' /\ IInv'
  <2> SUFFICES ASSUME TypeOK, IInv, [Next]_vars PROVE TypeOK' /\ IInv'
    OBVIOUS
  <2>1. CoreInv /\ PassInv /\ ManifestInv /\ ManifestsAreSound
    BY DEF IInv, PassInv
  <2>2. TypeOK'
    BY <2>1, TypesPreserved
  <2>3. CoreInv'
    BY <2>1, StepSound, TypesAreCore, CoreKept DEF Sound
  <2>4. PassInv'
    BY <2>1, StepSound DEF Sound
  <2>5. ManifestInv' /\ ManifestsAreSound'
    BY <2>1, ManifestInvPreserved, ManifestsStaySound
  <2> QED BY <2>2, <2>3, <2>4, <2>5 DEF IInv, PassInv
<1> QED BY <1>1, <1>2, PTL DEF Spec

\* Every variable keeps its shape.
THEOREM PublicationTypeCorrectness == Spec => []TypeOK
  BY PublicationInvariance, PTL

\* What the invariant says of the uploads is that the evidence is kept.
LEMMA OpenIsEvidence == ASSUME TypeOK, CoreInv PROVE EvidenceIsKept
<1>1. CoreTypes /\ RevInv /\ OpenInv
  BY TypesAreCore DEF CoreInv
<1> SUFFICES ASSUME NEW s \in Sessions
             PROVE  /\ Len(log[s]) <= rev[s] + 1
                    /\ Len(log[s]) = rev[s] + 1 => Last(log[s]) \in Evidence(s)
  BY DEF EvidenceIsKept
<1>2. Len(log[s]) <= rev[s] + 1
  BY <1>1 DEF RevInv
<1>3. ASSUME Len(log[s]) = rev[s] + 1 PROVE Last(log[s]) \in Evidence(s)
  <2>1. Last(log[s]) = log[s][rev[s] + 1]
    BY <1>3 DEF Last
  <2>2. \/ inflight[s] = log[s][rev[s] + 1]
        \/ \E i \in 1..Len(queue) : queue[i].session = s /\ queue[i].upload = log[s][rev[s] + 1]
    BY <1>1, <1>3 DEF OpenInv
  <2>3. DOMAIN queue = 1..Len(queue)
    BY <1>1 DEF CoreTypes
  <2> QED BY <2>1, <2>2, <2>3 DEF Evidence
<1> QED BY <1>2, <1>3

\* Whatever the Relay holds beyond the committed revision is one upload, of which the Bridge
\* keeps the evidence: its revision never goes to other bytes while its fate is open.
THEOREM TheEvidenceIsKept == Spec => []EvidenceIsKept
<1>1. TypeOK /\ IInv => EvidenceIsKept
  BY OpenIsEvidence DEF IInv
<1> QED BY <1>1, PublicationInvariance, PTL

\* A manifest at the Relay refers only to uploads that are there, encrypted for its recipients,
\* with the content of one moment, whenever the recipients changed during the pass.
THEOREM TheManifestsAreSound == Spec => []ManifestsAreSound
<1>1. TypeOK /\ IInv => ManifestsAreSound
  BY DEF IInv
<1> QED BY <1>1, PublicationInvariance, PTL

\* What the invariant says of the logs is that no Event is stored twice.
LEMMA OnceIsOnce == ASSUME TypeOK, CoreInv PROVE EventsAreStoredOnce
<1>1. CoreTypes /\ OnceInv /\ StoredInv
  BY TypesAreCore DEF CoreInv
<1>2. \A s \in Sessions : DOMAIN log[s] = 1..Len(log[s])
  BY <1>1 DEF CoreTypes
<1> DEFINE places == Sessions \X (1..Max({Len(log[t]) : t \in Sessions} \cup {0}))
<1> DEFINE at(id) == {p \in places : p[2] \in DOMAIN log[p[1]] /\ log[p[1]][p[2]].event = id}
<1>3. ASSUME NEW id, id # 0 PROVE Cardinality(at(id)) <= 1
  <2>1. \A p, q \in at(id) : p = q
    <3> SUFFICES ASSUME NEW p \in at(id), NEW q \in at(id) PROVE p = q
      OBVIOUS
    <3>1. p = <<p[1], p[2]>> /\ q = <<q[1], q[2]>> /\ p[1] \in Sessions /\ q[1] \in Sessions
      OBVIOUS
    <3>2. p[2] \in 1..Len(log[p[1]]) /\ q[2] \in 1..Len(log[q[1]])
      BY <1>2, <3>1
    <3>3. log[p[1]][p[2]].event = id /\ log[q[1]][q[2]].event = id
      OBVIOUS
    <3>4. p[1] = q[1] /\ p[2] = q[2]
      BY <1>1, <1>3, <3>1, <3>2, <3>3 DEF OnceInv
    <3> QED BY <3>1, <3>4
  <2> HIDE DEF at
  <2>2. CASE at(id) = {}
    BY <2>2, FS_EmptySet
  <2>3. CASE at(id) # {}
    <3>1. PICK p : p \in at(id)
      BY <2>3
    <3>2. at(id) = {p}
      BY <2>1, <3>1
    <3>3. Cardinality({p}) = 1
      BY FS_Singleton
    <3> QED BY <3>2, <3>3
  <2> QED BY <2>2, <2>3
<1>4. ASSUME NEW e \in dead PROVE at(e.id) = {}
  BY <1>1, <1>2 DEF StoredInv
<1> QED BY <1>3, <1>4 DEF EventsAreStoredOnce

\* No Event is stored at the Relay twice, and none that the Bridge has given up.
THEOREM TheEventsAreStoredOnce == Spec => []EventsAreStoredOnce
<1>1. TypeOK /\ IInv => EventsAreStoredOnce
  BY OnceIsOnce DEF IInv
<1> QED BY <1>1, PublicationInvariance, PTL
=============================================================================
