------------------------- MODULE LinkKeyringProofs -------------------------
(***************************************************************************)
(* That the keyring stays sound and a revocation is final, for any number  *)
(* of Watches, generations, epochs and faults.                             *)
(*                                                                         *)
(* The argument: only pairing brings a new link, and only the newest one   *)
(* of its Watch, so that a link that is no longer live at the Relay never  *)
(* becomes live again; and whoever writes the file holds the lock and has  *)
(* loaded it under the lock, except the daemon, which remembers what it    *)
(* loses.                                                                  *)
(***************************************************************************)
EXTENDS LinkKeyring, TLAPS

\* The links a keyring has for use or has staged, and those it has revoked.
Held(k)    == With(k, "active") \cup k.pending
Revoked(k) == With(k, "revoked")

RelayStates == {"none", "pending", "proved", "complete", "host", "watch"}
Entries == [active : Links \cup {None}, next : Links \cup {None}, g : Nat, e : Nat, state : RelayStates]

---------------------------------------------------------------------------
(* What the Relay knows of one Watch                                       *)

\* What the Relay has of a Watch is of its current generation, and the pending
\* link is the newest.
EntryOK(w, r) ==
  /\ r \in Entries
  /\ r.active # None => r.active.w = w /\ r.active.g = r.g /\ r.active.e <= r.e
  /\ r.next # None => r.next.w = w /\ r.next.g = r.g /\ r.next.e = r.e /\ r.next # r.active
  /\ r.next = None <=> r.state = "none"

\* The link is not newer than those the Relay has offered; the Relay has it;
\* it is pending at most half activated; the keyring must have it.
OfferedBy(l, r) == l.g < r.g \/ (l.g = r.g /\ l.e <= r.e)
LiveIn(l, r)    == r.next = l \/ (r.active = l /\ r.state # "host")
SettledIn(l, r) == r.next = l => r.state = "host"
OwedIn(l, r)    == \/ r.active = l /\ r.state \notin {"host", "watch"}
                   \/ r.next = l /\ r.state = "host"

\* The Host has activated the link, or its Watch has been removed; the generation
\* has been removed.
DoneIn(l, r) == r.active = l \/ (r.next = l /\ r.state = "host") \/ (r.active = None /\ r.next = None)
GoneIn(g, r) == g <= r.g /\ (r.g = g => r.active = None /\ r.next = None)

\* The steps of the Relay on one Watch: an offer, a removal, and the others.
OfferStep(w, r, s) ==
  /\ r.next = None /\ s.active = r.active /\ s.state = "pending"
  /\ IF r.active = None THEN s.g = r.g + 1 /\ s.e = 1 ELSE s.g = r.g /\ s.e = r.e + 1
  /\ s.next = [w |-> w, g |-> s.g, e |-> s.e] /\ s.next \in Links

RemoveStep(r, s) == s.g = r.g /\ s.e = r.e /\ s.active = None /\ s.next = None /\ s.state = "none"

BothStep(r, s) == s.active = r.next /\ s.next = None /\ s.state = "none"

LinkStep(r, s) ==
  /\ s.g = r.g /\ s.e = r.e
  /\ \/ /\ s.active = r.active /\ s.next = r.next
        /\ \/ r.state = "pending" /\ s.state = "proved"
           \/ r.state = "proved" /\ s.state = "complete"
           \/ r.state = "complete" /\ s.state = "watch"
     \/ r.state = "host" /\ BothStep(r, s)
     \/ r.state \in {"pending", "proved", "complete"} /\ s.active = r.active /\ s.next = None /\ s.state = "none"

\* The Host's activation of the pending link.
ActivateStep(r, s) ==
  /\ s.g = r.g /\ s.e = r.e
  /\ \/ /\ r.state \in {"complete", "host"} /\ s.active = r.active /\ s.next = r.next /\ s.state = "host"
     \/ r.state = "watch" /\ BothStep(r, s)

Moves(w, r, s) == OfferStep(w, r, s) \/ RemoveStep(r, s) \/ LinkStep(r, s) \/ ActivateStep(r, s)

\* An offer makes no link live but the one it offers.
LEMMA OfferMoves ==
    ASSUME NEW w \in Watches, NEW r, NEW s, EntryOK(w, r), s \in Entries, OfferStep(w, r, s)
    PROVE  /\ EntryOK(w, s)
           /\ \A l \in Links : l.w = w /\ OfferedBy(l, r) =>
                /\ OfferedBy(l, s) /\ (LiveIn(l, s) => LiveIn(l, r))
                /\ (SettledIn(l, r) => SettledIn(l, s))
           /\ \A l \in Links : OwedIn(l, s) => OwedIn(l, r)
           /\ \A g \in Nat : GoneIn(g, r) => GoneIn(g, s)
<1> USE NoneAssumption DEF NoneAssumption
<1>1. r.g \in Nat /\ r.e \in Nat /\ s.g \in Nat /\ s.e \in Nat /\ s.next \in Links
  BY DEF EntryOK, Entries, OfferStep
<1>2. EntryOK(w, s)
  BY <1>1 DEF EntryOK, Entries, OfferStep, Links
<1>3. ASSUME NEW l \in Links, l.w = w, OfferedBy(l, r)
      PROVE  /\ OfferedBy(l, s) /\ (LiveIn(l, s) => LiveIn(l, r))
             /\ (SettledIn(l, r) => SettledIn(l, s))
  <2>1. l.g \in Nat /\ l.e \in Nat
    BY BoundsAssumption DEF Links, BoundsAssumption
  <2>2. /\ s.next.g = s.g /\ s.next.e = s.e
        /\ (s.g = r.g + 1 /\ s.e = 1) \/ (s.g = r.g /\ s.e = r.e + 1)
    BY DEF OfferStep
  <2>3. OfferedBy(l, s) /\ s.next # l
    BY <1>1, <1>3, <2>1, <2>2 DEF OfferedBy
  <2> QED BY <2>3 DEF LiveIn, SettledIn, OfferStep, EntryOK
<1>4. ASSUME NEW l \in Links, OwedIn(l, s)
      PROVE  OwedIn(l, r)
  BY <1>4 DEF OwedIn, OfferStep, EntryOK
<1>5. ASSUME NEW g \in Nat, GoneIn(g, r)
      PROVE  GoneIn(g, s)
  BY <1>1, <1>5 DEF GoneIn, OfferStep
<1> QED BY <1>2, <1>3, <1>4, <1>5

\* Only an offer makes a link live.
LEMMA OtherMoves ==
    ASSUME NEW w \in Watches, NEW r, NEW s, EntryOK(w, r), s \in Entries,
           RemoveStep(r, s) \/ LinkStep(r, s) \/ ActivateStep(r, s)
    PROVE  /\ EntryOK(w, s)
           /\ s.g = r.g /\ s.e = r.e /\ s.next \in {None, r.next}
           /\ \A l \in Links :
                /\ LiveIn(l, s) => LiveIn(l, r)
                /\ SettledIn(l, r) => SettledIn(l, s)
                /\ r.next \in {None, l} /\ DoneIn(l, r) => DoneIn(l, s)
                /\ OwedIn(l, s) => OwedIn(l, r) \/ (LiveIn(l, r) /\ r.next = l)
                /\ RemoveStep(r, s) \/ LinkStep(r, s) => (OwedIn(l, s) => OwedIn(l, r))
           /\ \A g \in Nat : GoneIn(g, r) => GoneIn(g, s)
<1> USE NoneAssumption DEF NoneAssumption
<1>a. ASSUME NEW l \in Links, RemoveStep(r, s) \/ LinkStep(r, s), OwedIn(l, s)
      PROVE  OwedIn(l, r)
  BY <1>a DEF RemoveStep, LinkStep, BothStep, EntryOK, OwedIn
<1>1. CASE RemoveStep(r, s)
  BY <1>1 DEF RemoveStep, EntryOK, Entries, LiveIn, SettledIn, DoneIn, OwedIn, GoneIn
<1>2. CASE LinkStep(r, s)
  <2>1. EntryOK(w, s) /\ s.g = r.g /\ s.e = r.e /\ s.next \in {None, r.next}
    BY <1>2 DEF LinkStep, BothStep, EntryOK, Entries
  <2>2. ASSUME NEW l \in Links
        PROVE  /\ LiveIn(l, s) => LiveIn(l, r)
               /\ SettledIn(l, r) => SettledIn(l, s)
               /\ r.next \in {None, l} /\ DoneIn(l, r) => DoneIn(l, s)
               /\ OwedIn(l, s) => OwedIn(l, r)
    BY <1>2, <2>2 DEF LinkStep, BothStep, EntryOK, LiveIn, SettledIn, DoneIn, OwedIn
  <2>3. ASSUME NEW g \in Nat, GoneIn(g, r)
        PROVE  GoneIn(g, s)
    BY <1>2, <2>3 DEF LinkStep, BothStep, EntryOK, GoneIn
  <2> QED BY <2>1, <2>2, <2>3
<1>3. CASE ActivateStep(r, s)
  <2>1. EntryOK(w, s) /\ s.g = r.g /\ s.e = r.e /\ s.next \in {None, r.next}
    BY <1>3 DEF ActivateStep, BothStep, EntryOK, Entries
  <2>2. ASSUME NEW l \in Links
        PROVE  /\ LiveIn(l, s) => LiveIn(l, r)
               /\ SettledIn(l, r) => SettledIn(l, s)
               /\ r.next \in {None, l} /\ DoneIn(l, r) => DoneIn(l, s)
               /\ OwedIn(l, s) => OwedIn(l, r) \/ (LiveIn(l, r) /\ r.next = l)
    BY <1>3, <2>2 DEF ActivateStep, BothStep, EntryOK, LiveIn, SettledIn, DoneIn, OwedIn
  <2>3. ASSUME NEW g \in Nat, GoneIn(g, r)
        PROVE  GoneIn(g, s)
    BY <1>3, <2>3 DEF ActivateStep, BothStep, EntryOK, GoneIn
  <2> QED BY <1>a, <2>1, <2>2, <2>3
<1> QED BY <1>1, <1>2, <1>3

---------------------------------------------------------------------------
(* The inductive invariant                                                 *)

Offered(l) == OfferedBy(l, relay[l.w])
Live(l)    == LiveIn(l, relay[l.w])
Settled(l) == SettledIn(l, relay[l.w])

PairWrites   == pair.at \in {"stage-write", "persist-write"}
RemoveWrites == remove.at = "revoke-write"

\* Who writes the file holds the lock.
LockInv == (PairWrites <=> lock = "pair") /\ (RemoveWrites <=> lock = "remove")

RelayInv == \A w \in Watches : EntryOK(w, relay[w])

\* A confirmed link was offered, and is no newer than the newest of its Watch.
OfferedInv == \A l \in confirmed : Offered(l)

\* The staged activation from which pairing resumes.
Resumed(l) ==
  /\ pair.link = l /\ Live(l)
  /\ pair.at = "activate" \/ (pair.at = "prompt" /\ l \in pair.copy.pending)

\* The keyring has to have the link.
Owed(l) == OwedIn(l, relay[l.w]) \/ Resumed(l)

\* What is loaded, under the lock, for the next write.
Taken == (IF PairWrites THEN {pair.copy} ELSE {}) \cup (IF RemoveWrites THEN {remove.copy} ELSE {})
Keyrings == {file, Copy} \cup Taken

\* A keyring that load() accepts and that holds confirmed links only, activated at
\* the Relay; a pin it does not use any more is of no link that is live.
Sound(k) ==
  /\ k \in Keyring /\ Valid(k)
  /\ Pinned(k) \cup k.pending \subseteq confirmed
  /\ \A b \in Pinned(k) : Settled(b) /\ (k.pins[b] # "active" => ~Live(b))

KeyringsInv == \A k \in Keyrings : Sound(k)

\* A keyring has every link it has to have, or the link was lost.
Complete(k) == \A l \in Links : Owed(l) => l \in Held(k) \cup lost

HeldInv == \A k \in {file} \cup Taken : Complete(k)

\* A later keyring keeps the pins, the revocations and the live staged links of an
\* earlier one.
Follows(j, k) ==
  /\ Pinned(j) \subseteq Pinned(k) /\ Revoked(j) \subseteq Revoked(k)
  /\ \A l \in j.pending : Live(l) => l \in Held(k) \cup lost

\* The daemon's copy is older than the file, and both than what was loaded from it.
StaleInv == /\ \A j \in {Copy}, k \in {file} \cup Taken : Follows(j, k)
            /\ \A j \in {file}, k \in Taken : Follows(j, k)

\* While it is being paired a link is the newest of its Watch.
Newest(l) ==
  /\ l \in Links /\ l.g = relay[l.w].g /\ l.e = relay[l.w].e
  /\ relay[l.w].next \in {None, l}

PairInv == pair.at # "idle" =>
  /\ Newest(pair.link)
  /\ pair.at \notin {"prompt", "confirm"} => pair.link \in confirmed
  /\ pair.at = "prompt" => pair.copy \in Keyring /\ pair.copy.pending \subseteq confirmed
  /\ PairWrites => pair.copy \in Keyring
  /\ pair.at \in {"persist", "persist-write"} => DoneIn(pair.link, relay[pair.link.w])

\* A generation that the command has removed stays removed.
RemoveInv ==
  /\ remove.at # "idle" => remove.w \in Watches
  /\ remove.at \in {"revoke", "revoke-write"} => GoneIn(remove.g, relay[remove.w])
  /\ RemoveWrites => remove.copy \in Keyring

\* What the daemon is about to revoke is not live.
DaemonInv ==
  /\ daemon.at = "reconcile" => \A b \in Pinned(Copy) \ daemon.snapshot : ~Live(b)
  /\ daemon.at = "lock" =>
       /\ \A b \in daemon.known \ daemon.snapshot : ~Live(b)
       /\ daemon.base = Copy
       /\ daemon.known \subseteq confirmed
       /\ With(Copy, "active") \subseteq daemon.snapshot \cup daemon.known

KeyringInv == /\ TypeOK /\ LockInv /\ RelayInv /\ OfferedInv /\ KeyringsInv /\ HeldInv /\ StaleInv
              /\ PairInv /\ RemoveInv /\ DaemonInv

---------------------------------------------------------------------------
(* The steps of the Relay                                                  *)

RelaySteps ==
  \/ \E w \in Watches : WatchConfirms(w) \/ WatchActivates(w) \/ Expire(w) \/ PairWatch(w)
  \/ ConfirmLink \/ ActivateLink \/ RemoveWatch

\* The other steps leave the Relay alone.
OtherSteps ==
  \/ \E w \in Watches : ListWatches(w)
  \/ ConfirmMatch \/ LockForPair \/ StageActivation \/ PersistActive
  \/ LockForRemove \/ RevokeWatchGeneration
  \/ FetchSnapshot \/ ReconcileCopy \/ ReconcileFile \/ PruneRetiring
  \/ Fault

\* A step is one of those that may move the Relay, or leaves it alone.
LEMMA StepKinds == Next => RelaySteps \/ (OtherSteps /\ UNCHANGED relay)
  BY DEF Next, RelaySteps, OtherSteps, ListWatches, ConfirmMatch, LockForPair, StageActivation, PersistActive,
     LockForRemove, RevokeWatchGeneration, FetchSnapshot, ReconcileCopy, ReconcileFile, PruneRetiring, Fault

\* What each step of the Relay does to each Watch.
LEMMA RelayStep ==
    ASSUME TypeOK, RelayInv, PairInv, RelaySteps, NEW w \in Watches
    PROVE  /\ relay'[w] \in Entries
           /\ \/ relay'[w] = relay[w]
              \/ pair.at = "idle" /\ OfferStep(w, relay[w], relay'[w])
              \/ RemoveStep(relay[w], relay'[w]) \/ LinkStep(relay[w], relay'[w])
              \/ /\ pair.at = "activate" /\ relay[w].next = pair.link
                 /\ ActivateStep(relay[w], relay'[w])
<1> USE NoneAssumption DEF NoneAssumption
<1>t. relay \in [Watches -> Entries] /\ \A v \in Watches : EntryOK(v, relay[v])
  BY DEF TypeOK, RelayInv, Entries, RelayStates
<1>b. ASSUME NEW v \in Watches
      PROVE  BothActive(v) \in Entries /\ BothStep(relay[v], BothActive(v))
                /\ BothActive(v).g = relay[v].g /\ BothActive(v).e = relay[v].e
  BY <1>t, <1>b DEF BothActive, BothStep, Entries, RelayStates
<1>1. ASSUME NEW v \in Watches, WatchConfirms(v) PROVE relay'[w] \in Entries /\ (relay'[w] = relay[w] \/ LinkStep(relay[w], relay'[w]))
  BY <1>1, <1>t DEF WatchConfirms, LinkStep, Entries, RelayStates
<1>2. ASSUME NEW v \in Watches, WatchActivates(v) PROVE relay'[w] \in Entries /\ (relay'[w] = relay[w] \/ LinkStep(relay[w], relay'[w]))
  <2>1. CASE relay[v].state = "host" /\ relay' = [relay EXCEPT ![v] = BothActive(v)]
    BY <1>b, <1>t, <2>1 DEF LinkStep, BothStep
  <2>2. CASE relay[v].state = "complete" /\ relay' = [relay EXCEPT ![v] = [relay[v] EXCEPT !.state = "watch"]]
    BY <1>t, <2>2 DEF LinkStep, Entries, RelayStates
  <2> QED BY <1>2, <1>t, <2>1, <2>2 DEF WatchActivates
<1>3. ASSUME NEW v \in Watches, Expire(v) PROVE relay'[w] \in Entries /\ (relay'[w] = relay[w] \/ LinkStep(relay[w], relay'[w]))
  BY <1>3, <1>t DEF Expire, LinkStep, Entries, RelayStates
<1>4. ASSUME NEW v \in Watches, PairWatch(v)
      PROVE  relay'[w] \in Entries /\ (relay'[w] = relay[w] \/ (pair.at = "idle" /\ OfferStep(w, relay[w], relay'[w])))
  <2>1. PICK offer \in Offers(v) : offer.next \in Links /\ relay' = [relay EXCEPT ![v] = offer]
    BY <1>4 DEF PairWatch
  <2>2. CASE w # v
    BY <1>t, <2>1, <2>2
  <2>3. CASE w = v /\ relay[v].next # None
    BY <1>t, <2>1, <2>3 DEF Offers
  <2>4. CASE w = v /\ relay[v].next = None
    <3>1. PICK t \in (IF relay[v].active = None THEN {<<relay[v].g + 1, 1>>} ELSE {<<relay[v].g, relay[v].e + 1>>}) :
            offer = [relay[v] EXCEPT !.next = [w |-> v, g |-> t[1], e |-> t[2]], !.g = t[1], !.e = t[2], !.state = "pending"]
      BY <2>1, <2>4 DEF Offers
    <3>2. t[1] \in Nat /\ t[2] \in Nat
      BY <1>t, <3>1 DEF Entries
    <3>3. /\ offer.active = relay[v].active /\ offer.state = "pending" /\ offer.g = t[1] /\ offer.e = t[2]
          /\ offer.next = [w |-> v, g |-> t[1], e |-> t[2]] /\ offer \in Entries
      BY <1>t, <2>1, <3>1, <3>2 DEF Entries, RelayStates
    <3>4. IF relay[v].active = None THEN t[1] = relay[v].g + 1 /\ t[2] = 1 ELSE t[1] = relay[v].g /\ t[2] = relay[v].e + 1
      BY <3>1
    <3>5. relay'[w] = offer /\ pair.at = "idle"
      BY <1>4, <1>t, <2>1, <2>4 DEF PairWatch
    <3> QED BY <2>1, <2>4, <3>3, <3>4, <3>5 DEF OfferStep
  <2> QED BY <2>2, <2>3, <2>4
<1>5. ASSUME ConfirmLink PROVE relay'[w] \in Entries /\ (relay'[w] = relay[w] \/ LinkStep(relay[w], relay'[w]))
  BY <1>5, <1>t DEF ConfirmLink, LinkStep, Entries, RelayStates
<1>6. ASSUME ActivateLink
      PROVE  /\ relay'[w] \in Entries
             /\ \/ relay'[w] = relay[w]
                \/ pair.at = "activate" /\ relay[w].next = pair.link /\ ActivateStep(relay[w], relay'[w])
  <2>1. pair.link \in Links /\ pair.link.w \in Watches
    BY <1>6 DEF ActivateLink, PairInv, Newest, Links
  <2>2. CASE relay' = relay
    BY <1>t, <2>2
  <2>3. CASE /\ relay[pair.link.w].next = pair.link /\ relay[pair.link.w].state \in {"complete", "host", "watch"}
             /\ relay' = [relay EXCEPT ![pair.link.w] = IF relay[pair.link.w].state = "watch" THEN BothActive(pair.link.w)
                                                        ELSE [relay[pair.link.w] EXCEPT !.state = "host"]]
    <3>1. pair.at = "activate"
      BY <1>6 DEF ActivateLink
    <3>2. CASE w # pair.link.w
      BY <1>t, <2>1, <2>3, <3>2
    <3>3. CASE w = pair.link.w /\ relay[w].state = "watch"
      BY <1>b, <1>t, <2>1, <2>3, <3>1, <3>3 DEF ActivateStep
    <3>4. CASE w = pair.link.w /\ relay[w].state # "watch"
      <4>1. relay'[w] = [relay[w] EXCEPT !.state = "host"]
        BY <1>t, <2>1, <2>3, <3>4
      <4> QED BY <1>t, <2>3, <3>1, <3>4, <4>1 DEF ActivateStep, Entries, RelayStates
    <3> QED BY <3>2, <3>3, <3>4
  <2> QED BY <1>6, <1>t, <2>2, <2>3 DEF ActivateLink
<1>7. ASSUME RemoveWatch PROVE relay'[w] \in Entries /\ (relay'[w] = relay[w] \/ RemoveStep(relay[w], relay'[w]))
  <2>1. CASE relay' = relay
    BY <1>t, <2>1
  <2>2. CASE /\ relay[remove.w].g = remove.g
             /\ relay' = [relay EXCEPT ![remove.w] = [NoLink EXCEPT !.g = remove.g, !.e = relay[remove.w].e]]
    <3>1. CASE w # remove.w
      BY <1>t, <2>2, <3>1
    <3>2. CASE w = remove.w
      <4>1. relay'[w] = [active |-> None, next |-> None, state |-> "none", g |-> relay[w].g, e |-> relay[w].e]
        BY <1>t, <2>2, <3>2 DEF NoLink
      <4> QED BY <1>t, <4>1 DEF RemoveStep, Entries, RelayStates
    <3> QED BY <3>1, <3>2
  <2> QED BY <1>7, <2>1, <2>2 DEF RemoveWatch
<1> QED BY <1>1, <1>2, <1>3, <1>4, <1>5, <1>6, <1>7 DEF RelaySteps

\* No step makes a link live again, or unsettles it.
LEMMA LinkStays ==
    ASSUME TypeOK, RelayInv, PairInv, Next, NEW l \in Links, Offered(l)
    PROVE  Offered(l)' /\ (Live(l)' => Live(l)) /\ (Settled(l) => Settled(l)')
<1> DEFINE w == l.w
<1>1. w \in Watches /\ EntryOK(w, relay[w])
  BY DEF Links, RelayInv
<1>2. CASE relay'[w] = relay[w]
  BY <1>2 DEF Offered, Live, Settled
<1>3. CASE RelaySteps
  <2>1. relay'[w] \in Entries
    BY <1>1, <1>3, RelayStep
  <2>2. CASE OfferStep(w, relay[w], relay'[w])
    BY <1>1, <2>1, <2>2, OfferMoves DEF Offered, Live, Settled
  <2>3. CASE RemoveStep(relay[w], relay'[w]) \/ LinkStep(relay[w], relay'[w]) \/ ActivateStep(relay[w], relay'[w])
    BY <1>1, <2>1, <2>3, OtherMoves DEF Offered, OfferedBy, Live, Settled
  <2> QED BY <1>1, <1>2, <1>3, <2>2, <2>3, RelayStep
<1> QED BY <1>2, <1>3, StepKinds

\* The Relay names only what the keyring had to have before the step.
LEMMA OwedStays ==
    ASSUME TypeOK, RelayInv, PairInv, Next, NEW l \in Links, OwedIn(l, relay'[l.w])
    PROVE  Owed(l)
<1> DEFINE w == l.w
<1>1. w \in Watches /\ EntryOK(w, relay[w])
  BY DEF Links, RelayInv
<1>2. CASE relay'[w] = relay[w]
  BY <1>2 DEF Owed
<1>3. CASE RelaySteps
  <2>1. relay'[w] \in Entries
    BY <1>1, <1>3, RelayStep
  <2>2. CASE OfferStep(w, relay[w], relay'[w])
    BY <1>1, <2>1, <2>2, OfferMoves DEF Owed
  <2>3. CASE RemoveStep(relay[w], relay'[w]) \/ LinkStep(relay[w], relay'[w])
    BY <1>1, <2>1, <2>3, OtherMoves DEF Owed
  <2>4. CASE pair.at = "activate" /\ relay[w].next = pair.link /\ ActivateStep(relay[w], relay'[w])
    BY <1>1, <2>1, <2>4, OtherMoves DEF Owed, Resumed, Live
  <2> QED BY <1>1, <1>2, <1>3, <2>2, <2>3, <2>4, RelayStep
<1> QED BY <1>2, <1>3, StepKinds

\* The entries of the Relay keep their shape and stay consistent.
LEMMA RelayStays ==
    ASSUME TypeOK, RelayInv, PairInv, Next
    PROVE  relay' \in [Watches -> Entries] /\ RelayInv'
<1>t. relay \in [Watches -> Entries]
  BY DEF TypeOK, Entries, RelayStates
<1>1. CASE relay' = relay
  BY <1>1, <1>t DEF RelayInv
<1>2. CASE RelaySteps
  <2>1. relay' = [w \in Watches |-> relay'[w]]
    <3>1. ASSUME NEW w \in Watches, WatchConfirms(w) \/ WatchActivates(w) \/ Expire(w) \/ PairWatch(w)
          PROVE  relay' = [v \in Watches |-> relay'[v]]
      BY <3>1, <1>t DEF WatchConfirms, WatchActivates, Expire, PairWatch
    <3>2. CASE ConfirmLink
      BY <3>2, <1>t DEF ConfirmLink
    <3>3. CASE ActivateLink
      BY <3>3, <1>t DEF ActivateLink
    <3>4. CASE RemoveWatch
      BY <3>4, <1>t DEF RemoveWatch
    <3> QED BY <1>2, <3>1, <3>2, <3>3, <3>4 DEF RelaySteps
  <2>2. ASSUME NEW w \in Watches
        PROVE  relay'[w] \in Entries /\ EntryOK(w, relay'[w])
    <3>1. EntryOK(w, relay[w]) /\ relay'[w] \in Entries
      BY <1>2, RelayStep DEF RelayInv
    <3> QED BY <1>2, <3>1, RelayStep, OfferMoves, OtherMoves
  <2> QED BY <2>1, <2>2 DEF RelayInv
<1> QED BY <1>1, <1>2, StepKinds

\* While a link is paired nothing newer of its Watch is offered, and an activation
\* stays done until it is removed.
LEMMA PairedStays ==
    ASSUME TypeOK, RelayInv, PairInv, Next, pair.at # "idle", NEW l \in Links, l = pair.link
    PROVE  Newest(l)' /\ (DoneIn(l, relay[l.w]) => DoneIn(l, relay'[l.w]))
<1>1. l.w \in Watches /\ EntryOK(l.w, relay[l.w]) /\ Newest(l)
  BY DEF Links, RelayInv, PairInv
<1>2. CASE relay' = relay
  BY <1>1, <1>2 DEF Newest
<1>3. CASE RelaySteps
  BY <1>1, <1>3, RelayStep, OtherMoves DEF Newest
<1> QED BY <1>2, <1>3, StepKinds

\* A generation that was removed stays removed.
LEMMA GoneStays ==
    ASSUME TypeOK, RelayInv, PairInv, Next, NEW w \in Watches, NEW g \in Nat, GoneIn(g, relay[w])
    PROVE  GoneIn(g, relay'[w])
<1>1. EntryOK(w, relay[w])
  BY DEF RelayInv
<1>2. CASE relay' = relay
  BY <1>2
<1>3. CASE RelaySteps
  BY <1>1, <1>3, RelayStep, OfferMoves, OtherMoves
<1> QED BY <1>2, <1>3, StepKinds

---------------------------------------------------------------------------
(* The changes of a keyring                                                *)

\* A keyring is the record of its two fields.
LEMMA Remade == ASSUME NEW k \in Keyring PROVE [pins |-> k.pins, pending |-> k.pending] = k
  BY DEF Keyring

\* A keyring that has fewer pins, active pins and staged activations stays valid.
LEMMA FewerIsValid ==
    ASSUME NEW k \in Keyring, NEW n \in Keyring, Valid(k), Pinned(n) \subseteq Pinned(k),
           With(n, "active") \subseteq With(k, "active"), n.pending \subseteq k.pending
    PROVE  Valid(n)
<1>1. ASSUME NEW a \in With(n, "active"), NEW b \in Pinned(n), a # b, a.w = b.w PROVE Later(a, b)
  BY <1>1 DEF Valid
<1>2. ASSUME NEW p \in n.pending
      PROVE  /\ p \notin Pinned(n)
             /\ \A q \in n.pending : p # q => p.w # q.w
             /\ \A b \in Pinned(n) : b.w = p.w => Later(p, b)
  BY <1>2 DEF Valid
<1> QED BY <1>1, <1>2 DEF Valid

\* What staging does to a keyring.
LEMMA StagedFacts ==
    ASSUME NEW k \in Keyring, NEW l \in Links
    PROVE  /\ Staged(k, l) \in Keyring
           /\ Staged(k, l).pins = k.pins /\ Staged(k, l).pending = k.pending \cup {l}
           /\ Pinned(Staged(k, l)) = Pinned(k) /\ Revoked(Staged(k, l)) = Revoked(k)
           /\ Held(Staged(k, l)) = Held(k) \cup {l}
<1>1. /\ Staged(k, l).pins = k.pins /\ Staged(k, l).pending = k.pending \cup {l}
      /\ Staged(k, l) = [pins |-> k.pins, pending |-> k.pending \cup {l}]
  BY DEF Staged, Keyring
<1> QED BY <1>1 DEF Keyring, Pinned, Revoked, Held, With

\* What an activation does: one active pin, its predecessor retires.
LEMMA ActivatedFacts ==
    ASSUME NEW k \in Keyring, NEW l \in Links, ~ActivationRejected(k, l)
    PROVE  LET n == Activated(k, l) IN
           /\ n \in Keyring /\ n.pending = k.pending \ {l}
           /\ n.pins[l] = "active"
           /\ \A b \in Links : b # l => n.pins[b] = k.pins[b] \/ (b.w = l.w /\ k.pins[b] = "active" /\ n.pins[b] = "retiring")
           /\ Pinned(n) = Pinned(k) \cup {l} /\ Revoked(k) \subseteq Revoked(n)
           /\ \A b \in Held(k) : b.w # l.w \/ b = l => b \in Held(n)
<1> USE NoneAssumption DEF NoneAssumption, Statuses
<1> DEFINE n == Activated(k, l)
<1>1. /\ n.pending = k.pending \ {l}
      /\ n.pins = [b \in Links |-> IF b = l THEN "active"
                                   ELSE IF b.w = l.w /\ k.pins[b] = "active" THEN "retiring" ELSE k.pins[b]]
  BY DEF Activated
<1>2. k.pins \in [Links -> Statuses \cup {None}] /\ k.pending \subseteq Links
  BY DEF Keyring
<1>3. n.pins \in [Links -> Statuses \cup {None}]
  BY <1>1, <1>2
<1>4. n \in Keyring
  BY <1>1, <1>2, <1>3 DEF Activated, Keyring
<1>5. k.pins[l] # "revoked"
  BY DEF ActivationRejected
<1> QED BY <1>1, <1>2, <1>4, <1>5 DEF Pinned, Revoked, Held, With

\* What the revocation of a generation does: it touches that generation only.
LEMMA RevokedFacts ==
    ASSUME NEW k \in Keyring, NEW w, NEW g
    PROVE  LET n == GenerationRevoked(k, w, g) IN
           /\ n \in Keyring /\ n.pending \subseteq k.pending
           /\ \A b \in Links : ~(b.w = w /\ b.g = g) => n.pins[b] = k.pins[b]
           /\ With(n, "active") \subseteq With(k, "active")
           /\ Pinned(n) = Pinned(k) /\ Revoked(k) \subseteq Revoked(n)
           /\ \A b \in Held(k) : ~(b.w = w /\ b.g = g) => b \in Held(n)
<1> USE NoneAssumption DEF NoneAssumption, Statuses
<1> DEFINE n == GenerationRevoked(k, w, g)
<1>1. /\ n.pending = {p \in k.pending : p.w # w \/ p.g # g}
      /\ n.pins = [b \in Links |-> IF b.w = w /\ b.g = g /\ k.pins[b] # None THEN "revoked" ELSE k.pins[b]]
  BY DEF GenerationRevoked
<1>2. k.pins \in [Links -> Statuses \cup {None}] /\ k.pending \subseteq Links
  BY DEF Keyring
<1>3. n.pins \in [Links -> Statuses \cup {None}]
  BY <1>1, <1>2
<1>4. n \in Keyring
  BY <1>1, <1>2, <1>3 DEF GenerationRevoked, Keyring
<1> QED BY <1>1, <1>2, <1>4 DEF Pinned, Revoked, Held, With

\* What a reconciliation does: it revokes pins, of links outside the snapshot.
LEMMA ReconciledFacts ==
    ASSUME NEW k \in Keyring, NEW snapshot
    PROVE  LET n == Reconciled(k, snapshot) IN
           /\ n \in Keyring /\ n.pending = k.pending
           /\ \A b \in Links : n.pins[b] = k.pins[b] \/ (b \notin snapshot /\ n.pins[b] = "revoked" /\ k.pins[b] # None)
           /\ With(n, "active") \subseteq With(k, "active")
           /\ Pinned(n) = Pinned(k) /\ Revoked(k) \subseteq Revoked(n)
           /\ \A b \in Held(k) : b \in snapshot => b \in Held(n)
<1> USE NoneAssumption DEF NoneAssumption, Statuses
<1> DEFINE n == Reconciled(k, snapshot)
<1>1. /\ n.pending = k.pending
      /\ n.pins = [b \in Links |->
           IF k.pins[b] \in {None, "revoked"} \/ b \in snapshot THEN k.pins[b]
           ELSE IF k.pins[b] = "retiring" /\ \E s \in snapshot : s.w = b.w /\ Later(s, b) THEN "retiring"
           ELSE "revoked"]
      /\ n = [pins |-> n.pins, pending |-> k.pending]
  BY DEF Reconciled, Keyring
<1>2. k.pins \in [Links -> Statuses \cup {None}] /\ k.pending \subseteq Links
  BY DEF Keyring
<1>3. n.pins \in [Links -> Statuses \cup {None}]
  BY <1>1, <1>2
<1>4. n \in Keyring
  BY <1>1, <1>2, <1>3 DEF Keyring
<1>5. \A b \in Links : n.pins[b] = k.pins[b] \/ (b \notin snapshot /\ n.pins[b] = "revoked" /\ k.pins[b] # None)
  BY <1>1
<1> QED BY <1>1, <1>2, <1>4, <1>5 DEF Pinned, Revoked, Held, With

\* pruneRetiring
Pruned(k, removed) == [k EXCEPT !.pins = [b \in Links |-> IF b \in removed THEN None ELSE @[b]]]

\* What pruning does: it forgets pins that are not active.
LEMMA PrunedFacts ==
    ASSUME NEW k \in Keyring, NEW removed \in SUBSET (Pinned(k) \ With(k, "active"))
    PROVE  LET n == Pruned(k, removed) IN
           /\ n \in Keyring /\ n.pending = k.pending
           /\ \A b \in Links : n.pins[b] \in {k.pins[b], None}
           /\ With(n, "active") = With(k, "active") /\ Held(n) = Held(k)
           /\ Pinned(n) \subseteq Pinned(k) /\ Revoked(n) \subseteq Revoked(k)
           /\ removed = {} => n = k
<1> USE NoneAssumption DEF NoneAssumption, Statuses
<1> DEFINE n == Pruned(k, removed)
<1>1. /\ n.pending = k.pending
      /\ n.pins = [b \in Links |-> IF b \in removed THEN None ELSE k.pins[b]]
      /\ n = [pins |-> n.pins, pending |-> k.pending]
  BY DEF Pruned, Keyring
<1>2. k.pins \in [Links -> Statuses \cup {None}] /\ k.pending \subseteq Links
  BY DEF Keyring
<1>3. n.pins \in [Links -> Statuses \cup {None}]
  BY <1>1, <1>2
<1>4. n \in Keyring
  BY <1>1, <1>2, <1>3 DEF Keyring
<1>5. ASSUME removed = {} PROVE n = k
  <2>1. n.pins = k.pins
    BY <1>1, <1>2, <1>5
  <2> QED BY <1>1, <2>1, Remade
<1> QED BY <1>1, <1>2, <1>4, <1>5 DEF Pinned, Revoked, Held, With

---------------------------------------------------------------------------
(* The steps of the two commands                                           *)

PairSteps == {"idle", "prompt", "confirm", "stage", "stage-write", "activate", "persist", "persist-write"}
Pairings == [at : PairSteps, link : Links \cup {None}, copy : Keyring \cup {None},
             error : {"none", "locked", "refused", "relay"}]

\* The command goes on with its link, or it ends.
Paired(from, to) == pair.at = from /\ pair'.at = to /\ pair'.link = pair.link
PairEnds == pair'.at = "idle" /\ lock' = (IF lock = "pair" THEN None ELSE lock)

PairActions ==
  \/ \E w \in Watches : PairWatch(w)
  \/ ConfirmMatch \/ ConfirmLink \/ LockForPair \/ StageActivation \/ ActivateLink \/ PersistActive
  \/ Fault /\ PairEnds /\ file' = file

RemovalSteps == {"idle", "unlink", "revoke", "revoke-write"}
Removals == [at : RemovalSteps, w : Watches \cup {None}, g : Nat, copy : Keyring \cup {None}]

RemoveEnds == remove'.at = "idle" /\ lock' = (IF lock = "remove" THEN None ELSE lock)

RemoveActions ==
  \/ \E w \in Watches : ListWatches(w)
  \/ RemoveWatch \/ LockForRemove \/ RevokeWatchGeneration
  \/ Fault /\ RemoveEnds /\ file' = file

\* Every end of the pairing command frees its lock.
LEMMA PairEndings == ASSUME NEW error, EndPair(error) PROVE PairEnds
  BY DEF EndPair, Release, PairEnds

\* The steps of the pairing command, by where it stands before and after.
LEMMA PairStep ==
    ASSUME TypeOK, PairActions
    PROVE  \/ PairEnds /\ file' = file
           \/ PairEnds /\ PersistActive
           \/ \E w \in Watches : /\ PairWatch(w) /\ lock' = lock /\ pair.at = "idle"
                                 /\ pair'.at = "idle" \/ (pair'.at = "prompt" /\ pair'.copy = file)
           \/ /\ ConfirmMatch /\ lock' = lock
              /\ \/ Paired("prompt", "activate") /\ pair.link \in pair.copy.pending
                 \/ Paired("prompt", "confirm") /\ pair.link \notin pair.copy.pending
           \/ ConfirmLink /\ lock' = lock /\ Paired("confirm", "stage") /\ pair.link \in confirmed'
           \/ /\ LockForPair /\ lock = None /\ lock' = "pair" /\ pair'.copy = file
              /\ Paired("stage", "stage-write") \/ Paired("persist", "persist-write")
           \/ StageActivation /\ lock' = None /\ Paired("stage-write", "activate")
           \/ ActivateLink /\ lock' = lock /\ Paired("activate", "persist")
<1>t. pair \in Pairings
  BY DEF TypeOK, Pairings, PairSteps
<1>1. CASE ConfirmMatch
  <2>1. CASE \E error : EndPair(error)
    BY <1>1, <2>1, PairEndings DEF ConfirmMatch
  <2>2. CASE ~\E error : EndPair(error)
    <3>1. pair' = [pair EXCEPT !.at = IF pair.link \in pair.copy.pending THEN "activate" ELSE "confirm", !.copy = None]
          /\ pair.at = "prompt" /\ lock' = lock
      BY <1>1, <2>2 DEF ConfirmMatch
    <3>2. pair'.at = (IF pair.link \in pair.copy.pending THEN "activate" ELSE "confirm") /\ pair'.link = pair.link
      BY <1>t, <3>1 DEF Pairings
    <3> QED BY <1>1, <3>1, <3>2 DEF Paired
  <2> QED BY <2>1, <2>2
<1>2. CASE ConfirmLink
  <2>1. CASE \E error : EndPair(error)
    BY <1>2, <2>1, PairEndings DEF ConfirmLink
  <2>2. CASE pair' = [pair EXCEPT !.at = "stage"] /\ lock' = lock /\ pair.link \in confirmed'
    BY <1>t, <1>2, <2>2 DEF ConfirmLink, Pairings, Paired
  <2> QED BY <1>2, <2>1, <2>2 DEF ConfirmLink
<1>3. CASE LockForPair
  <2>1. CASE \E error : EndPair(error)
    BY <1>3, <2>1, PairEndings DEF LockForPair
  <2>2. CASE /\ lock = None /\ lock' = "pair"
             /\ pair' = [pair EXCEPT !.at = IF pair.at = "stage" THEN "stage-write" ELSE "persist-write", !.copy = file]
    <3>1. /\ pair'.at = (IF pair.at = "stage" THEN "stage-write" ELSE "persist-write")
          /\ pair'.link = pair.link /\ pair'.copy = file
      BY <1>t, <2>2 DEF Pairings
    <3> QED BY <1>3, <2>2, <3>1 DEF LockForPair, Paired
  <2> QED BY <1>3, <1>t, <2>1, <2>2 DEF LockForPair
<1>4. CASE StageActivation
  <2>1. CASE \E error : EndPair(error) /\ UNCHANGED file
    BY <2>1, PairEndings
  <2>2. CASE pair' = [pair EXCEPT !.at = "activate", !.copy = None] /\ lock' = None
    <3>1. pair'.at = "activate" /\ pair'.link = pair.link
      BY <1>t, <2>2 DEF Pairings
    <3> QED BY <1>4, <2>2, <3>1 DEF StageActivation, Paired
  <2> QED BY <1>4, <2>1, <2>2 DEF StageActivation
<1>5. CASE ActivateLink
  <2>1. CASE \E error : EndPair(error)
    BY <1>5, <2>1, PairEndings DEF ActivateLink
  <2>2. CASE pair' = [pair EXCEPT !.at = "persist"] /\ lock' = lock
    BY <1>t, <1>5, <2>2 DEF ActivateLink, Pairings, Paired
  <2> QED BY <1>5, <2>1, <2>2 DEF ActivateLink
<1>6. CASE PersistActive
  BY <1>6, PairEndings DEF PersistActive
<1>7. ASSUME NEW w \in Watches, PairWatch(w)
      PROVE  /\ lock' = lock /\ pair.at = "idle"
             /\ pair'.at = "idle" \/ (pair'.at = "prompt" /\ pair'.copy = file)
  BY <1>t, <1>7 DEF PairWatch, Pairings
<1> QED BY <1>1, <1>2, <1>3, <1>4, <1>5, <1>6, <1>7 DEF PairActions

\* The removal goes on with its generation, or it ends.
Removing(from, to) ==
  remove.at = from /\ remove'.at = to /\ remove'.w = remove.w /\ remove'.g = remove.g

\* The steps of the removing command, by where it stands before and after.
LEMMA RemovalStep ==
    ASSUME TypeOK, RemoveActions
    PROVE  \/ RemoveEnds /\ file' = file
           \/ RemoveEnds /\ RevokeWatchGeneration
           \/ lock' = lock /\ remove.at = "idle" /\ remove'.at = "unlink" /\ remove'.w \in Watches
           \/ /\ RemoveWatch /\ lock' = lock /\ Removing("unlink", "revoke")
              /\ relay[remove.w].g = remove.g
              /\ relay' = [relay EXCEPT ![remove.w] = [NoLink EXCEPT !.g = remove.g, !.e = relay[remove.w].e]]
           \/ LockForRemove /\ lock = None /\ lock' = "remove" /\ remove'.copy = file /\ Removing("revoke", "revoke-write")
<1>t. remove \in Removals
  BY DEF TypeOK, Removals, RemovalSteps
<1>e. EndRemove => RemoveEnds
  BY DEF EndRemove, Release, RemoveEnds
<1>1. ASSUME NEW w \in Watches, ListWatches(w)
      PROVE  lock' = lock /\ remove.at = "idle" /\ remove'.at = "unlink" /\ remove'.w \in Watches
  BY <1>1 DEF ListWatches
<1>2. CASE RemoveWatch
  <2>1. CASE remove' = [remove EXCEPT !.at = "revoke"] /\ lock' = lock
    <3>1. Removing("unlink", "revoke")
      BY <1>t, <1>2, <2>1 DEF RemoveWatch, Removals, Removing
    <3> QED BY <1>2, <1>e, <2>1, <3>1 DEF RemoveWatch
  <2> QED BY <1>2, <1>e, <2>1 DEF RemoveWatch
<1>3. CASE LockForRemove
  <2>1. CASE lock = None /\ lock' = "remove" /\ remove' = [remove EXCEPT !.at = "revoke-write", !.copy = file]
    <3>1. Removing("revoke", "revoke-write") /\ remove'.copy = file
      BY <1>t, <1>3, <2>1 DEF LockForRemove, Removals, Removing
    <3> QED BY <1>3, <2>1, <3>1
  <2> QED BY <1>3, <1>e, <2>1 DEF LockForRemove
<1>4. CASE RevokeWatchGeneration
  BY <1>4, <1>e DEF RevokeWatchGeneration
<1> QED BY <1>1, <1>2, <1>3, <1>4 DEF RemoveActions

\* A step is the pairing command's, the removing one's, or leaves both alone.
LEMMA Actors ==
    ASSUME Next
    PROVE  \/ PairActions /\ remove' = remove
           \/ RemoveActions /\ pair' = pair
           \/ UNCHANGED <<pair, remove, lock>> /\ (file' = file \/ daemon' # daemon)
<1>1. ASSUME NEW w \in Watches, WatchConfirms(w) \/ WatchActivates(w) \/ Expire(w)
      PROVE  UNCHANGED <<pair, remove, lock, file>>
  BY <1>1 DEF WatchConfirms, WatchActivates, Expire
<1>2. ASSUME NEW w \in Watches, PairWatch(w)
      PROVE  PairActions /\ remove' = remove
  BY <1>2 DEF PairWatch, PairActions
<1>3. CASE ConfirmMatch \/ ConfirmLink \/ LockForPair \/ StageActivation \/ ActivateLink \/ PersistActive
  BY <1>3 DEF ConfirmMatch, ConfirmLink, LockForPair, StageActivation, ActivateLink, PersistActive, PairActions
<1>4. ASSUME NEW w \in Watches, ListWatches(w)
      PROVE  RemoveActions /\ pair' = pair
  BY <1>4 DEF ListWatches, RemoveActions
<1>5. CASE RemoveWatch \/ LockForRemove \/ RevokeWatchGeneration
  BY <1>5 DEF RemoveWatch, LockForRemove, RevokeWatchGeneration, RemoveActions
<1>6. CASE FetchSnapshot \/ ReconcileCopy \/ ReconcileFile \/ PruneRetiring
  <2>1. daemon'.at # daemon.at \/ file' = file
    BY <1>6 DEF FetchSnapshot, ReconcileCopy, ReconcileFile, PruneRetiring, Holding
  <2> QED BY <1>6, <2>1 DEF FetchSnapshot, ReconcileCopy, ReconcileFile, PruneRetiring
<1>7. CASE Fault
  BY <1>7, PairEndings DEF Fault, EndRemove, Release, RemoveEnds, PairActions, RemoveActions
<1> QED BY <1>1, <1>2, <1>3, <1>4, <1>5, <1>6, <1>7 DEF Next

\* Who writes the file holds the lock, after every step.
LEMMA LockStays ==
    ASSUME TypeOK, LockInv, Next
    PROVE  LockInv'
<1> USE NoneAssumption DEF NoneAssumption, LockInv, PairWrites, RemoveWrites
<1>1. CASE PairActions /\ remove' = remove
  <2>1. \/ PairEnds
        \/ lock' = lock /\ ~PairWrites /\ ~PairWrites'
        \/ lock = None /\ lock' = "pair" /\ PairWrites'
        \/ lock' = None /\ PairWrites /\ ~PairWrites'
    BY <1>1, PairStep DEF Paired
  <2> QED BY <1>1, <2>1 DEF PairEnds
<1>2. CASE RemoveActions /\ pair' = pair
  <2>1. \/ RemoveEnds
        \/ lock' = lock /\ ~RemoveWrites /\ ~RemoveWrites'
        \/ lock = None /\ lock' = "remove" /\ RemoveWrites'
    BY <1>2, RemovalStep DEF Removing
  <2> QED BY <1>2, <2>1 DEF RemoveEnds
<1>3. CASE UNCHANGED <<pair, remove, lock>>
  BY <1>3
<1> QED BY <1>1, <1>2, <1>3, Actors

---------------------------------------------------------------------------
(* What every step keeps of a keyring                                      *)

\* Only a confirmation adds a confirmed link, the one that is paired, and what is
\* lost is remembered.
LEMMA ConfirmedStep ==
    ASSUME TypeOK, PairInv, Next
    PROVE  /\ lost \subseteq lost'
           /\ confirmed' = confirmed \/ (pair.at # "idle" /\ confirmed' = confirmed \cup {pair.link})
  BY DEF Next, WatchConfirms, WatchActivates, Expire, PairWatch, ListWatches, ConfirmMatch, ConfirmLink, LockForPair,
     StageActivation, ActivateLink, PersistActive, RemoveWatch, LockForRemove, RevokeWatchGeneration,
     FetchSnapshot, ReconcileCopy, ReconcileFile, PruneRetiring, Fault

\* The newest link of a Watch was offered.
LEMMA NewestIsOffered == ASSUME NEW l, Newest(l) PROVE l \in Links /\ Offered(l)
<1>1. l.e \in Nat
  BY BoundsAssumption DEF Newest, Links, BoundsAssumption
<1> QED BY <1>1 DEF Newest, Offered, OfferedBy

\* Confirmed links stay confirmed, and were offered.
LEMMA OfferedStays ==
    ASSUME TypeOK, RelayInv, PairInv, OfferedInv, Next
    PROVE  OfferedInv' /\ confirmed' \subseteq Links /\ confirmed \subseteq confirmed'
<1>1. confirmed \subseteq Links
  BY DEF TypeOK
<1>2. ASSUME NEW l \in confirmed' PROVE l \in Links /\ Offered(l)'
  <2>1. l \in Links /\ Offered(l)
    BY <1>1, <1>2, ConfirmedStep, NewestIsOffered DEF OfferedInv, PairInv
  <2> QED BY <2>1, LinkStays
<1> QED BY <1>2, ConfirmedStep DEF OfferedInv

\* A keyring that nobody changes stays sound, whatever the Relay does.
LEMMA SoundStays ==
    ASSUME TypeOK, RelayInv, PairInv, OfferedInv, Next, NEW k \in Keyring, Sound(k)
    PROVE  Sound(k)'
<1>1. ASSUME NEW b \in Pinned(k)
      PROVE  Settled(b)' /\ (k.pins[b] # "active" => ~Live(b)')
  <2>1. b \in Links /\ Offered(b)
    BY <1>1 DEF Sound, OfferedInv, Pinned
  <2> QED BY <1>1, <2>1, LinkStays DEF Sound
<1> QED BY <1>1, OfferedStays DEF Sound

\* A link the keyring has to have after the step is one it had to have, or one that
\* is staged: in the file, or by the step.
LEMMA OwedStep ==
    ASSUME TypeOK, RelayInv, PairInv, OfferedInv, KeyringsInv, Next, NEW l \in Links, Owed(l)'
    PROVE  Owed(l) \/ (l \in file.pending /\ Live(l)) \/ (Paired("stage-write", "activate") /\ l = pair.link)
<1>1. CASE OwedIn(l, relay'[l.w])
  BY <1>1, OwedStays
<1>2. CASE Resumed(l)'
  <2>1. /\ pair'.link = l /\ Live(l)'
        /\ pair'.at = "activate" \/ (pair'.at = "prompt" /\ l \in pair'.copy.pending)
    BY <1>2 DEF Resumed
  <2>2. CASE pair' = pair
    <3>1. Offered(l)
      BY <2>1, <2>2, NewestIsOffered DEF PairInv
    <3> QED BY <2>1, <2>2, <3>1, LinkStays DEF Resumed, Owed
  <2>3. ASSUME NEW w \in Watches, PairWatch(w)
        PROVE  l \in file.pending /\ Live(l)
    <3>1. l \in file.pending
      BY <2>1, <2>3 DEF PairWatch, TypeOK
    <3>2. Offered(l)
      BY <3>1 DEF KeyringsInv, Keyrings, Sound, OfferedInv
    <3> QED BY <2>1, <3>1, <3>2, LinkStays
  <2>4. CASE Paired("prompt", "activate") /\ pair.link \in pair.copy.pending
    <3>1. Offered(l) /\ l = pair.link
      BY <2>1, <2>4, NewestIsOffered DEF PairInv, Paired
    <3> QED BY <2>1, <2>4, <3>1, LinkStays DEF Resumed, Owed, Paired
  <2>5. CASE PairActions
    BY <2>1, <2>3, <2>4, <2>5, PairStep DEF PairEnds, Paired
  <2> QED BY <2>2, <2>5, Actors
<1> QED BY <1>1, <1>2 DEF Owed

\* ... and complete: a link the keyring comes to owe was staged before.
LEMMA CompleteStays ==
    ASSUME TypeOK, RelayInv, PairInv, OfferedInv, KeyringsInv, Next, NEW k \in Keyring, Complete(k),
           \A l \in file.pending : Live(l) => l \in Held(k) \cup lost,
           Paired("stage-write", "activate") => pair.link \in Held(k)
    PROVE  Complete(k)'
<1>1. ASSUME NEW l \in Links, Owed(l)'
      PROVE  l \in Held(k) \cup lost'
  BY <1>1, OwedStep, ConfirmedStep DEF Complete
<1> QED BY <1>1 DEF Complete

\* A keyring that follows another goes on doing so.
LEMMA FollowsStays ==
    ASSUME TypeOK, RelayInv, PairInv, OfferedInv, Next, NEW j \in Keyring, NEW k \in Keyring,
           Sound(j), Follows(j, k)
    PROVE  Follows(j, k)'
<1>1. ASSUME NEW l \in j.pending, Live(l)'
      PROVE  l \in Held(k) \cup lost'
  <2>1. l \in Links /\ Offered(l)
    BY <1>1 DEF Sound, OfferedInv, TypeOK
  <2> QED BY <1>1, <2>1, LinkStays, ConfirmedStep DEF Follows
<1> QED BY <1>1 DEF Follows

---------------------------------------------------------------------------
(* The steps of the daemon                                                 *)

\* The fields of the daemon's copy.
LEMMA HoldingFacts ==
    ASSUME NEW k \in Keyring, NEW at, NEW s, NEW n, NEW b
    PROVE  /\ Holding(k, at).pins = k.pins /\ Holding(k, at).pending = k.pending /\ Holding(k, at).at = at
           /\ LET d == [Holding(k, at) EXCEPT !.snapshot = s, !.known = n, !.base = b] IN
              /\ d.pins = k.pins /\ d.pending = k.pending /\ d.at = at
              /\ d.snapshot = s /\ d.known = n /\ d.base = b
  BY DEF Holding

\* The daemon's copy becomes a keyring.
Holds(k, at) == Copy' = k /\ daemon'.at = at

\* The daemon's copy after it took over a keyring.
LEMMA HoldingStep ==
    ASSUME NEW k \in Keyring, NEW at, daemon' = Holding(k, at)
    PROVE  Holds(k, at)
<1>1. daemon'.pins = k.pins /\ daemon'.pending = k.pending /\ daemon'.at = at
  BY HoldingFacts
<1> QED BY <1>1, Remade DEF Holds, Copy

DaemonFrame == UNCHANGED <<pair, remove, lock, relay, confirmed>>

\* Fetching a snapshot; taking the copy or the file as it is; going on to the lock;
\* writing under the lock; pruning.
Fetches ==
  /\ DaemonFrame /\ UNCHANGED <<file, lost>>
  /\ ~NotReady /\ Holds(Copy, "reconcile") /\ daemon'.snapshot = Recipients

Adopts ==
  /\ DaemonFrame /\ UNCHANGED <<file, lost>>
  /\ \E k \in {Copy, file}, at \in {"idle", "prune"} : Holds(k, at)

Waits ==
  /\ DaemonFrame /\ UNCHANGED <<file, lost>>
  /\ daemon.at = "reconcile"
  /\ \E k \in {Copy, file} :
       /\ Holds(k, "lock")
       /\ With(k, "active") \subseteq daemon.snapshot \cup Pinned(Copy)
  /\ daemon'.snapshot = daemon.snapshot /\ daemon'.known = Pinned(Copy) /\ daemon'.base = Copy'

Reconciles ==
  /\ DaemonFrame /\ UNCHANGED lost
  /\ daemon.at = "lock" /\ lock = None
  /\ With(file, "active") \subseteq daemon.snapshot \cup daemon.known
  /\ Holds(Reconciled(file, daemon.snapshot), "prune")
  /\ file' = Reconciled(file, daemon.snapshot)

Prunes ==
  /\ DaemonFrame
  /\ \E removed \in SUBSET (Pinned(Copy) \ With(Copy, "active")) :
       /\ Holds(Pruned(Copy, removed), "idle")
       /\ \/ file' = file /\ lost' = lost
          \/ /\ file' = Pruned(Copy, removed)
             /\ lost' = lost \cup {l \in Links : l \in Held(file) /\ l \notin Held(Pruned(Copy, removed))}

\* The daemon's steps, by what they do to the file and to its copy.
LEMMA DaemonStep ==
    ASSUME TypeOK, DaemonInv, Next
    PROVE  daemon' = daemon \/ Fetches \/ Adopts \/ Waits \/ Reconciles \/ Prunes
<1>t. file \in Keyring /\ Copy \in Keyring
  BY DEF TypeOK, Keyring, Copy
<1>d. daemon \in [pins : [Links -> Statuses \cup {None}], pending : SUBSET Links,
                  at : {"idle", "reconcile", "lock", "prune"}, snapshot : SUBSET Links,
                  known : SUBSET Links, base : Keyring \cup {None}]
  BY DEF TypeOK
<1>1. CASE FetchSnapshot
  <2>1. daemon' = [daemon EXCEPT !.at = "reconcile", !.snapshot = Recipients]
    BY <1>1 DEF FetchSnapshot
  <2>2. /\ daemon'.pins = daemon.pins /\ daemon'.pending = daemon.pending
        /\ daemon'.at = "reconcile" /\ daemon'.snapshot = Recipients
    BY <1>d, <2>1
  <2> QED BY <1>1, <2>2 DEF FetchSnapshot, Fetches, Holds, Copy, DaemonFrame
<1>2. CASE ReconcileCopy
  <2> DEFINE k == IF Served(Copy, daemon.snapshot) THEN Copy ELSE file
  <2>1. k \in {Copy, file} /\ k \in Keyring /\ daemon.at = "reconcile"
        /\ UNCHANGED <<file, pair, remove, lock, relay, confirmed, lost>>
    BY <1>t, <1>2 DEF ReconcileCopy
  <2>2. CASE daemon' = Holding(k, "idle") \/ daemon' = Holding(k, "prune")
    <3>1. Holds(k, "idle") \/ Holds(k, "prune")
      BY <2>1, <2>2, HoldingStep
    <3> QED BY <2>1, <3>1 DEF Adopts, DaemonFrame
  <2>3. CASE /\ Served(Copy, daemon.snapshot) \/ ~Predates(k, daemon.snapshot, Pinned(Copy))
             /\ daemon' = [Holding(k, "lock") EXCEPT !.snapshot = daemon.snapshot, !.known = Pinned(Copy), !.base = k]
    <3>1. /\ daemon'.pins = k.pins /\ daemon'.pending = k.pending /\ daemon'.at = "lock"
          /\ daemon'.snapshot = daemon.snapshot /\ daemon'.known = Pinned(Copy) /\ daemon'.base = k
      BY <2>1, <2>3, HoldingFacts
    <3>2. Holds(k, "lock")
      BY <2>1, <3>1, Remade DEF Holds, Copy
    <3>3. With(k, "active") \subseteq daemon.snapshot \cup Pinned(Copy)
      BY <2>3, NoneAssumption DEF Predates, With, Pinned, NoneAssumption, Statuses
    <3> QED BY <2>1, <3>1, <3>2, <3>3 DEF Waits, DaemonFrame, Holds
  <2> QED BY <1>2, <2>2, <2>3 DEF ReconcileCopy
<1>3. CASE ReconcileFile
  <2>1. daemon.at = "lock" /\ DaemonFrame /\ UNCHANGED lost /\ daemon.base = Copy
    BY <1>3 DEF ReconcileFile, DaemonFrame, DaemonInv
  <2> DEFINE k == IF file # daemon.base THEN file ELSE Copy
  <2>2. k = file
    BY <2>1
  <2>3. CASE daemon' = Holding(Copy, "idle") /\ file' = file
    BY <1>t, <2>1, <2>3, HoldingStep DEF Adopts, DaemonFrame
  <2>4. CASE daemon' = Holding(k, "idle") /\ file' = file
    BY <1>t, <2>1, <2>2, <2>4, HoldingStep DEF Adopts, DaemonFrame
  <2>5. CASE /\ lock = None /\ ~(file # daemon.base /\ Predates(k, daemon.snapshot, daemon.known))
             /\ daemon' = Holding(Reconciled(k, daemon.snapshot), "prune") /\ file' = Reconciled(k, daemon.snapshot)
    <3>1. With(file, "active") \subseteq daemon.snapshot \cup daemon.known
      BY <1>3, <2>1, <2>2, <2>5 DEF ReconcileFile, Predates, DaemonInv
    <3>2. Holds(Reconciled(file, daemon.snapshot), "prune")
      BY <1>t, <2>2, <2>5, ReconciledFacts, HoldingStep
    <3> QED BY <2>1, <2>2, <2>5, <3>1, <3>2 DEF Reconciles
  <2> QED BY <1>3, <2>3, <2>4, <2>5 DEF ReconcileFile
<1>4. CASE PruneRetiring
  <2>1. PICK removed \in SUBSET (Pinned(Copy) \ With(Copy, "active")) :
          LET k == Pruned(Copy, removed) IN
          /\ daemon' = Holding(k, "idle")
          /\ file' = IF removed = {} THEN file ELSE k
          /\ lost' = IF removed = {} THEN lost
                     ELSE lost \cup {l \in Links : l \in With(file, "active") \cup file.pending
                                                   /\ l \notin With(k, "active") \cup k.pending}
    BY <1>4 DEF PruneRetiring, Pruned
  <2>2. Holds(Pruned(Copy, removed), "idle")
    BY <1>t, <2>1, PrunedFacts, HoldingStep
  <2> QED BY <1>4, <2>1, <2>2 DEF PruneRetiring, Prunes, DaemonFrame, Held
<1>5. CASE Fault /\ daemon' # daemon
  <2>1. daemon' = Holding(file, "idle") /\ DaemonFrame /\ UNCHANGED <<file, lost>>
    BY <1>5 DEF Fault, DaemonFrame
  <2>2. Holds(file, "idle")
    BY <1>t, <2>1, HoldingStep
  <2> QED BY <2>1, <2>2 DEF Adopts
<1>6. CASE ~(FetchSnapshot \/ ReconcileCopy \/ ReconcileFile \/ PruneRetiring \/ Fault)
  BY <1>6 DEF Next, WatchConfirms, WatchActivates, Expire, PairWatch, ListWatches, ConfirmMatch, ConfirmLink, LockForPair,
     StageActivation, ActivateLink, PersistActive, RemoveWatch, LockForRemove, RevokeWatchGeneration
<1> QED BY <1>1, <1>2, <1>3, <1>4, <1>5, <1>6

---------------------------------------------------------------------------
(* What the actors know while they work                                    *)

\* A link stays the newest of its Watch while it is being paired.
LEMMA PairingStays ==
    ASSUME TypeOK, RelayInv, PairInv, OfferedInv, KeyringsInv, Next
    PROVE  PairInv'
<1>t. /\ file \in Keyring /\ file.pending \subseteq confirmed /\ confirmed \subseteq confirmed'
  BY OfferedStays DEF KeyringsInv, Keyrings, Sound
<1>n. pair.at # "idle" /\ pair'.link = pair.link => Newest(pair.link)'
  BY PairedStays DEF PairInv, Newest
<1>d. pair.at # "idle" /\ pair'.link = pair.link /\ DoneIn(pair.link, relay[pair.link.w])
        => DoneIn(pair'.link, relay'[pair'.link.w])
  BY PairedStays DEF PairInv, Newest
<1> USE DEF PairWrites
<1>1. CASE pair' = pair
  BY <1>1, <1>n, <1>d, <1>t DEF PairInv
<1>2. CASE PairActions
  <2>1. CASE PairEnds
    BY <2>1 DEF PairEnds, PairInv
  <2>2. ASSUME NEW w \in Watches, PairWatch(w), pair'.at = "prompt", pair'.copy = file
        PROVE  PairInv'
    <3>0. pair.at = "idle" /\ [pair EXCEPT !.error = "none"].at = pair.at
      BY <2>2 DEF PairWatch, TypeOK
    <3>a. PICK offer \in Offers(w) :
            /\ offer.next \in Links /\ relay' = [relay EXCEPT ![w] = offer]
            /\ pair' = IF AlreadyActive(offer) THEN [pair EXCEPT !.error = "none"]
                       ELSE [at |-> "prompt", link |-> offer.next, copy |-> file, error |-> "none"]
      BY <2>2 DEF PairWatch
    <3>1. offer.next \in Links /\ relay' = [relay EXCEPT ![w] = offer] /\ pair'.link = offer.next
      BY <2>2, <3>0, <3>a
    <3>2. relay'[w] = offer /\ EntryOK(w, relay'[w])
      <4>1. relay \in [Watches -> Entries]
        BY DEF TypeOK, Entries, RelayStates
      <4>2. \A v \in Watches : EntryOK(v, relay'[v])
        BY RelayStays DEF RelayInv
      <4> QED BY <3>1, <4>1, <4>2
    <3>3. Newest(pair.link)'
      BY <3>1, <3>2, NoneAssumption DEF EntryOK, Newest, NoneAssumption
    <3>4. PairInv' <=> Newest(pair.link)' /\ file \in Keyring /\ file.pending \subseteq confirmed'
      BY <2>2 DEF PairInv
    <3> QED BY <1>t, <3>3, <3>4
  <2>3. CASE Paired("prompt", "activate") /\ pair.link \in pair.copy.pending
    BY <1>n, <1>t, <2>3 DEF Paired, PairInv
  <2>4. CASE Paired("prompt", "confirm")
    BY <1>n, <1>t, <2>4 DEF Paired, PairInv
  <2>5. CASE Paired("confirm", "stage") /\ pair.link \in confirmed'
    BY <1>n, <1>t, <2>5 DEF Paired, PairInv
  <2>6. CASE pair'.copy = file /\ (Paired("stage", "stage-write") \/ Paired("persist", "persist-write"))
    BY <1>n, <1>d, <1>t, <2>6 DEF Paired, PairInv
  <2>7. CASE Paired("stage-write", "activate")
    BY <1>n, <1>t, <2>7 DEF Paired, PairInv
  <2>8. CASE ActivateLink /\ Paired("activate", "persist")
    <3>1. pair.link \in Links /\ pair.link.w \in Watches /\ pair.link \in confirmed
      BY <2>8 DEF Paired, PairInv, Newest, Links
    <3>2. DoneIn(pair.link, relay'[pair.link.w])
      <4> DEFINE r == relay[pair.link.w]
      <4>1. CASE r.active = pair.link /\ relay'[pair.link.w] = r
        BY <4>1 DEF DoneIn
      <4>2. CASE r.next = pair.link /\ relay'[pair.link.w] = BothActive(pair.link.w)
        BY <3>1, <4>2 DEF DoneIn, BothActive, TypeOK
      <4>3. CASE r.next = pair.link /\ relay'[pair.link.w] = [r EXCEPT !.state = "host"]
        BY <3>1, <4>3 DEF DoneIn, TypeOK
      <4>4. relay \in [Watches -> Entries]
        BY DEF TypeOK, Entries, RelayStates
      <4>5. CASE r.active = pair.link
        <5>1. relay' = [relay EXCEPT ![pair.link.w] = r]
          BY <2>8, <3>1, <4>5 DEF ActivateLink, Paired, EndPair
        <5> QED BY <3>1, <4>1, <4>4, <4>5, <5>1
      <4>6. CASE r.active # pair.link
        <5>1. /\ r.next = pair.link
              /\ relay' = [relay EXCEPT ![pair.link.w] = IF r.state = "watch" THEN BothActive(pair.link.w)
                                                         ELSE [r EXCEPT !.state = "host"]]
          BY <2>8, <3>1, <4>6 DEF ActivateLink, Paired, EndPair
        <5> QED BY <3>1, <4>2, <4>3, <4>4, <5>1
      <4> QED BY <4>5, <4>6
    <3> QED BY <1>n, <1>t, <2>8, <3>1, <3>2 DEF Paired, PairInv
  <2>9. CASE pair'.at = "idle"
    BY <2>9 DEF PairInv
  <2> QED BY <1>2, <2>1, <2>2, <2>3, <2>4, <2>5, <2>6, <2>7, <2>8, <2>9, PairStep
<1> QED BY <1>1, <1>2, Actors

\* A generation that the command removed stays removed until it is revoked.
LEMMA RemovalStays ==
    ASSUME TypeOK, RelayInv, PairInv, RemoveInv, Next
    PROVE  RemoveInv'
<1>t. file \in Keyring /\ remove.g \in Nat
  BY DEF TypeOK
<1>g. remove.at # "idle" /\ GoneIn(remove.g, relay[remove.w]) => GoneIn(remove.g, relay'[remove.w])
  BY <1>t, GoneStays DEF RemoveInv
<1> USE DEF RemoveWrites
<1>1. CASE remove' = remove
  BY <1>1, <1>g DEF RemoveInv
<1>2. CASE RemoveActions
  <2>1. CASE RemoveEnds
    BY <2>1 DEF RemoveEnds, RemoveInv
  <2>2. CASE remove'.at = "unlink" /\ remove'.w \in Watches
    BY <2>2 DEF RemoveInv
  <2>3. CASE /\ Removing("unlink", "revoke")
             /\ relay' = [relay EXCEPT ![remove.w] = [NoLink EXCEPT !.g = remove.g, !.e = relay[remove.w].e]]
    <3>1. remove.w \in Watches /\ relay \in [Watches -> Entries]
      BY <2>3 DEF Removing, RemoveInv, TypeOK, Entries, RelayStates
    <3>2. relay'[remove.w].g = remove.g /\ relay'[remove.w].active = None /\ relay'[remove.w].next = None
      BY <2>3, <3>1 DEF NoLink
    <3>3. GoneIn(remove.g, relay'[remove.w])
      BY <1>t, <3>2 DEF GoneIn
    <3> QED BY <2>3, <3>1, <3>3 DEF Removing, RemoveInv
  <2>4. CASE remove'.copy = file /\ Removing("revoke", "revoke-write")
    BY <1>t, <1>g, <2>4 DEF Removing, RemoveInv
  <2> QED BY <1>2, <2>1, <2>2, <2>3, <2>4, RemovalStep DEF RevokeWatchGeneration
<1> QED BY <1>1, <1>2, Actors

\* Links that were not live when they were left out of a snapshot are not live now.
LEMMA GoneLinksStay ==
    ASSUME TypeOK, RelayInv, PairInv, OfferedInv, Next, NEW S \in SUBSET confirmed, \A b \in S : ~Live(b)
    PROVE  \A b \in S : ~Live(b)'
<1>1. ASSUME NEW b \in S
      PROVE  b \in Links /\ Offered(b)
  BY DEF TypeOK, OfferedInv
<1> QED BY <1>1, LinkStays

\* What the daemon is about to revoke does not become live meanwhile.
LEMMA DaemonStays ==
    ASSUME TypeOK, RelayInv, PairInv, OfferedInv, KeyringsInv, DaemonInv, Next
    PROVE  DaemonInv'
<1>c. Sound(Copy) /\ Pinned(Copy) \subseteq confirmed /\ confirmed \subseteq confirmed'
  BY OfferedStays DEF KeyringsInv, Keyrings, Sound
<1>1. CASE daemon' = daemon
  <2>1. Copy' = Copy /\ Pinned(Copy)' = Pinned(Copy) /\ With(Copy, "active")' = With(Copy, "active")
    BY <1>1 DEF Copy, Pinned, With
  <2>2. CASE daemon.at = "reconcile"
    <3>1. \A b \in Pinned(Copy) \ daemon.snapshot : ~Live(b)'
      BY <1>c, <2>2, GoneLinksStay DEF DaemonInv
    <3> QED BY <1>1, <2>1, <2>2, <3>1 DEF DaemonInv
  <2>3. CASE daemon.at = "lock"
    <3>1. \A b \in daemon.known \ daemon.snapshot : ~Live(b)'
      BY <2>3, GoneLinksStay DEF DaemonInv
    <3> QED BY <1>1, <1>c, <2>1, <2>3, <3>1 DEF DaemonInv
  <2> QED BY <1>1, <2>2, <2>3 DEF DaemonInv
<1>2. CASE Fetches
  <2>1. ASSUME NEW b \in Pinned(Copy), b \notin Recipients, Live(b)
        PROVE  FALSE
    <3>1. b \in Links /\ b.w \in Watches /\ Settled(b)
      BY <1>c, <2>1 DEF Sound, Pinned, Links
    <3>2. relay[b.w].active = b /\ b # None
      BY <1>2, <2>1, <3>1, NoneAssumption DEF Fetches, NotReady, Live, LiveIn, Settled, SettledIn, NoneAssumption
    <3> QED BY <2>1, <3>1, <3>2 DEF Recipients
  <2>2. Copy' = Copy /\ Pinned(Copy)' = Pinned(Copy) /\ relay' = relay
    BY <1>2 DEF Fetches, Holds, Pinned, DaemonFrame
  <2>3. \A b \in Pinned(Copy) \ Recipients : ~Live(b)'
    BY <2>1, <2>2 DEF Live
  <2> QED BY <1>2, <2>2, <2>3 DEF Fetches, Holds, DaemonInv
<1>3. CASE Waits
  <2>1. relay' = relay /\ confirmed' = confirmed
    BY <1>3 DEF Waits, DaemonFrame
  <2>2. \A b \in Pinned(Copy) \ daemon.snapshot : ~Live(b)'
    BY <1>3, <2>1 DEF Waits, DaemonInv, Live
  <2>3. With(Copy, "active")' \subseteq daemon.snapshot \cup Pinned(Copy)
    BY <1>3 DEF Waits, Holds, With
  <2>4. /\ daemon'.at = "lock" /\ daemon'.snapshot = daemon.snapshot /\ daemon'.known = Pinned(Copy)
        /\ daemon'.base = Copy'
    BY <1>3 DEF Waits, Holds
  <2> QED BY <1>c, <2>1, <2>2, <2>3, <2>4 DEF DaemonInv
<1>4. CASE Adopts \/ Reconciles \/ Prunes
  BY <1>4 DEF Adopts, Reconciles, Prunes, Holds, DaemonInv
<1> QED BY <1>1, <1>2, <1>3, <1>4, DaemonStep

---------------------------------------------------------------------------
(* The keyrings that are written                                           *)

\* Before and after pairing, removal and reconciliation: which links cannot be live.
LEMMA OwedIsLive == ASSUME NEW l, Owed(l) PROVE Live(l)
  BY DEF Owed, OwedIn, Resumed, Live, LiveIn

\* Once the newest link of a Watch is done, no other of that Watch is live.
LEMMA OnlyTheNewest ==
    ASSUME NEW l, Newest(l), DoneIn(l, relay[l.w]), NEW b \in Links, b.w = l.w, b # l
    PROVE  ~Live(b)
  BY NoneAssumption DEF Newest, DoneIn, Live, LiveIn, NoneAssumption

\* No link of a removed generation is live.
LEMMA RemovedIsNotLive ==
    ASSUME RelayInv, NEW w \in Watches, NEW g \in Nat, GoneIn(g, relay[w]), NEW b \in Links, b.w = w, b.g = g
    PROVE  ~Live(b)
  BY NoneAssumption DEF RelayInv, EntryOK, GoneIn, Live, LiveIn, NoneAssumption

\* A keyring that may be written where c was loaded.
Fits(n) == n \in Keyring /\ Sound(n) /\ Complete(n) /\ \A j \in {Copy, file} : Follows(j, n)

\* What was loaded under the lock fits the file.
LEMMA TakenFits ==
    ASSUME KeyringsInv, HeldInv, StaleInv, NEW c \in Taken
    PROVE  Fits(c)
  BY DEF KeyringsInv, HeldInv, StaleInv, Keyrings, Fits, Sound

\* Staging a confirmed link makes a keyring that fits, if it is valid.
LEMMA StagedFits ==
    ASSUME NEW c, Fits(c), NEW l \in confirmed, confirmed \subseteq Links, Valid(Staged(c, l))
    PROVE  Fits(Staged(c, l)) /\ l \in Held(Staged(c, l))
<1> DEFINE n == Staged(c, l)
<1>1. /\ n \in Keyring /\ n.pins = c.pins /\ n.pending = c.pending \cup {l}
      /\ Pinned(n) = Pinned(c) /\ Revoked(n) = Revoked(c) /\ Held(n) = Held(c) \cup {l}
  BY StagedFacts DEF Fits
<1> HIDE DEF n
<1>2. Sound(n)
  BY <1>1 DEF Fits, Sound, n
<1>3. Complete(n) /\ \A j \in {Copy, file} : Follows(j, n)
  BY <1>1 DEF Fits, Complete, Follows
<1> QED BY <1>1, <1>2, <1>3 DEF Fits, n

\* So does activating the newest one.
LEMMA ActivatedFits ==
    ASSUME RelayInv, NEW c, Fits(c), NEW l \in confirmed, Newest(l), DoneIn(l, relay[l.w]),
           ~ActivationRejected(c, l), Valid(Activated(c, l))
    PROVE  Fits(Activated(c, l))
<1> DEFINE n == Activated(c, l)
<1>l. l \in Links /\ l.w \in Watches
  BY DEF Newest, Links
<1>1. /\ n \in Keyring /\ n.pending = c.pending \ {l}
      /\ n.pins[l] = "active"
      /\ \A b \in Links : b # l => n.pins[b] = c.pins[b] \/ (b.w = l.w /\ c.pins[b] = "active" /\ n.pins[b] = "retiring")
      /\ Pinned(n) = Pinned(c) \cup {l} /\ Revoked(c) \subseteq Revoked(n)
      /\ \A b \in Held(c) : b.w # l.w \/ b = l => b \in Held(n)
  BY <1>l, ActivatedFacts DEF Fits
<1>v. Valid(n)
  OBVIOUS
<1> HIDE DEF n
<1>2. ASSUME NEW b \in Pinned(n)
      PROVE  Settled(b) /\ (n.pins[b] # "active" => ~Live(b))
  <2>1. b \in Links
    BY <1>2 DEF Pinned
  <2>2. CASE b = l
    BY <1>l, <1>1, <2>2, NoneAssumption DEF Settled, SettledIn, DoneIn, RelayInv, EntryOK, NoneAssumption
  <2>3. CASE b # l
    <3>1. b \in Pinned(c) /\ Settled(b) /\ (c.pins[b] # "active" => ~Live(b))
      BY <1>1, <1>2, <2>3 DEF Fits, Sound
    <3> QED BY <1>1, <2>1, <2>3, <3>1, OnlyTheNewest
  <2> QED BY <2>2, <2>3
<1>3. Sound(n)
  BY <1>1, <1>2, <1>v DEF Fits, Sound
<1>4. ASSUME NEW b \in Links, Live(b), b \in Held(c) \cup lost
      PROVE  b \in Held(n) \cup lost
  BY <1>1, <1>4, OnlyTheNewest
<1>5. Complete(n)
  BY <1>4, OwedIsLive DEF Fits, Complete
<1>6. ASSUME NEW j \in {Copy, file}
      PROVE  Follows(j, n)
  <2>1. Follows(j, c)
    BY DEF Fits
  <2>2. ASSUME NEW b \in j.pending, Live(b)
        PROVE  b \in Held(n) \cup lost
    <3>1. b \in Held(c) \cup lost
      BY <2>1, <2>2 DEF Follows
    <3>2. CASE b \in Held(c)
      <4>1. b \in Links
        BY <3>2 DEF Fits, Keyring, Held, With
      <4> QED BY <1>4, <2>2, <3>1, <4>1
    <3> QED BY <3>1, <3>2
  <2> QED BY <1>1, <2>1, <2>2 DEF Follows
<1> QED BY <1>1, <1>3, <1>5, <1>6 DEF Fits, n

\* So does revoking a removed generation.
LEMMA RevokedFits ==
    ASSUME RelayInv, NEW c, Fits(c), NEW w \in Watches, NEW g \in Nat, GoneIn(g, relay[w])
    PROVE  Fits(GenerationRevoked(c, w, g))
<1> DEFINE n == GenerationRevoked(c, w, g)
<1>1. /\ n \in Keyring /\ n.pending \subseteq c.pending
      /\ \A b \in Links : ~(b.w = w /\ b.g = g) => n.pins[b] = c.pins[b]
      /\ With(n, "active") \subseteq With(c, "active")
      /\ Pinned(n) = Pinned(c) /\ Revoked(c) \subseteq Revoked(n)
      /\ \A b \in Held(c) : ~(b.w = w /\ b.g = g) => b \in Held(n)
  BY RevokedFacts DEF Fits
<1> HIDE DEF n
<1>2. ASSUME NEW b \in Pinned(n)
      PROVE  Settled(b) /\ (n.pins[b] # "active" => ~Live(b))
  <2>1. b \in Links /\ b \in Pinned(c)
    BY <1>1, <1>2 DEF Pinned
  <2> QED BY <1>1, <2>1, RemovedIsNotLive DEF Fits, Sound
<1>3. Valid(n)
  BY <1>1, FewerIsValid DEF Fits, Sound
<1>4. Sound(n)
  BY <1>1, <1>2, <1>3 DEF Fits, Sound
<1>5. ASSUME NEW b \in Links, Live(b), b \in Held(c) \cup lost
      PROVE  b \in Held(n) \cup lost
  BY <1>1, <1>5, RemovedIsNotLive
<1>6. Complete(n)
  BY <1>5, OwedIsLive DEF Fits, Complete
<1>7. ASSUME NEW j \in {Copy, file}
      PROVE  Follows(j, n)
  <2>1. Follows(j, c)
    BY DEF Fits
  <2>2. ASSUME NEW b \in j.pending, Live(b)
        PROVE  b \in Held(n) \cup lost
    <3>1. b \in Held(c) \cup lost
      BY <2>1, <2>2 DEF Follows
    <3>2. CASE b \in Held(c)
      <4>1. b \in Links
        BY <3>2 DEF Fits, Keyring, Held, With
      <4> QED BY <1>5, <2>2, <3>1, <4>1
    <3> QED BY <3>1, <3>2
  <2> QED BY <1>1, <2>1, <2>2 DEF Follows
<1> QED BY <1>1, <1>4, <1>6, <1>7 DEF Fits, n

\* What a snapshot leaves out and the daemon knew before it was fetched is not live.
LEMMA ReconciledFits ==
    ASSUME NEW k \in Keyring, Sound(k), Complete(k), NEW snapshot, NEW known,
           With(k, "active") \subseteq snapshot \cup known, \A b \in known \ snapshot : ~Live(b)
    PROVE  LET n == Reconciled(k, snapshot) IN n \in Keyring /\ Sound(n) /\ Complete(n)
<1> DEFINE n == Reconciled(k, snapshot)
<1>1. /\ n \in Keyring /\ n.pending = k.pending
      /\ \A b \in Links : n.pins[b] = k.pins[b] \/ (b \notin snapshot /\ n.pins[b] = "revoked" /\ k.pins[b] # None)
      /\ With(n, "active") \subseteq With(k, "active")
      /\ Pinned(n) = Pinned(k) /\ Revoked(k) \subseteq Revoked(n)
      /\ \A b \in Held(k) : b \in snapshot => b \in Held(n)
  BY ReconciledFacts
<1> HIDE DEF n
<1>2. Valid(n)
  BY <1>1, FewerIsValid DEF Sound
<1>3. ASSUME NEW b \in Pinned(n)
      PROVE  Settled(b) /\ (n.pins[b] # "active" => ~Live(b))
  <2>1. b \in Links /\ b \in Pinned(k) /\ Settled(b) /\ (k.pins[b] # "active" => ~Live(b))
    BY <1>1, <1>3 DEF Pinned, Sound
  <2>2. k.pins[b] = "active" /\ b \notin snapshot => ~Live(b)
    BY <2>1 DEF With
  <2> QED BY <1>1, <2>1, <2>2
<1>4. Sound(n)
  BY <1>1, <1>2, <1>3 DEF Sound
<1>5. ASSUME NEW l \in Links, Owed(l)
      PROVE  l \in Held(n) \cup lost
  <2>1. Live(l) /\ l \in Held(k) \cup lost
    BY <1>5, OwedIsLive DEF Complete
  <2> QED BY <1>1, <2>1 DEF Held
<1> QED BY <1>1, <1>4, <1>5 DEF Complete, n

\* Pruning leaves a sound keyring that follows nobody less than before.
LEMMA PrunedFits ==
    ASSUME NEW k \in Keyring, Sound(k), NEW removed \in SUBSET (Pinned(k) \ With(k, "active"))
    PROVE  LET n == Pruned(k, removed) IN
           /\ n \in Keyring /\ Sound(n) /\ Held(n) = Held(k)
           /\ \A m : Follows(k, m) => Follows(n, m)
<1> DEFINE n == Pruned(k, removed)
<1>1. /\ n \in Keyring /\ n.pending = k.pending
      /\ \A b \in Links : n.pins[b] \in {k.pins[b], None}
      /\ With(n, "active") = With(k, "active") /\ Held(n) = Held(k)
      /\ Pinned(n) \subseteq Pinned(k) /\ Revoked(n) \subseteq Revoked(k)
  BY PrunedFacts
<1> HIDE DEF n
<1>2. Valid(n)
  BY <1>1, FewerIsValid DEF Sound
<1>3. ASSUME NEW b \in Pinned(n)
      PROVE  Settled(b) /\ (n.pins[b] # "active" => ~Live(b))
  <2>1. b \in Links /\ n.pins[b] # None /\ b \in Pinned(k)
    BY <1>1, <1>3 DEF Pinned
  <2>2. n.pins[b] = k.pins[b]
    BY <1>1, <2>1
  <2> QED BY <2>1, <2>2 DEF Sound
<1>4. Sound(n)
  BY <1>1, <1>2, <1>3 DEF Sound
<1>5. \A m : Follows(k, m) => Follows(n, m)
  BY <1>1 DEF Follows
<1> QED BY <1>1, <1>4, <1>5 DEF n

---------------------------------------------------------------------------
(* The invariant of the keyrings                                           *)

\* The steps that write the file under the lock; every other step but those of the
\* daemon leaves the file alone and copies it at most.
Writes ==
  /\ \E c \in Taken, n \in Keyring :
       /\ file' = n
       /\ \/ Paired("stage-write", "activate") /\ c = pair.copy /\ n = Staged(c, pair.link) /\ Valid(n)
          \/ /\ pair.at = "persist-write" /\ PairEnds /\ c = pair.copy
             /\ ~ActivationRejected(c, pair.link) /\ n = Activated(c, pair.link) /\ Valid(n)
          \/ remove.at = "revoke-write" /\ RemoveEnds /\ c = remove.copy /\ n = GenerationRevoked(c, remove.w, remove.g)
  /\ Copy' = Copy /\ Taken' = {}

Copies ==
  /\ file' = file /\ Copy' \in {Copy, file} /\ \A k \in Taken' : k \in Taken \/ k = file
  /\ ~Paired("stage-write", "activate")

\* What is loaded is the file.
LEMMA TakenStep ==
    ASSUME TypeOK, Next
    PROVE  \A k \in Taken' : k \in Taken \/ k = file
<1> USE DEF Taken, PairWrites, RemoveWrites
<1>1. PairWrites' => (PairWrites /\ pair'.copy = pair.copy) \/ pair'.copy = file
  <2>1. CASE PairActions
    BY <2>1, PairStep DEF PairEnds, Paired
  <2>2. CASE pair' = pair
    BY <2>2
  <2> QED BY <2>1, <2>2, Actors
<1>2. RemoveWrites' => (RemoveWrites /\ remove'.copy = remove.copy) \/ remove'.copy = file
  <2>1. CASE RemoveActions
    BY <2>1, RemovalStep DEF RemoveEnds, Removing
  <2>2. CASE remove' = remove
    BY <2>2
  <2> QED BY <2>1, <2>2, Actors
<1> QED BY <1>1, <1>2

\* Only the holder of the lock has loaded the file for a write.
LEMMA LockedTaken ==
    ASSUME LockInv
    PROVE  /\ lock = None => Taken = {}
           /\ PairWrites => ~RemoveWrites /\ Taken = {pair.copy}
           /\ RemoveWrites => ~PairWrites /\ Taken = {remove.copy}
  BY NoneAssumption DEF LockInv, Taken, NoneAssumption

\* A step of the commands leaves the file or writes what was loaded under the lock.
LEMMA CommandStep ==
    ASSUME TypeOK, LockInv, PairInv, RemoveInv, Next, daemon' = daemon
    PROVE  Copies \/ Writes
<1>c. Copy' = Copy
  BY DEF Copy
<1>t. \A k \in Taken' : k \in Taken \/ k = file
  BY TakenStep
<1>l. pair.copy \in Keyring \/ ~PairWrites
  BY DEF PairInv, PairWrites
<1>1. CASE PairActions /\ remove' = remove
  <2>1. CASE PairEnds /\ file' = file
    BY <1>c, <1>t, <2>1 DEF PairEnds, Copies, Paired
  <2>2. CASE PairEnds /\ PersistActive
    <3>1. PairWrites /\ ~PairWrites' /\ pair.link \in Links
      BY <2>2 DEF PersistActive, PairEnds, PairWrites, PairInv, Newest
    <3>2. Taken = {pair.copy} /\ Taken' = {} /\ pair.copy \in Keyring
      BY <1>1, <1>l, <3>1, LockedTaken DEF Taken, RemoveWrites
    <3>3. CASE file' = file
      BY <1>c, <1>t, <2>2, <3>3 DEF Copies, PairEnds, Paired
    <3>4. CASE /\ ~ActivationRejected(pair.copy, pair.link) /\ Valid(Activated(pair.copy, pair.link))
               /\ file' = Activated(pair.copy, pair.link)
      <4>1. Activated(pair.copy, pair.link) \in Keyring
        BY <3>1, <3>2, <3>4, ActivatedFacts
      <4> QED BY <1>c, <2>2, <3>2, <3>4, <4>1 DEF Writes, PersistActive
    <3> QED BY <2>2, <3>3, <3>4 DEF PersistActive
  <2>3. CASE StageActivation /\ Paired("stage-write", "activate")
    <3>1. PairWrites /\ ~PairWrites' /\ pair.link \in Links
      BY <2>3 DEF Paired, PairWrites, PairInv, Newest
    <3>2. Taken = {pair.copy} /\ Taken' = {} /\ pair.copy \in Keyring
      BY <1>1, <1>l, <3>1, LockedTaken DEF Taken, RemoveWrites
    <3>3. Valid(Staged(pair.copy, pair.link)) /\ file' = Staged(pair.copy, pair.link)
      BY <2>3 DEF StageActivation, Paired, EndPair
    <3>4. Staged(pair.copy, pair.link) \in Keyring
      BY <3>1, <3>2, StagedFacts
    <3> QED BY <1>c, <2>3, <3>2, <3>3, <3>4 DEF Writes
  <2>4. CASE (\E w \in Watches : PairWatch(w)) \/ ConfirmMatch \/ ConfirmLink \/ LockForPair \/ ActivateLink
    <3>1. file' = file
      BY <2>4 DEF PairWatch, ConfirmMatch, ConfirmLink, LockForPair, ActivateLink
    <3>2. ~Paired("stage-write", "activate")
      BY <2>4 DEF PairWatch, ConfirmMatch, ConfirmLink, LockForPair, ActivateLink, Paired
    <3> QED BY <1>c, <1>t, <3>1, <3>2 DEF Copies
  <2> QED BY <1>1, <2>1, <2>2, <2>3, <2>4, PairStep
<1>2. CASE RemoveActions /\ pair' = pair
  <2>0. ~Paired("stage-write", "activate")
    BY <1>2 DEF Paired
  <2>1. CASE file' = file
    BY <1>c, <1>t, <2>0, <2>1 DEF Copies
  <2>2. CASE RemoveEnds /\ RevokeWatchGeneration
    <3>1. RemoveWrites /\ ~RemoveWrites' /\ file' = GenerationRevoked(remove.copy, remove.w, remove.g)
      BY <2>2 DEF RevokeWatchGeneration, RemoveEnds, RemoveWrites
    <3>2. Taken = {remove.copy} /\ Taken' = {} /\ remove.copy \in Keyring
      BY <1>2, <3>1, LockedTaken DEF Taken, PairWrites, RemoveInv
    <3>3. GenerationRevoked(remove.copy, remove.w, remove.g) \in Keyring
      BY <3>2, RevokedFacts
    <3> QED BY <1>c, <2>2, <3>1, <3>2, <3>3 DEF Writes, RemoveWrites
  <2>3. (RemoveEnds /\ RevokeWatchGeneration) \/ file' = file
    BY <1>2 DEF RemoveActions, ListWatches, RemoveWatch, LockForRemove, RevokeWatchGeneration, EndRemove, Release, RemoveEnds
  <2> QED BY <2>1, <2>2, <2>3
<1>3. CASE UNCHANGED <<pair, remove, lock, file>>
  <2>0. ~Paired("stage-write", "activate")
    BY <1>3 DEF Paired
  <2>1. file' = file
    BY <1>3
  <2> QED BY <1>c, <1>t, <2>0, <2>1 DEF Copies
<1> QED BY <1>1, <1>2, <1>3, Actors

\* The three invariants of the keyrings.
FileInv == KeyringsInv /\ HeldInv /\ StaleInv

\* A keyring follows itself.
LEMMA FollowsItself == ASSUME NEW k PROVE Follows(k, k) /\ Follows(k, k)'
  BY DEF Follows, Held

\* A keyring that fits does so after every step that does not write.
LEMMA FitsStays ==
    ASSUME TypeOK, RelayInv, PairInv, OfferedInv, FileInv, Next, NEW n, Fits(n),
           Paired("stage-write", "activate") => pair.link \in Held(n)
    PROVE  Sound(n)' /\ Complete(n)' /\ \A j \in {Copy, file} : Follows(j, n)'
<1>1. KeyringsInv /\ Copy \in Keyring /\ file \in Keyring /\ Sound(Copy) /\ Sound(file)
  BY DEF FileInv, KeyringsInv, Keyrings, Sound
<1>2. n \in Keyring /\ Sound(n) /\ Complete(n) /\ \A j \in {Copy, file} : Follows(j, n)
  BY DEF Fits
<1>3. \A l \in file.pending : Live(l) => l \in Held(n) \cup lost
  BY <1>2 DEF Follows
<1>4. Sound(n)' /\ Complete(n)'
  BY <1>1, <1>2, <1>3, SoundStays, CompleteStays
<1>5. ASSUME NEW j \in {Copy, file}
      PROVE  Follows(j, n)'
  BY <1>1, <1>2, FollowsStays
<1> QED BY <1>4, <1>5

\* The file fits itself.
LEMMA FileFits == ASSUME FileInv PROVE Fits(file)
  BY FollowsItself DEF FileInv, KeyringsInv, HeldInv, StaleInv, Keyrings, Fits, Sound

\* It is enough to look at the values of the copy, the file and what was loaded.
LEMMA FileInvNext ==
    ASSUME NEW c, NEW f, Copy' = c, file' = f,
           Sound(c)', \A k \in {f} \cup Taken' : Sound(k)' /\ Complete(k)' /\ Follows(c, k)' /\ Follows(f, k)'
    PROVE  FileInv'
<1>1. Keyrings' = {c, f} \cup Taken'
  BY DEF Keyrings
<1>2. KeyringsInv'
  BY <1>1 DEF KeyringsInv
<1>3. HeldInv'
  BY DEF HeldInv
<1>4. StaleInv'
  BY DEF StaleInv
<1> QED BY <1>2, <1>3, <1>4 DEF FileInv

\* Loading keeps the invariant of the keyrings.
LEMMA CopiesKeep ==
    ASSUME TypeOK, RelayInv, PairInv, OfferedInv, FileInv, Next, Copies
    PROVE  FileInv'
<1>1. PICK c \in {Copy, file} : Copy' = c
  BY DEF Copies
<1>2. PICK f \in {file} : file' = f
  BY DEF Copies
<1>3. ASSUME NEW k \in {f} \cup Taken'
      PROVE  Sound(k)' /\ Complete(k)' /\ Follows(c, k)' /\ Follows(f, k)'
  <2>1. Fits(k)
    BY <1>2, <1>3, FileFits, TakenFits DEF Copies, FileInv
  <2> QED BY <1>1, <1>2, <2>1, FitsStays DEF Copies
<1>4. Sound(c)'
  <2>1. c \in Keyring /\ Sound(c)
    BY <1>1 DEF FileInv, KeyringsInv, Keyrings, Sound
  <2> QED BY <2>1, SoundStays
<1> QED BY <1>1, <1>2, <1>3, <1>4, FileInvNext

\* A write under the lock keeps it.
LEMMA WritesKeep ==
    ASSUME TypeOK, LockInv, RelayInv, PairInv, RemoveInv, OfferedInv, FileInv, Next, Writes
    PROVE  FileInv'
<1>1. PICK c \in Taken, n \in Keyring :
        /\ file' = n
        /\ \/ Paired("stage-write", "activate") /\ c = pair.copy /\ n = Staged(c, pair.link) /\ Valid(n)
           \/ /\ pair.at = "persist-write" /\ PairEnds /\ c = pair.copy
              /\ ~ActivationRejected(c, pair.link) /\ n = Activated(c, pair.link) /\ Valid(n)
           \/ remove.at = "revoke-write" /\ RemoveEnds /\ c = remove.copy /\ n = GenerationRevoked(c, remove.w, remove.g)
  BY DEF Writes
<1>2. Fits(c) /\ confirmed \subseteq Links
  BY TakenFits DEF FileInv, TypeOK
<1>3. Fits(n) /\ (Paired("stage-write", "activate") => pair.link \in Held(n))
  <2>1. CASE Paired("stage-write", "activate") /\ n = Staged(c, pair.link) /\ Valid(n)
    <3>1. pair.link \in confirmed
      BY <2>1 DEF Paired, PairInv
    <3> QED BY <1>2, <2>1, <3>1, StagedFits
  <2>2. CASE pair.at = "persist-write" /\ ~ActivationRejected(c, pair.link) /\ n = Activated(c, pair.link) /\ Valid(n)
    <3>1. pair.link \in confirmed /\ Newest(pair.link) /\ DoneIn(pair.link, relay[pair.link.w])
      BY <2>2 DEF PairInv
    <3> QED BY <1>2, <2>2, <3>1, ActivatedFits DEF Paired
  <2>3. CASE remove.at = "revoke-write" /\ RemoveEnds /\ n = GenerationRevoked(c, remove.w, remove.g)
    <3>1. remove.w \in Watches /\ remove.g \in Nat /\ GoneIn(remove.g, relay[remove.w])
      BY <2>3 DEF RemoveInv, TypeOK
    <3>2. Fits(n)
      BY <1>2, <2>3, <3>1, RevokedFits
    <3>3. ~Paired("stage-write", "activate")
      <4>1. lock = "remove"
        BY <2>3 DEF LockInv, RemoveWrites
      <4>2. pair.at # "stage-write"
        BY <4>1 DEF LockInv, PairWrites
      <4> QED BY <4>2 DEF Paired
    <3> QED BY <3>2, <3>3
  <2> QED BY <1>1, <2>1, <2>2, <2>3
<1>4. PICK d \in {Copy} : Copy' = d
  BY DEF Writes
<1>5. Sound(n)' /\ Complete(n)' /\ Follows(d, n)'
  BY <1>3, <1>4, FitsStays
<1>6. Sound(d)'
  <2>1. d \in Keyring /\ Sound(d)
    BY <1>4 DEF FileInv, KeyringsInv, Keyrings, Sound
  <2> QED BY <2>1, SoundStays
<1> QED BY <1>1, <1>4, <1>5, <1>6, FollowsItself, FileInvNext DEF Writes

\* The daemon's reconciliation keeps it.
LEMMA ReconcilesKeep ==
    ASSUME TypeOK, LockInv, RelayInv, PairInv, OfferedInv, FileInv, DaemonInv, Next, Reconciles
    PROVE  FileInv'
<1>1. PICK n \in {Reconciled(file, daemon.snapshot)} : file' = n /\ Copy' = n
  BY DEF Reconciles, Holds
<1>2. n \in Keyring /\ Sound(n) /\ Complete(n)
  <2>1. file \in Keyring /\ Sound(file) /\ Complete(file)
    BY FileFits DEF Fits
  <2> QED BY <1>1, <2>1, ReconciledFits DEF Reconciles, DaemonInv
<1>3. Taken' = {}
  <2>1. Taken = {}
    BY LockedTaken DEF Reconciles
  <2> QED BY <2>1 DEF Reconciles, DaemonFrame, Taken, PairWrites, RemoveWrites
<1>4. Sound(n)' /\ Complete(n)'
  <2>1. Sound(n)'
    BY <1>2, SoundStays
  <2> QED BY <1>2, <2>1 DEF Reconciles, DaemonFrame, Complete, Owed, Resumed, Live
<1> QED BY <1>1, <1>3, <1>4, FollowsItself, FileInvNext

\* The daemon's pruning keeps it, since what it loses is remembered.
LEMMA PrunesKeep ==
    ASSUME TypeOK, LockInv, RelayInv, PairInv, OfferedInv, FileInv, Next, Prunes
    PROVE  FileInv'
<1>1. PICK removed \in SUBSET (Pinned(Copy) \ With(Copy, "active")) :
        /\ Copy' = Pruned(Copy, removed)
        /\ \/ file' = file /\ lost' = lost
           \/ /\ file' = Pruned(Copy, removed)
              /\ lost' = lost \cup {l \in Links : l \in Held(file) /\ l \notin Held(Pruned(Copy, removed))}
  BY DEF Prunes, Holds
<1>2. PICK n \in {Pruned(Copy, removed)} : TRUE
  OBVIOUS
<1>3. n \in Keyring /\ Sound(n) /\ \A m : Follows(Copy, m) => Follows(n, m)
  <2>1. Copy \in Keyring /\ Sound(Copy)
    BY DEF FileInv, KeyringsInv, Keyrings, Sound
  <2> QED BY <1>2, <2>1, PrunedFits
<1>4. /\ Taken' = Taken /\ lost \subseteq lost' /\ ~Paired("stage-write", "activate")
      /\ \A l : Owed(l)' = Owed(l)
  <2>1. pair' = pair /\ remove' = remove /\ relay' = relay /\ lost \subseteq lost'
    BY <1>1 DEF Prunes, DaemonFrame
  <2>2. Taken' = Taken /\ ~Paired("stage-write", "activate")
    BY <2>1 DEF Taken, PairWrites, RemoveWrites, Paired
  <2>3. ASSUME NEW l
        PROVE  Owed(l)' = Owed(l)
    BY <2>1, Zenon DEF Owed, Resumed, Live
  <2> QED BY <2>1, <2>2, <2>3
<1>f. PICK f \in {file} : TRUE
  OBVIOUS
<1>5. ASSUME NEW k \in {f} \cup Taken
      PROVE  Sound(k)' /\ Complete(k)' /\ Follows(n, k)' /\ Follows(f, k)'
  <2>1. Fits(k)
    BY <1>f, <1>5, FileFits, TakenFits DEF FileInv
  <2>2. Follows(n, k) /\ k \in Keyring
    BY <1>3, <2>1 DEF Fits
  <2>3. Sound(k)' /\ Complete(k)' /\ Follows(f, k)'
    BY <1>4, <1>f, <2>1, FitsStays
  <2>4. Follows(n, k)'
    BY <1>3, <2>2, FollowsStays
  <2> QED BY <2>3, <2>4
<1>6. Sound(n)'
  BY <1>3, SoundStays
<1>7. CASE file' = file
  <2>1. file' = f
    BY <1>7, <1>f
  <2> QED BY <1>1, <1>2, <1>4, <1>5, <1>6, <2>1, FileInvNext
<1>8. CASE /\ file' = n
           /\ lost' = lost \cup {l \in Links : l \in Held(file) /\ l \notin Held(n)}
  <2>1. Complete(n)'
    <3>1. ASSUME NEW l \in Links, Owed(l)
          PROVE  l \in Held(n) \cup lost'
      BY <1>8, <3>1, FileFits DEF Fits, Complete
    <3> QED BY <1>4, <3>1 DEF Complete
  <2> QED BY <1>1, <1>2, <1>4, <1>5, <1>6, <1>8, <2>1, FollowsItself, FileInvNext
<1> QED BY <1>1, <1>2, <1>7, <1>8

\* Every step keeps the invariant of the keyrings.
LEMMA FileStays ==
    ASSUME TypeOK, LockInv, RelayInv, PairInv, RemoveInv, OfferedInv, FileInv, DaemonInv, Next
    PROVE  FileInv'
<1>1. CASE daemon' = daemon
  BY <1>1, CommandStep, CopiesKeep, WritesKeep
<1>2. CASE Fetches \/ Adopts \/ Waits
  <2>1. file' = file /\ Copy' \in {Copy, file} /\ pair' = pair /\ remove' = remove
    BY <1>2 DEF Fetches, Adopts, Waits, Holds, DaemonFrame
  <2>2. Copies
    BY <2>1, TakenStep DEF Copies, Paired
  <2> QED BY <2>2, CopiesKeep
<1>3. CASE Reconciles
  BY <1>3, ReconcilesKeep
<1>4. CASE Prunes
  BY <1>4, PrunesKeep
<1> QED BY <1>1, <1>2, <1>3, <1>4, DaemonStep

---------------------------------------------------------------------------
(* The types                                                               *)

\* The pairing command keeps its type.
LEMMA PairTypes == ASSUME TypeOK, Next PROVE pair' \in Pairings
<1>t. pair \in Pairings /\ file \in Keyring
  BY DEF TypeOK, Pairings, PairSteps
<1>e. ASSUME NEW error \in {"none", "locked", "refused", "relay"}, EndPair(error)
      PROVE  pair' \in Pairings
  BY <1>e DEF EndPair, Pairings, PairSteps
<1>1. ASSUME NEW w \in Watches, PairWatch(w)
      PROVE  pair' \in Pairings
  <2>1. PICK offer \in Offers(w) :
          /\ offer.next \in Links
          /\ pair' = IF AlreadyActive(offer) THEN [pair EXCEPT !.error = "none"]
                     ELSE [at |-> "prompt", link |-> offer.next, copy |-> file, error |-> "none"]
    BY <1>1 DEF PairWatch
  <2>2. [pair EXCEPT !.error = "none"] \in Pairings
    BY <1>t DEF Pairings
  <2>3. [at |-> "prompt", link |-> offer.next, copy |-> file, error |-> "none"] \in Pairings
    BY <1>t, <2>1 DEF Pairings, PairSteps
  <2> QED BY <2>1, <2>2, <2>3
<1>2. ASSUME NEW at \in PairSteps, pair' = [pair EXCEPT !.at = at] \/ pair' = [pair EXCEPT !.at = at, !.copy = None]
                                   \/ pair' = [pair EXCEPT !.at = at, !.copy = file]
      PROVE  pair' \in Pairings
  BY <1>t, <1>2 DEF Pairings
<1>3. CASE ConfirmMatch
  BY <1>3, <1>e, <1>2 DEF ConfirmMatch, PairSteps
<1>4. CASE ConfirmLink
  BY <1>4, <1>e, <1>2 DEF ConfirmLink, PairSteps
<1>5. CASE LockForPair
  BY <1>5, <1>e, <1>2 DEF LockForPair, PairSteps
<1>6. CASE StageActivation
  BY <1>6, <1>e, <1>2 DEF StageActivation, PairSteps
<1>7. CASE ActivateLink
  BY <1>7, <1>e, <1>2 DEF ActivateLink, PairSteps
<1>8. CASE PersistActive
  BY <1>8, <1>e DEF PersistActive
<1>9. CASE Fault
  BY <1>9, <1>e, <1>t DEF Fault
<1>10. CASE pair' = pair
  BY <1>10, <1>t
<1> QED BY <1>1, <1>3, <1>4, <1>5, <1>6, <1>7, <1>8, <1>9, <1>10, Actors DEF PairActions

\* The removing command keeps its type.
LEMMA RemovalTypes == ASSUME TypeOK, Next PROVE remove' \in Removals
<1>t. remove \in Removals /\ file \in Keyring
  BY DEF TypeOK, Removals, RemovalSteps
<1>e. EndRemove => remove' \in Removals
  BY DEF EndRemove, Removals, RemovalSteps
<1>1. ASSUME NEW w \in Watches, ListWatches(w)
      PROVE  remove' \in Removals
  <2>1. relay[w].g \in Nat
    BY DEF TypeOK
  <2> QED BY <1>1, <2>1 DEF ListWatches, Removals, RemovalSteps
<1>2. ASSUME NEW at \in RemovalSteps, remove' = [remove EXCEPT !.at = at]
                                      \/ remove' = [remove EXCEPT !.at = at, !.copy = file]
      PROVE  remove' \in Removals
  BY <1>t, <1>2 DEF Removals
<1>3. CASE RemoveWatch
  BY <1>3, <1>e, <1>2 DEF RemoveWatch, RemovalSteps
<1>4. CASE LockForRemove
  BY <1>4, <1>e, <1>2 DEF LockForRemove, RemovalSteps
<1>5. CASE RevokeWatchGeneration
  BY <1>5, <1>e DEF RevokeWatchGeneration
<1>6. CASE Fault
  BY <1>6, <1>e, <1>t DEF Fault
<1>7. CASE remove' = remove
  BY <1>7, <1>t
<1> QED BY <1>1, <1>3, <1>4, <1>5, <1>6, <1>7, Actors DEF RemoveActions

DaemonSteps == {"idle", "reconcile", "lock", "prune"}
Daemons == [pins : [Links -> Statuses \cup {None}], pending : SUBSET Links, at : DaemonSteps,
            snapshot : SUBSET Links, known : SUBSET Links, base : Keyring \cup {None}]

\* The daemon keeps its type.
LEMMA DaemonTypes == ASSUME TypeOK, Next PROVE daemon' \in Daemons
<1>t. daemon \in Daemons /\ file \in Keyring
  BY DEF TypeOK, Daemons, DaemonSteps
<1>c. Copy \in Keyring /\ Pinned(Copy) \subseteq Links /\ daemon.snapshot \subseteq Links
  BY <1>t DEF Daemons, Copy, Keyring, Pinned
<1>h. ASSUME NEW k \in Keyring, NEW at \in DaemonSteps
      PROVE  /\ Holding(k, at) \in Daemons
             /\ [Holding(k, at) EXCEPT !.snapshot = daemon.snapshot, !.known = Pinned(Copy), !.base = k] \in Daemons
  <2>1. Holding(k, at) = [pins |-> k.pins, pending |-> k.pending, at |-> at, snapshot |-> {}, known |-> {}, base |-> None]
    BY DEF Holding
  <2>2. k.pins \in [Links -> Statuses \cup {None}] /\ k.pending \subseteq Links
    BY DEF Keyring
  <2>3. Holding(k, at) \in Daemons
    BY <2>1, <2>2 DEF Daemons
  <2>4. ASSUME NEW d \in Daemons
        PROVE  [d EXCEPT !.snapshot = daemon.snapshot, !.known = Pinned(Copy), !.base = k] \in Daemons
    BY <1>c DEF Daemons
  <2> QED BY <2>3, <2>4
<1>1. CASE FetchSnapshot
  <2>1. Recipients \subseteq Links
    BY DEF Recipients, TypeOK
  <2>2. daemon' = [daemon EXCEPT !.at = "reconcile", !.snapshot = Recipients]
    BY <1>1 DEF FetchSnapshot
  <2> QED BY <1>t, <2>1, <2>2 DEF Daemons, DaemonSteps
<1>2. CASE ReconcileCopy
  <2> DEFINE k == IF Served(Copy, daemon.snapshot) THEN Copy ELSE file
  <2>1. k \in Keyring
    BY <1>c, <1>t
  <2>2. \/ daemon' = Holding(k, "idle") \/ daemon' = Holding(k, "prune")
        \/ daemon' = [Holding(k, "lock") EXCEPT !.snapshot = daemon.snapshot, !.known = Pinned(Copy), !.base = k]
    BY <1>2 DEF ReconcileCopy
  <2> HIDE DEF k
  <2> QED BY <1>h, <2>1, <2>2 DEF DaemonSteps
<1>3. CASE ReconcileFile
  <2> DEFINE k == IF file # daemon.base THEN file ELSE Copy
  <2>1. \/ daemon' = Holding(Copy, "idle") \/ daemon' = Holding(k, "idle")
        \/ daemon' = Holding(Reconciled(k, daemon.snapshot), "prune")
    BY <1>3 DEF ReconcileFile
  <2>2. k \in Keyring
    BY <1>c, <1>t
  <2> HIDE DEF k
  <2>3. Reconciled(k, daemon.snapshot) \in Keyring
    BY <2>2, ReconciledFacts
  <2> QED BY <1>c, <1>h, <2>1, <2>2, <2>3 DEF DaemonSteps
<1>4. CASE PruneRetiring
  <2>1. PICK removed \in SUBSET (Pinned(Copy) \ With(Copy, "active")) : daemon' = Holding(Pruned(Copy, removed), "idle")
    BY <1>4 DEF PruneRetiring, Pruned
  <2>2. Pruned(Copy, removed) \in Keyring
    BY <1>c, PrunedFacts
  <2> QED BY <1>h, <2>1, <2>2 DEF DaemonSteps
<1>5. CASE Fault
  BY <1>5, <1>h, <1>t DEF Fault, DaemonSteps
<1>6. CASE daemon' = daemon
  BY <1>6, <1>t
<1>7. CASE ~(FetchSnapshot \/ ReconcileCopy \/ ReconcileFile \/ PruneRetiring \/ Fault)
  BY <1>6, <1>7 DEF Next, WatchConfirms, WatchActivates, Expire, PairWatch, ListWatches, ConfirmMatch, ConfirmLink,
     LockForPair, StageActivation, ActivateLink, PersistActive, RemoveWatch, LockForRemove, RevokeWatchGeneration
<1> QED BY <1>1, <1>2, <1>3, <1>4, <1>5, <1>7

\* Every variable keeps its type.
LEMMA TypesStay ==
    ASSUME TypeOK, RelayInv, PairInv, OfferedInv, Next, FileInv'
    PROVE  TypeOK'
<1>1. file' \in Keyring
  BY DEF FileInv, KeyringsInv, Keyrings, Sound
<1>2. relay' \in [Watches -> Entries] /\ confirmed' \subseteq Links
  BY RelayStays, OfferedStays
<1>3. lock' \in {None, "pair", "remove"}
  <2>1. lock \in {None, "pair", "remove"}
    BY DEF TypeOK
  <2> QED BY <2>1, Actors, PairStep, RemovalStep DEF PairEnds, RemoveEnds, StageActivation
<1>4. lost' \subseteq Links
  <2>1. lost \subseteq Links
    BY DEF TypeOK
  <2>2. CASE PruneRetiring
    BY <2>1, <2>2 DEF PruneRetiring
  <2>3. lost' = lost \/ PruneRetiring
    BY DEF Next, WatchConfirms, WatchActivates, Expire, PairWatch, ListWatches, ConfirmMatch, ConfirmLink,
       LockForPair, StageActivation, ActivateLink, PersistActive, RemoveWatch, LockForRemove,
       RevokeWatchGeneration, FetchSnapshot, ReconcileCopy, ReconcileFile, Fault
  <2> QED BY <2>1, <2>2, <2>3
<1>5. faults' \in 0 .. MaxFaults
  <2>1. faults \in 0 .. MaxFaults
    BY DEF TypeOK
  <2>2. faults' = faults \/ (faults < MaxFaults /\ faults' = faults + 1)
    BY DEF Next, WatchConfirms, WatchActivates, Expire, PairWatch, ListWatches, ConfirmMatch, ConfirmLink,
       LockForPair, StageActivation, ActivateLink, PersistActive, RemoveWatch, LockForRemove,
       RevokeWatchGeneration, FetchSnapshot, ReconcileCopy, ReconcileFile, PruneRetiring, Fault
  <2> QED BY <2>1, <2>2, BoundsAssumption DEF BoundsAssumption
<1>6. pair' \in Pairings /\ remove' \in Removals /\ daemon' \in Daemons
  BY PairTypes, RemovalTypes, DaemonTypes
<1> QED BY <1>1, <1>2, <1>3, <1>4, <1>5, <1>6
        DEF TypeOK, Pairings, PairSteps, Removals, RemovalSteps, Daemons, DaemonSteps, Entries, RelayStates

---------------------------------------------------------------------------
(* The theorems                                                            *)

\* The invariant holds at first.
LEMMA KeyringStart == ASSUME Init PROVE KeyringInv
<1> USE NoneAssumption, BoundsAssumption DEF NoneAssumption, BoundsAssumption, Init
<1>e. Empty \in Keyring /\ Pinned(Empty) = {} /\ Empty.pending = {} /\ With(Empty, "active") = {} /\ Revoked(Empty) = {}
  BY DEF Empty, Keyring, Pinned, With, Revoked, Statuses
<1>c. Copy = Empty /\ daemon.at = "idle"
  BY <1>e, HoldingFacts, Remade DEF Copy
<1>1. TypeOK
  <2>1. daemon = [pins |-> Empty.pins, pending |-> Empty.pending, at |-> "idle", snapshot |-> {}, known |-> {}, base |-> None]
    BY DEF Holding
  <2>2. Empty.pins \in [Links -> Statuses \cup {None}] /\ Empty.pending \subseteq Links
    BY <1>e DEF Keyring
  <2>3. relay \in [Watches -> Entries]
    BY DEF NoLink, Entries, RelayStates
  <2>4. daemon \in Daemons /\ pair \in Pairings /\ remove \in Removals
    BY <2>1, <2>2 DEF Daemons, DaemonSteps, Pairings, PairSteps, Removals, RemovalSteps
  <2> QED BY <1>e, <2>3, <2>4
          DEF TypeOK, Pairings, PairSteps, Removals, RemovalSteps, Daemons, DaemonSteps, Entries, RelayStates
<1>2. Taken = {} /\ LockInv
  BY DEF Taken, PairWrites, RemoveWrites, LockInv
<1>3. RelayInv
  BY DEF RelayInv, EntryOK, NoLink, Entries, RelayStates
<1>4. KeyringsInv
  <2>1. Sound(Empty)
    BY <1>e DEF Sound, Valid
  <2> QED BY <1>2, <1>c, <2>1 DEF KeyringsInv, Keyrings
<1>5. HeldInv
  <2>1. ASSUME NEW l \in Links
        PROVE  ~Owed(l)
    <3>1. l.w \in Watches
      BY DEF Links
    <3> QED BY <3>1 DEF Owed, OwedIn, Resumed, NoLink
  <2> QED BY <1>2, <2>1 DEF HeldInv, Complete
<1>6. StaleInv
  BY <1>2, <1>c, FollowsItself DEF StaleInv
<1>7. OfferedInv /\ PairInv /\ RemoveInv /\ DaemonInv
  BY <1>c DEF OfferedInv, PairInv, RemoveInv, DaemonInv, RemoveWrites
<1> QED BY <1>1, <1>2, <1>3, <1>4, <1>5, <1>6, <1>7 DEF KeyringInv

\* Every step keeps the invariant.
LEMMA KeyringStepKeeps == ASSUME KeyringInv, Next PROVE KeyringInv'
<1> USE DEF KeyringInv
<1>1. LockInv' /\ RelayInv' /\ OfferedInv' /\ PairInv' /\ RemoveInv' /\ DaemonInv'
  BY LockStays, RelayStays, OfferedStays, PairingStays, RemovalStays, DaemonStays
<1>2. FileInv'
  BY FileStays DEF FileInv
<1>3. TypeOK'
  BY <1>2, TypesStay
<1> QED BY <1>1, <1>2, <1>3 DEF FileInv

\* So does a step that changes nothing.
LEMMA KeyringStutters == ASSUME KeyringInv, UNCHANGED vars PROVE KeyringInv'
<1> USE DEF vars
<1>1. TypeOK' /\ LockInv' /\ RelayInv' /\ OfferedInv'
  BY DEF KeyringInv, TypeOK, LockInv, PairWrites, RemoveWrites, RelayInv, OfferedInv, Offered
<1>2. Copy' = Copy /\ Taken' = Taken /\ Keyrings' = Keyrings /\ file' = file
  BY DEF Copy, Taken, PairWrites, RemoveWrites, Keyrings
<1>3. ASSUME NEW k, NEW j
      PROVE  Sound(k)' = Sound(k) /\ Complete(k)' = Complete(k) /\ Follows(j, k)' = Follows(j, k)
  BY Zenon DEF Sound, Complete, Follows, Owed, Resumed, Live, Settled
<1>4. KeyringsInv' /\ HeldInv' /\ StaleInv'
  BY <1>2, <1>3 DEF KeyringInv, KeyringsInv, HeldInv, StaleInv
<1>5. PairInv' /\ RemoveInv'
  BY DEF KeyringInv, PairInv, Newest, PairWrites, RemoveInv, RemoveWrites
<1>6. DaemonInv'
  BY <1>2 DEF KeyringInv, DaemonInv, Live
<1> QED BY <1>1, <1>4, <1>5, <1>6 DEF KeyringInv

\* The inductive invariant holds of every state.
THEOREM KeyringInvariance == Spec => []KeyringInv
<1>1. KeyringInv /\ [Next]_vars => KeyringInv'
  BY KeyringStepKeeps, KeyringStutters
<1> QED BY KeyringStart, <1>1, PTL DEF Spec

\* The variables of the keyring keep their types.
THEOREM KeyringTypeCorrect == Spec => []TypeOK
<1>1. KeyringInv => TypeOK
  BY DEF KeyringInv
<1> QED BY KeyringInvariance, <1>1, PTL

\* Whatever pairing, removal and the daemon do to the file, load() accepts it, it
\* has confirmed links only and every recipient's link is in it or was overwritten.
THEOREM KeyringStaysSound == Spec => []KeyringIsSound
<1>1. KeyringInv => KeyringIsSound
  <2> SUFFICES ASSUME KeyringInv PROVE KeyringIsSound
    OBVIOUS
  <2>1. Sound(file) /\ Complete(file)
    BY DEF KeyringInv, KeyringsInv, Keyrings, HeldInv
  <2>2. ASSUME NEW w \in Watches, relay[w].active # None, relay[w].state \notin {"host", "watch"}
        PROVE  relay[w].active \in Held(file) \cup lost
    <3>1. relay[w].active \in Links /\ relay[w].active.w = w
      BY <2>2 DEF KeyringInv, RelayInv, EntryOK, Entries
    <3>2. Owed(relay[w].active)
      BY <2>2, <3>1 DEF Owed, OwedIn
    <3> QED BY <2>1, <3>1, <3>2 DEF Complete
  <2> QED BY <2>1, <2>2 DEF KeyringIsSound, Sound, ActiveLinksAreHeld, Held
<1> QED BY KeyringInvariance, <1>1, PTL

\* A pin the daemon has revoked is not used by it again, for the file and whatever
\* was loaded from it have it revoked as well.
THEOREM RevocationIsFinal == Spec => RevokedStaysRevoked
<1> DEFINE Kept == \A l \in Links : daemon.pins[l] = "revoked" => daemon'.pins[l] \in {"revoked", None}
<1>1. ASSUME KeyringInv, Next PROVE Kept
  <2>1. /\ TypeOK /\ DaemonInv /\ Follows(Copy, file) /\ file \in Keyring /\ Copy \in Keyring
        /\ Copy.pins = daemon.pins /\ Copy'.pins = daemon'.pins
    BY <1>1 DEF KeyringInv, StaleInv, KeyringsInv, Keyrings, Sound, Copy
  <2>2. Revoked(Copy) \subseteq Revoked(file)
    BY <2>1 DEF Follows
  <2>3. CASE Copy' \in {Copy, file}
    BY <2>1, <2>2, <2>3 DEF Revoked, With
  <2>4. CASE Reconciles
    <3>1. Revoked(file) \subseteq Revoked(Copy')
      BY <2>1, <2>4, ReconciledFacts DEF Reconciles, Holds
    <3> QED BY <2>1, <2>2, <3>1 DEF Revoked, With
  <2>5. CASE Prunes
    <3>1. PICK removed \in SUBSET (Pinned(Copy) \ With(Copy, "active")) : Copy' = Pruned(Copy, removed)
      BY <2>5 DEF Prunes, Holds
    <3> QED BY <2>1, <3>1, PrunedFacts
  <2>6. Copy' \in {Copy, file} \/ Reconciles \/ Prunes
    BY <1>1, <2>1, DaemonStep DEF Fetches, Adopts, Waits, Holds, Copy
  <2> QED BY <2>3, <2>4, <2>5, <2>6
<1>2. KeyringInv /\ [Next]_vars => [Kept]_vars
  BY <1>1
<1> QED BY KeyringInvariance, <1>2, PTL DEF Spec, RevokedStaysRevoked

---------------------------------------------------------------------------
(* Refusals                                                                *)

\* A link that both sides are confirming, and that the keyring has not staged.
Confirming ==
  \/ pair.at \in {"confirm", "stage", "stage-write"}
  \/ pair.at = "prompt" /\ pair.link \notin pair.copy.pending

\* The link has no pin yet, neither in the file nor in what was loaded from it.
Unpinned(l) == l \in lost \/ \A k \in {file} \cup Taken : l \notin Pinned(k)

UnpinnedInv == Confirming => Unpinned(pair.link)

\* What was loaded is in the file still, or was lost.
LoadedInv == \A k \in Taken : Held(k) \subseteq Held(file) \cup lost

\* A pin retires for a later link.
Superseded(k) == \A b \in With(k, "retiring") : \E c \in confirmed : c.w = b.w /\ Later(c, b)
RetiredInv == \A k \in Keyrings : Superseded(k)

RefusalInv == UnpinnedInv /\ LoadedInv /\ RetiredInv

\* A link is its Watch, generation and epoch.
LEMMA LinkEquality == ASSUME NEW a \in Links, NEW b \in Links, a.w = b.w, a.g = b.g, a.e = b.e PROVE a = b
  BY DEF Links

\* The link that is paired is later than every other confirmed link of its Watch.
LEMMA NewestIsLater ==
    ASSUME OfferedInv, NEW l, Newest(l), NEW b \in confirmed, b \in Links, b.w = l.w, b # l
    PROVE  Later(l, b) /\ ~Later(b, l)
<1>1. l \in Links /\ l.g \in Nat /\ l.e \in Nat /\ b.g \in Nat /\ b.e \in Nat
  BY BoundsAssumption DEF Newest, Links, BoundsAssumption
<1>2. ~(b.g = l.g /\ b.e = l.e)
  BY <1>1, LinkEquality
<1> QED BY <1>1, <1>2 DEF OfferedInv, Offered, OfferedBy, Newest, Later

\* The daemon's steps and those of the commands, as the keyrings see them.
LEMMA KeyringSteps ==
    ASSUME KeyringInv, Next
    PROVE  /\ Copies \/ Writes \/ Reconciles \/ Prunes
           /\ \A k \in Taken' : k \in Taken \/ k = file
  BY CommandStep, DaemonStep, TakenStep
     DEF KeyringInv, Copies, Fetches, Adopts, Waits, Holds, DaemonFrame, Paired

\* A link without a pin gets one only where pairing activates it.
LEMMA UnpinnedStays ==
    ASSUME KeyringInv, Next, NEW l, Unpinned(l), pair.at # "persist-write"
    PROVE  Unpinned(l)'
<1>0. lost \subseteq lost' /\ file \in Keyring /\ Copy \in Keyring /\ Pinned(Copy) \subseteq Pinned(file)
  BY ConfirmedStep DEF KeyringInv, KeyringsInv, Keyrings, Sound, StaleInv, Follows
<1>1. CASE l \in lost
  BY <1>0, <1>1 DEF Unpinned
<1>2. CASE \A k \in {file} \cup Taken : l \notin Pinned(k)
  <2>1. l \notin Pinned(file')
    <3>1. CASE Copies
      BY <1>2, <3>1 DEF Copies
    <3>2. CASE Writes
      <4>1. PICK c \in Taken : \/ file' = Staged(c, pair.link) /\ Paired("stage-write", "activate")
                               \/ file' = GenerationRevoked(c, remove.w, remove.g)
        BY <3>2 DEF Writes
      <4>2. c \in Keyring /\ l \notin Pinned(c)
        BY <1>2 DEF KeyringInv, KeyringsInv, Keyrings, Sound
      <4>3. Paired("stage-write", "activate") => pair.link \in Links
        BY DEF Paired, KeyringInv, PairInv, Newest
      <4> QED BY <4>1, <4>2, <4>3, StagedFacts, RevokedFacts
    <3>3. CASE Reconciles
      BY <1>0, <1>2, <3>3, ReconciledFacts DEF Reconciles
    <3>4. CASE Prunes
      <4>1. PICK removed \in SUBSET (Pinned(Copy) \ With(Copy, "active")) : file' = file \/ file' = Pruned(Copy, removed)
        BY <3>4 DEF Prunes
      <4> QED BY <1>0, <1>2, <4>1, PrunedFacts
    <3> QED BY <3>1, <3>2, <3>3, <3>4, KeyringSteps
  <2>2. \A k \in {file'} \cup Taken' : l \notin Pinned(k)
    BY <1>2, <2>1, KeyringSteps
  <2> QED BY <2>2 DEF Unpinned, Pinned
<1> QED BY <1>1, <1>2 DEF Unpinned

\* A link whose pairing begins has no pin, unless a stale copy has overwritten it.
LEMMA PairingStarts ==
    ASSUME KeyringInv, LoadedInv, Next, NEW w \in Watches, PairWatch(w), pair'.at = "prompt", NEW l,
           l = pair'.link, l \notin file.pending
    PROVE  Unpinned(l)'
<1>t. TypeOK /\ RelayInv /\ PairInv /\ OfferedInv /\ relay \in [Watches -> Entries] /\ pair \in Pairings
  BY DEF KeyringInv, TypeOK, Entries, RelayStates, Pairings, PairSteps
<1>0. pair.at = "idle" /\ [pair EXCEPT !.error = "none"].at = pair.at
  BY <1>t DEF PairWatch, Pairings
<1>1. PICK offer \in Offers(w) :
        /\ offer.next \in Links /\ relay' = [relay EXCEPT ![w] = offer]
        /\ pair' = IF AlreadyActive(offer) THEN [pair EXCEPT !.error = "none"]
                   ELSE [at |-> "prompt", link |-> offer.next, copy |-> file, error |-> "none"]
  BY DEF PairWatch
<1>2. l = offer.next /\ l \in Links /\ ~AlreadyActive(offer)
  BY <1>0, <1>1
<1>3. relay'[w] = offer /\ EntryOK(w, offer)
  <2>1. \A v \in Watches : EntryOK(v, relay'[v])
    BY <1>t, RelayStays DEF RelayInv
  <2> QED BY <1>1, <1>t, <2>1
<1>4. l.w = w /\ relay'[l.w].next = l
  BY <1>2, <1>3, NoneAssumption DEF EntryOK, NoneAssumption
<1>5. ASSUME NEW k \in Keyrings, l \in Pinned(k)
      PROVE  k.pins[l] = "active" /\ offer.state = "host"
  <2>1. Sound(k)'
    BY <1>5, <1>t, SoundStays DEF KeyringInv, KeyringsInv, Sound
  <2>2. Live(l)'
    BY <1>4 DEF Live, LiveIn
  <2>3. Settled(l)' /\ k.pins[l] = "active"
    BY <1>5, <2>1, <2>2 DEF Sound
  <2> QED BY <1>3, <1>4, <2>3 DEF Settled, SettledIn
<1>6. l \notin Pinned(file)
  BY <1>2, <1>5 DEF AlreadyActive, Keyrings
<1>7. file' = file /\ lost' = lost /\ \A k \in Taken' : k \in Taken \/ k = file
  BY KeyringSteps DEF PairWatch
<1>8. ASSUME NEW k \in Taken, l \in Pinned(k)
      PROVE  l \in lost
  <2>1. l \in Held(k) /\ l \notin Held(file)
    BY <1>2, <1>5, <1>6, <1>8, NoneAssumption DEF Keyrings, Held, With, Pinned, NoneAssumption, Statuses
  <2> QED BY <2>1 DEF LoadedInv
<1> QED BY <1>6, <1>7, <1>8 DEF Unpinned, Pinned

\* A link that is being confirmed stays without a pin.
LEMMA UnpinnedKept ==
    ASSUME KeyringInv, UnpinnedInv, LoadedInv, Next
    PROVE  UnpinnedInv'
<1> USE DEF UnpinnedInv
<1>1. CASE pair' = pair /\ Confirming
  <2>1. PICK l \in {pair.link} : pair'.link = l
    BY <1>1
  <2>2. Unpinned(l)'
    BY <1>1, <2>1, UnpinnedStays DEF Confirming
  <2> QED BY <2>1, <2>2 DEF Unpinned
<1>2. CASE PairActions
  <2>1. CASE pair'.at \in {"idle", "activate", "persist", "persist-write"}
    BY <2>1 DEF Confirming
  <2>2. ASSUME NEW w \in Watches, PairWatch(w), pair'.at = "prompt", pair'.copy = file, Confirming'
        PROVE  Unpinned(pair.link)'
    <3>1. PICK l \in {pair'.link} : TRUE
      OBVIOUS
    <3>2. Unpinned(l)'
      BY <2>2, <3>1, PairingStarts DEF Confirming
    <3> QED BY <3>1, <3>2 DEF Unpinned
  <2>3. CASE Confirming /\ pair'.link = pair.link /\ pair.at # "persist-write"
    <3>1. PICK l \in {pair.link} : pair'.link = l
      BY <2>3
    <3>2. Unpinned(l)'
      BY <2>3, <3>1, UnpinnedStays
    <3> QED BY <3>1, <3>2 DEF Unpinned
  <2> QED BY <1>2, <2>1, <2>2, <2>3, PairStep DEF KeyringInv, PairEnds, Paired, Confirming
<1> QED BY <1>1, <1>2, Actors DEF Confirming

\* What was loaded stays in the file, or is lost.
LEMMA LoadedKept ==
    ASSUME KeyringInv, LoadedInv, Next
    PROVE  LoadedInv'
<1>1. ASSUME NEW k \in Taken'
      PROVE  Held(k) \subseteq Held(file') \cup lost'
  <2>0. Held(k) \subseteq Held(file) \cup lost /\ lost \subseteq lost'
    BY <1>1, KeyringSteps, ConfirmedStep DEF LoadedInv, KeyringInv
  <2>1. CASE Copies
    BY <2>0, <2>1 DEF Copies
  <2>2. CASE Writes
    BY <1>1, <2>2 DEF Writes
  <2>3. CASE Reconciles
    <3>1. Taken = {} /\ Taken' = Taken
      BY <2>3, LockedTaken DEF KeyringInv, Reconciles, DaemonFrame, Taken, PairWrites, RemoveWrites
    <3> QED BY <1>1, <3>1
  <2>4. CASE Prunes
    <3>1. file' = file \/ lost' = lost \cup {l \in Links : l \in Held(file) /\ l \notin Held(file')}
      BY <2>4 DEF Prunes
    <3>2. Held(file) \subseteq Links
      BY DEF KeyringInv, TypeOK, Keyring, Held, With
    <3> QED BY <2>0, <3>1, <3>2
  <2> QED BY <2>1, <2>2, <2>3, <2>4, KeyringSteps
<1> QED BY <1>1 DEF LoadedInv, Held, With

\* A pin retires for a later link only.
LEMMA RetiredKept ==
    ASSUME KeyringInv, RetiredInv, Next
    PROVE  RetiredInv'
<1>0. /\ confirmed \subseteq confirmed'
      /\ file \in Keyring /\ Copy \in Keyring /\ \A c \in Taken : c \in Keyring /\ Superseded(c)
      /\ Superseded(file) /\ Superseded(Copy)
  BY OfferedStays DEF KeyringInv, KeyringsInv, RetiredInv, Keyrings, Sound
<1>s. ASSUME NEW k, NEW n, Superseded(k), With(n, "retiring") \subseteq With(k, "retiring")
      PROVE  Superseded(n)
  BY <1>s DEF Superseded
<1>1. ASSUME NEW k \in Keyrings'
      PROVE  Superseded(k)
  <2>1. k \in Taken' => Superseded(k)
    BY <1>0, KeyringSteps
  <2>2. CASE Copies
    BY <1>0, <1>1, <2>1, <2>2 DEF Copies, Keyrings
  <2>3. CASE Writes
    <3>1. PICK c \in Taken, n \in Keyring :
            /\ file' = n
            /\ \/ Paired("stage-write", "activate") /\ n = Staged(c, pair.link)
               \/ pair.at = "persist-write" /\ ~ActivationRejected(c, pair.link) /\ n = Activated(c, pair.link) /\ Valid(n)
               \/ n = GenerationRevoked(c, remove.w, remove.g)
      BY <2>3 DEF Writes
    <3>2. c \in Keyring /\ Superseded(c)
      BY <1>0
    <3>3. CASE Paired("stage-write", "activate") /\ n = Staged(c, pair.link)
      <4>1. pair.link \in Links
        BY <3>3 DEF Paired, KeyringInv, PairInv, Newest
      <4>2. With(n, "retiring") \subseteq With(c, "retiring")
        BY <3>2, <3>3, <4>1, StagedFacts DEF With
      <4> QED BY <1>0, <1>1, <1>s, <2>1, <2>3, <3>1, <3>2, <4>2 DEF Keyrings, Writes
    <3>4. CASE pair.at = "persist-write" /\ ~ActivationRejected(c, pair.link) /\ n = Activated(c, pair.link) /\ Valid(n)
      <4> DEFINE l == pair.link
      <4>1. l \in Links /\ l \in confirmed
        BY <3>4 DEF KeyringInv, PairInv, Newest
      <4>2. /\ n.pins[l] = "active" /\ Pinned(n) = Pinned(c) \cup {l}
            /\ \A b \in Links : b # l => n.pins[b] = c.pins[b] \/ (b.w = l.w /\ c.pins[b] = "active" /\ n.pins[b] = "retiring")
        BY <3>2, <3>4, <4>1, ActivatedFacts
      <4>3. ASSUME NEW b \in With(n, "retiring")
            PROVE  \E d \in confirmed : d.w = b.w /\ Later(d, b)
        <5>1. b \in Links /\ b # l /\ b \in Pinned(n)
          BY <4>2, <4>3, NoneAssumption DEF With, Pinned, NoneAssumption, Statuses
        <5>2. CASE n.pins[b] = c.pins[b]
          BY <3>2, <4>3, <5>1, <5>2 DEF Superseded, With
        <5>3. CASE b.w = l.w
          <6>1. Later(l, b)
            BY <3>4, <4>1, <4>2, <5>1, <5>3 DEF Valid, With
          <6> QED BY <4>1, <5>3, <6>1
        <5> QED BY <4>2, <5>1, <5>2, <5>3
      <4>4. Superseded(n)
        BY <4>3 DEF Superseded
      <4> QED BY <1>0, <1>1, <2>1, <2>3, <3>1, <4>4 DEF Keyrings, Writes
    <3>5. CASE n = GenerationRevoked(c, remove.w, remove.g)
      <4>1. With(n, "retiring") \subseteq With(c, "retiring")
        BY <3>5 DEF GenerationRevoked, With
      <4> QED BY <1>0, <1>1, <1>s, <2>1, <2>3, <3>1, <3>2, <4>1 DEF Keyrings, Writes
    <3> QED BY <3>1, <3>3, <3>4, <3>5
  <2>4. CASE Reconciles
    <3>1. PICK n \in {Reconciled(file, daemon.snapshot)} : file' = n /\ Copy' = n
      BY <2>4 DEF Reconciles, Holds
    <3>2. With(n, "retiring") \subseteq With(file, "retiring")
      BY <1>0, <3>1, ReconciledFacts DEF With
    <3> QED BY <1>0, <1>1, <1>s, <2>1, <3>1, <3>2 DEF Keyrings
  <2>5. CASE Prunes
    <3>1. PICK removed \in SUBSET (Pinned(Copy) \ With(Copy, "active")) :
            Copy' = Pruned(Copy, removed) /\ file' \in {file, Pruned(Copy, removed)}
      BY <2>5 DEF Prunes, Holds
    <3>2. With(Pruned(Copy, removed), "retiring") \subseteq With(Copy, "retiring")
      BY <1>0, <3>1, PrunedFacts, NoneAssumption DEF With, NoneAssumption, Statuses
    <3> QED BY <1>0, <1>1, <1>s, <2>1, <3>1, <3>2 DEF Keyrings
  <2> QED BY <2>2, <2>3, <2>4, <2>5, KeyringSteps
<1>2. \A k \in Keyrings' : Superseded(k)'
  BY <1>0, <1>1 DEF Superseded
<1> QED BY <1>2 DEF RetiredInv

\* Every step keeps what the refusals rest on.
LEMMA RefusalInvStep == ASSUME KeyringInv, RefusalInv, Next PROVE RefusalInv'
  BY UnpinnedKept, LoadedKept, RetiredKept DEF RefusalInv

\* It holds at first.
LEMMA RefusalInvStart == ASSUME Init PROVE RefusalInv
<1> USE NoneAssumption DEF NoneAssumption, Init
<1>1. Taken = {} /\ Copy.pins = Empty.pins /\ With(Empty, "retiring") = {}
  BY HoldingFacts DEF Taken, PairWrites, RemoveWrites, Copy, Holding, Empty, With, Statuses
<1>2. With(Copy, "retiring") = {}
  BY <1>1 DEF With
<1> QED BY <1>1, <1>2 DEF RefusalInv, UnpinnedInv, Confirming, LoadedInv, RetiredInv, Superseded, Keyrings

\* A step that changes nothing keeps it.
LEMMA RefusalInvStutters == ASSUME RefusalInv, UNCHANGED vars PROVE RefusalInv'
<1> USE DEF vars
<1>1. Copy' = Copy /\ Taken' = Taken /\ Keyrings' = Keyrings /\ file' = file /\ lost' = lost
  BY DEF Copy, Taken, PairWrites, RemoveWrites, Keyrings
<1>2. UnpinnedInv'
  BY <1>1 DEF RefusalInv, UnpinnedInv, Confirming, Unpinned
<1>3. LoadedInv' /\ RetiredInv'
  BY <1>1 DEF RefusalInv, LoadedInv, RetiredInv, Superseded
<1> QED BY <1>2, <1>3 DEF RefusalInv

\* It holds of every state.
LEMMA RefusalInvariance == Spec => [](KeyringInv /\ RefusalInv)
<1>1. Init => KeyringInv /\ RefusalInv
  BY KeyringStart, RefusalInvStart
<1>2. KeyringInv /\ RefusalInv /\ [Next]_vars => (KeyringInv /\ RefusalInv)'
  BY KeyringStepKeeps, KeyringStutters, RefusalInvStep, RefusalInvStutters
<1> QED BY <1>1, <1>2, PTL DEF Spec

\* Only the two writes of the keyring refuse.
LEMMA RefusalStep ==
    ASSUME TypeOK, Next, pair.error # "refused", pair'.error = "refused"
    PROVE  \/ pair.at = "stage-write" /\ ~Valid(Staged(pair.copy, pair.link))
           \/ /\ pair.at = "persist-write"
              /\ ActivationRejected(pair.copy, pair.link) \/ ~Valid(Activated(pair.copy, pair.link))
<1>t. pair \in Pairings
  BY DEF TypeOK, Pairings, PairSteps
<1>1. ASSUME NEW w \in Watches, PairWatch(w) PROVE FALSE
  BY <1>t, <1>1 DEF PairWatch, Pairings
<1>2. ASSUME ConfirmMatch PROVE FALSE
  <2>1. \/ EndPair("none")
        \/ pair' = [pair EXCEPT !.at = IF pair.link \in pair.copy.pending THEN "activate" ELSE "confirm", !.copy = None]
    BY <1>2 DEF ConfirmMatch
  <2>2. CASE pair' = [pair EXCEPT !.at = IF pair.link \in pair.copy.pending THEN "activate" ELSE "confirm", !.copy = None]
    BY <1>t, <2>2 DEF Pairings
  <2> QED BY <2>1, <2>2 DEF EndPair
<1>3. ASSUME ConfirmLink PROVE FALSE
  BY <1>t, <1>3 DEF ConfirmLink, EndPair, Pairings
<1>4. ASSUME LockForPair PROVE FALSE
  <2>1. \/ EndPair("locked")
        \/ pair' = [pair EXCEPT !.at = IF pair.at = "stage" THEN "stage-write" ELSE "persist-write", !.copy = file]
    BY <1>4 DEF LockForPair
  <2>2. CASE pair' = [pair EXCEPT !.at = IF pair.at = "stage" THEN "stage-write" ELSE "persist-write", !.copy = file]
    BY <1>t, <2>2 DEF Pairings
  <2> QED BY <2>1, <2>2 DEF EndPair
<1>5. ASSUME ActivateLink PROVE FALSE
  BY <1>t, <1>5 DEF ActivateLink, EndPair, Pairings
<1>6. ASSUME Fault PROVE FALSE
  BY <1>t, <1>6 DEF Fault, EndPair, Pairings
<1>7. StageActivation \/ PersistActive
  BY <1>1, <1>2, <1>3, <1>4, <1>5, <1>6, Actors DEF PairActions
<1>8. CASE StageActivation
  BY <1>t, <1>8 DEF StageActivation, EndPair, Pairings
<1>9. CASE PersistActive
  BY <1>9 DEF PersistActive, EndPair
<1> QED BY <1>7, <1>8, <1>9

\* A staged activation makes the keyring invalid only where its link has a pin, is
\* not the latest, or another of the same Watch is staged.
LEMMA StagedIsValid ==
    ASSUME NEW k \in Keyring, Valid(k), NEW l \in Links, l \notin Pinned(k),
           \A b \in Pinned(k) : b.w = l.w => Later(l, b),
           \A p \in k.pending : p.w = l.w => p = l
    PROVE  Valid(Staged(k, l))
<1> DEFINE n == Staged(k, l)
<1>1. n.pins = k.pins /\ n.pending = k.pending \cup {l} /\ Pinned(n) = Pinned(k)
  BY StagedFacts
<1>2. With(n, "active") = With(k, "active")
  BY <1>1 DEF With
<1>3. \A a \in With(n, "active"), b \in Pinned(n) : a # b /\ a.w = b.w => Later(a, b)
  BY <1>1, <1>2 DEF Valid
<1>4. ASSUME NEW p \in n.pending
      PROVE  /\ p \notin Pinned(n)
             /\ \A q \in n.pending : p # q => p.w # q.w
             /\ \A b \in Pinned(n) : b.w = p.w => Later(p, b)
  BY <1>1, <1>4 DEF Valid
<1> QED BY <1>3, <1>4 DEF Valid

\* An activation that is not rejected makes the keyring invalid only where another
\* link of the same Watch is staged.
LEMMA ActivatedIsValid ==
    ASSUME NEW k \in Keyring, Valid(k), NEW l \in Links, ~ActivationRejected(k, l),
           \A b \in Pinned(k) : b.w = l.w /\ b # l => Later(l, b),
           \A p \in k.pending : p.w = l.w => p = l
    PROVE  Valid(Activated(k, l))
<1> DEFINE n == Activated(k, l)
<1>1. n \in Keyring /\ n.pending = k.pending \ {l} /\ Pinned(n) = Pinned(k) \cup {l}
  BY ActivatedFacts
<1>2. \A b \in Links : n.pins[b] = IF b = l THEN "active"
                                   ELSE IF b.w = l.w /\ k.pins[b] = "active" THEN "retiring" ELSE k.pins[b]
  BY DEF Activated
<1>3. ASSUME NEW a \in With(n, "active"), a # l
      PROVE  a \in With(k, "active") /\ a.w # l.w
  BY <1>2, <1>3 DEF With
<1>4. ASSUME NEW a \in With(n, "active"), NEW b \in Pinned(n), a # b, a.w = b.w
      PROVE  Later(a, b)
  BY <1>1, <1>3, <1>4 DEF Valid
<1>5. ASSUME NEW p \in n.pending
      PROVE  /\ p \notin Pinned(n)
             /\ \A q \in n.pending : p # q => p.w # q.w
             /\ \A b \in Pinned(n) : b.w = p.w => Later(p, b)
  BY <1>1, <1>5 DEF Valid
<1> QED BY <1>4, <1>5 DEF Valid

\* A pairing that both sides have confirmed is refused only for an earlier staged
\* activation of its Watch, for its own revocation, or after a stale copy has
\* overwritten the file: never for a newer pin, a retired one or an invalid file.
THEOREM RefusalsAreExplained == Spec => RefusalIsExplained
<1> DEFINE Explained ==
      \/ \E p \in pair.copy.pending : p.w = pair.link.w /\ p # pair.link
      \/ pair.copy.pins[pair.link] = "revoked"
      \/ pair.link \in lost
<1> DEFINE Refused == pair.error # "refused" /\ pair'.error = "refused" => Explained
<1>1. ASSUME KeyringInv, RefusalInv, Next, pair.error # "refused", pair'.error = "refused", ~Explained
      PROVE  FALSE
  <2> DEFINE k == pair.copy
             l == pair.link
  <2>1. \/ pair.at = "stage-write" /\ ~Valid(Staged(k, l))
        \/ pair.at = "persist-write" /\ (ActivationRejected(k, l) \/ ~Valid(Activated(k, l)))
    BY <1>1, RefusalStep DEF KeyringInv
  <2>2. k \in Taken /\ Newest(l) /\ l \in Links /\ l \in confirmed
    BY <1>1, <2>1 DEF KeyringInv, PairInv, PairWrites, Taken, Newest
  <2>3. Sound(k) /\ Superseded(k) /\ OfferedInv
    BY <1>1, <2>2 DEF KeyringInv, KeyringsInv, Keyrings, RefusalInv, RetiredInv
  <2>4. k \in Keyring /\ Valid(k) /\ Pinned(k) \subseteq confirmed /\ Pinned(k) \subseteq Links /\ confirmed \subseteq Links
    BY <1>1, <2>3 DEF Sound, Pinned, KeyringInv, TypeOK
  <2>5. \A b \in confirmed : b.w = l.w /\ b # l => Later(l, b) /\ ~Later(b, l)
    BY <2>2, <2>3, <2>4, NewestIsLater
  <2>6. ~Later(l, l)
    BY <2>2, BoundsAssumption DEF Later, Links, BoundsAssumption
  <2>7. \A p \in k.pending : p.w = l.w => p = l
    BY <1>1
  <2>8. CASE pair.at = "stage-write"
    <3>1. l \notin Pinned(k)
      BY <1>1, <2>2, <2>8 DEF RefusalInv, UnpinnedInv, Confirming, Unpinned
    <3>2. Valid(Staged(k, l))
      BY <2>2, <2>4, <2>5, <2>7, <3>1, StagedIsValid
    <3> QED BY <2>1, <2>8, <3>2
  <2>9. CASE pair.at = "persist-write"
    <3>1. k.pins[l] # "retiring"
      BY <2>2, <2>3, <2>5, <2>6 DEF Superseded, With
    <3>2. ~ActivationRejected(k, l)
      BY <1>1, <2>4, <2>5, <2>6, <3>1 DEF ActivationRejected
    <3>3. Valid(Activated(k, l))
      BY <2>2, <2>4, <2>5, <2>7, <3>2, ActivatedIsValid
    <3> QED BY <2>1, <2>9, <3>2, <3>3
  <2> QED BY <2>1, <2>8, <2>9
<1>2. KeyringInv /\ RefusalInv /\ [Next]_vars => [Refused]_vars
  BY <1>1
<1> QED BY RefusalInvariance, <1>2, PTL DEF Spec, RefusalIsExplained

===========================================================================
