---------------------------- MODULE LinkKeyring ----------------------------
(***************************************************************************)
(* The link keyring (e2e/link-keyring.ts): which Watches this Host encrypts*)
(* for and takes commands from.  The keyring is one file that three        *)
(* processes change: `ariava pair` (e2e/host-safety-code-activation.ts,    *)
(* cli/operations/pair.ts), `ariava watches remove` (cli/operations/       *)
(* watches.ts) and the daemon, which keeps a copy of the file and applies  *)
(* the Relay's recipient snapshots to it.                                  *)
(*                                                                         *)
(* Changes are made under a mutation lock, from a fresh copy of the file - *)
(* except the pruning of old pins, which writes the daemon's own copy.     *)
(* A locked change is two steps, the load under the lock and the write;    *)
(* the lock of a process that dies is recovered (ProcessAwareLock).        *)
(*                                                                         *)
(* A link is a Watch with its generation and epoch.  Keys, bindings, codes *)
(* and proofs are abstracted to whether the confirmation took place.  The  *)
(* Host's encryption key does not change while the daemon runs.            *)
(***************************************************************************)
EXTENDS Naturals, FiniteSets

CONSTANTS
  Watches,
  None,
  MaxGeneration,    \* bound: how often a Watch is linked anew
  MaxEpoch,         \* bound: epochs of one generation
  MaxFaults         \* bound: deaths of a CLI, restarts of the daemon and lost answers

VARIABLES
  file,       \* the keyring on disk
  daemon,     \* pins, pending: its copy; at, snapshot, known: its step
  pair,       \* the pairing process
  remove,     \* the removing process
  lock,       \* the holder of the mutation lock
  relay,      \* per Watch: the active link, the pending one and its state
  confirmed,  \* links whose Safety Code was confirmed on both sides
  lost,       \* links of the file that a stale copy has overwritten
  faults

vars == <<file, daemon, pair, remove, lock, relay, confirmed, lost, faults>>

ASSUME BoundsAssumption == MaxGeneration \in Nat /\ MaxEpoch \in Nat /\ MaxFaults \in Nat

Links == [w : Watches, g : 1 .. MaxGeneration, e : 1 .. MaxEpoch]
Statuses == {"active", "retiring", "revoked"}

ASSUME NoneAssumption == None \notin Links \cup Statuses \cup {"pair", "remove"}

\* pins: the status of each link that has a pin; pending: the staged activations.
Keyring == [pins : [Links -> Statuses \cup {None}], pending : SUBSET Links]

Pinned(k) == {l \in Links : k.pins[l] # None}
With(k, status) == {l \in Links : k.pins[l] = status}

\* comparePinTuple
Later(a, b) == a.g > b.g \/ (a.g = b.g /\ a.e > b.e)

---------------------------------------------------------------------------
(* What the keyring itself refuses                                         *)

\* validateState: at most one active pin and one staged activation for each
\* Watch; an active pin is its latest, a staged activation is later than all.
Valid(k) ==
  /\ \A a \in With(k, "active"), b \in Pinned(k) : a # b /\ a.w = b.w => Later(a, b)
  /\ \A p \in k.pending :
       /\ p \notin Pinned(k)
       /\ \A q \in k.pending : p # q => p.w # q.w
       /\ \A b \in Pinned(k) : b.w = p.w => Later(p, b)

Staged(k, l) == [k EXCEPT !.pending = @ \cup {l}]

\* Mutant: only a newer pin rejects an activation.
RejectedByNewer(k, l) == \E b \in Pinned(k) : b.w = l.w /\ Later(b, l)

\* Mutant: the active pin of the previous epoch is not retired.
ActivatedBeside(k, l) ==
  [pins |-> [k.pins EXCEPT ![l] = "active"], pending |-> k.pending \ {l}]

\* persistActive: a newer pin of the same Watch rejects it, its own pin must be
\* identical, older active pins retire and the staged activation is dropped.
ActivationRejected(k, l) ==
  \/ \E b \in Pinned(k) : b.w = l.w /\ Later(b, l)
  \/ k.pins[l] \in {"retiring", "revoked"}

Activated(k, l) ==
  [pins |-> [b \in Links |-> IF b = l THEN "active"
                             ELSE IF b.w = l.w /\ k.pins[b] = "active" THEN "retiring" ELSE k.pins[b]],
   pending |-> k.pending \ {l}]

\* revokeWatchGeneration
GenerationRevoked(k, w, g) ==
  [pins |-> [b \in Links |-> IF b.w = w /\ b.g = g /\ k.pins[b] # None THEN "revoked" ELSE k.pins[b]],
   pending |-> {p \in k.pending : p.w # w \/ p.g # g}]

\* materialForRecipient for all of a snapshot
Served(k, snapshot) == snapshot \subseteq With(k, "active")

\* reconciledPins: what the snapshot leaves out is revoked, except a retiring pin
\* with a successor in it.
Reconciled(k, snapshot) ==
  [k EXCEPT !.pins = [b \in Links |->
     IF k.pins[b] \in {None, "revoked"} \/ b \in snapshot THEN k.pins[b]
     ELSE IF k.pins[b] = "retiring" /\ \E s \in snapshot : s.w = b.w /\ Later(s, b) THEN "retiring"
     ELSE "revoked"]]

\* Mutant: what the refresh has brought is taken to be as old as the snapshot.
PredatesNever(k, snapshot, known) == FALSE

\* An active pin that appeared with the refresh and is not in the snapshot.
Predates(k, snapshot, known) == \E b \in With(k, "active") : b \notin snapshot /\ b \notin known

---------------------------------------------------------------------------
(* The Relay and the Watch                                                 *)

NoLink == [active |-> None, next |-> None, state |-> "none", g |-> 0, e |-> 0]
Recipients == {relay[w].active : w \in Watches} \ {None}
\* The Relay has no recipient set while one side only has activated a link.
NotReady == \E w \in Watches : relay[w].state \in {"host", "watch"}

BothActive(w) == [relay[w] EXCEPT !.active = relay[w].next, !.next = None, !.state = "none"]

\* The Watch's confirmation and activation, and the end of the time for them.
WatchConfirms(w) ==
  /\ relay[w].state = "pending"
  /\ relay' = [relay EXCEPT ![w].state = "proved"]
  /\ UNCHANGED <<file, daemon, pair, remove, lock, confirmed, lost, faults>>

WatchActivates(w) ==
  /\ relay[w].state \in {"complete", "host"}
  /\ relay' = [relay EXCEPT ![w] = IF relay[w].state = "host" THEN BothActive(w) ELSE [@ EXCEPT !.state = "watch"]]
  /\ UNCHANGED <<file, daemon, pair, remove, lock, confirmed, lost, faults>>

Expire(w) ==
  /\ relay[w].state \in {"pending", "proved", "complete"}
  /\ relay' = [relay EXCEPT ![w].next = None, ![w].state = "none"]
  /\ UNCHANGED <<file, daemon, pair, remove, lock, confirmed, lost, faults>>

---------------------------------------------------------------------------
(* ariava pair                                                             *)

Release(process) == lock' = IF lock = process THEN None ELSE lock
EndPair(error) == pair' = [at |-> "idle", link |-> None, copy |-> None, error |-> error] /\ Release("pair")

\* A link that is still pending is offered again; otherwise the Relay opens a new
\* generation, or, for a linked Watch, the next epoch.
Offers(w) ==
  LET r == relay[w] IN
  IF r.next # None THEN {r}
  ELSE {[r EXCEPT !.next = [w |-> w, g |-> t[1], e |-> t[2]], !.g = t[1], !.e = t[2], !.state = "pending"] :
          t \in (IF r.active = None THEN {<<r.g + 1, 1>>} ELSE {<<r.g, r.e + 1>>})}

\* runHostSafetyCodeActivation: a half activated link that has its active pin ends
\* the command.
AlreadyActive(offer) == offer.state \in {"host", "watch"} /\ file.pins[offer.next] = "active"

\* pairProfile up to the prompt: the keyring is opened after the Relay's answer.
PairWatch(w) ==
  /\ pair.at = "idle"
  /\ \E offer \in Offers(w) :
       /\ offer.next \in Links
       /\ relay' = [relay EXCEPT ![w] = offer]
       /\ pair' = IF AlreadyActive(offer)
                  THEN [pair EXCEPT !.error = "none"]
                  ELSE [at |-> "prompt", link |-> offer.next, copy |-> file, error |-> "none"]
  /\ UNCHANGED <<file, daemon, remove, lock, confirmed, lost, faults>>

\* The user confirms the Safety Code or does not.
ConfirmMatch ==
  /\ pair.at = "prompt"
  /\ \/ EndPair("none")
     \/ pair' = [pair EXCEPT !.at = IF pair.link \in pair.copy.pending THEN "activate" ELSE "confirm", !.copy = None] /\ UNCHANGED lock
  /\ UNCHANGED <<file, daemon, remove, relay, confirmed, lost, faults>>

\* confirmLink, again and again until the Watch's proof is there or time is up.
ConfirmLink ==
  /\ pair.at = "confirm"
  /\ LET r == relay[pair.link.w] IN
     \/ /\ r.next = pair.link /\ r.state # "pending"
        /\ relay' = [relay EXCEPT ![pair.link.w].state = IF @ = "proved" THEN "complete" ELSE @]
        /\ confirmed' = confirmed \cup {pair.link}
        /\ pair' = [pair EXCEPT !.at = "stage"]
        /\ UNCHANGED lock
     \/ EndPair("none") /\ UNCHANGED <<relay, confirmed>>
  /\ UNCHANGED <<file, daemon, remove, lost, faults>>

\* updatePersisted of stageActivation and of persistActive: the load.
LockForPair ==
  /\ pair.at \in {"stage", "persist"}
  /\ IF lock = None
     THEN /\ lock' = "pair"
          /\ pair' = [pair EXCEPT !.at = IF @ = "stage" THEN "stage-write" ELSE "persist-write", !.copy = file]
     ELSE EndPair("locked")
  /\ UNCHANGED <<file, daemon, remove, relay, confirmed, lost, faults>>

StageActivation ==
  /\ pair.at = "stage-write"
  /\ IF Valid(Staged(pair.copy, pair.link))
     THEN /\ file' = Staged(pair.copy, pair.link)
          /\ pair' = [pair EXCEPT !.at = "activate", !.copy = None] /\ lock' = None
     ELSE EndPair("refused") /\ UNCHANGED file
  /\ UNCHANGED <<daemon, remove, relay, confirmed, lost, faults>>

\* activateLink: refused when the link is gone; its answer may be lost.
ActivateLink ==
  /\ pair.at = "activate"
  /\ LET r == relay[pair.link.w] IN
     IF r.active = pair.link \/ (r.next = pair.link /\ r.state \in {"complete", "host", "watch"})
     THEN /\ relay' = [relay EXCEPT ![pair.link.w] =
               IF r.active = pair.link THEN r
               ELSE IF r.state = "watch" THEN BothActive(pair.link.w)
               ELSE [r EXCEPT !.state = "host"]]
          /\ \/ pair' = [pair EXCEPT !.at = "persist"] /\ UNCHANGED <<lock, faults>>
             \/ faults < MaxFaults /\ faults' = faults + 1 /\ EndPair("relay")
     ELSE EndPair("relay") /\ UNCHANGED <<relay, faults>>
  /\ UNCHANGED <<file, daemon, remove, confirmed, lost>>

PersistActive ==
  /\ pair.at = "persist-write"
  /\ IF ActivationRejected(pair.copy, pair.link) \/ ~Valid(Activated(pair.copy, pair.link))
     THEN EndPair("refused") /\ UNCHANGED file
     ELSE file' = Activated(pair.copy, pair.link) /\ EndPair("none")
  /\ UNCHANGED <<daemon, remove, relay, confirmed, lost, faults>>

---------------------------------------------------------------------------
(* ariava watches remove                                                   *)

EndRemove == remove' = [at |-> "idle", w |-> None, g |-> 0, copy |-> None] /\ Release("remove")

Linked(w) == relay[w].active # None \/ relay[w].next # None

ListWatches(w) ==
  /\ remove.at = "idle" /\ Linked(w)
  /\ remove' = [at |-> "unlink", w |-> w, g |-> relay[w].g, copy |-> None]
  /\ UNCHANGED <<file, daemon, pair, lock, relay, confirmed, lost, faults>>

\* removeWatch of the listed generation; its answer may be lost.
RemoveWatch ==
  /\ remove.at = "unlink"
  /\ IF Linked(remove.w) /\ relay[remove.w].g = remove.g
     THEN /\ relay' = [relay EXCEPT ![remove.w] = [NoLink EXCEPT !.g = remove.g, !.e = relay[remove.w].e]]
          /\ \/ remove' = [remove EXCEPT !.at = "revoke"] /\ UNCHANGED <<lock, faults>>
             \/ faults < MaxFaults /\ faults' = faults + 1 /\ EndRemove
     ELSE EndRemove /\ UNCHANGED <<relay, faults>>
  /\ UNCHANGED <<file, daemon, pair, confirmed, lost>>

LockForRemove ==
  /\ remove.at = "revoke"
  /\ IF lock = None THEN lock' = "remove" /\ remove' = [remove EXCEPT !.at = "revoke-write", !.copy = file]
     ELSE EndRemove
  /\ UNCHANGED <<file, daemon, pair, relay, confirmed, lost, faults>>

RevokeWatchGeneration ==
  /\ remove.at = "revoke-write"
  /\ file' = GenerationRevoked(remove.copy, remove.w, remove.g)
  /\ EndRemove
  /\ UNCHANGED <<daemon, pair, relay, confirmed, lost, faults>>

---------------------------------------------------------------------------
(* The daemon                                                              *)

Copy == [pins |-> daemon.pins, pending |-> daemon.pending]
Holding(k, at) ==
  [pins |-> k.pins, pending |-> k.pending, at |-> at, snapshot |-> {}, known |-> {}, base |-> None]

\* The daemon fetches one snapshot at a time, so their versions never go back; a
\* version it has accepted comes with the same recipients.
FetchSnapshot ==
  /\ daemon.at = "idle" /\ ~NotReady
  /\ daemon' = [daemon EXCEPT !.at = "reconcile", !.snapshot = Recipients]
  /\ UNCHANGED <<file, pair, remove, lock, relay, confirmed, lost, faults>>

\* reconcileRecipients up to the lock: a recipient the copy does not have calls for
\* a refresh from the file.
ReconcileCopy ==
  /\ daemon.at = "reconcile"
  /\ LET served == Served(Copy, daemon.snapshot)
         k == IF served THEN Copy ELSE file IN
     IF ~Served(k, daemon.snapshot) \/ (~served /\ Predates(k, daemon.snapshot, Pinned(Copy)))
     THEN daemon' = Holding(k, "idle")
     ELSE IF Reconciled(k, daemon.snapshot) = k THEN daemon' = Holding(k, "prune")
     ELSE daemon' = [Holding(k, "lock") EXCEPT !.snapshot = daemon.snapshot, !.known = Pinned(Copy), !.base = k]
  /\ UNCHANGED <<file, pair, remove, lock, relay, confirmed, lost, faults>>

\* ... and under the lock: a file that has changed is reconciled instead.
ReconcileFile ==
  /\ daemon.at = "lock"
  /\ LET changed == file # daemon.base
         k == IF changed THEN file ELSE Copy IN
     IF lock # None THEN daemon' = Holding(Copy, "idle") /\ UNCHANGED file
     ELSE IF changed /\ (~Served(k, daemon.snapshot) \/ Predates(k, daemon.snapshot, daemon.known))
     THEN daemon' = Holding(k, "idle") /\ UNCHANGED file
     ELSE daemon' = Holding(Reconciled(k, daemon.snapshot), "prune") /\ file' = Reconciled(k, daemon.snapshot)
  /\ UNCHANGED <<pair, remove, lock, relay, confirmed, lost, faults>>

\* pruneRetiring: pins that nothing refers to any more; the copy is written as it is.
PruneRetiring ==
  /\ daemon.at = "prune"
  /\ \E removed \in SUBSET (Pinned(Copy) \ With(Copy, "active")) :
       LET k == [Copy EXCEPT !.pins = [b \in Links |-> IF b \in removed THEN None ELSE @[b]]] IN
       /\ daemon' = Holding(k, "idle")
       /\ file' = IF removed = {} THEN file ELSE k
       /\ lost' = IF removed = {} THEN lost
                  ELSE lost \cup {l \in Links : l \in With(file, "active") \cup file.pending
                                                /\ l \notin With(k, "active") \cup k.pending}
  /\ UNCHANGED <<pair, remove, lock, relay, confirmed, faults>>

\* A process dies, a new daemon opens the file.
Fault ==
  /\ faults < MaxFaults /\ faults' = faults + 1
  /\ \/ pair.at # "idle" /\ EndPair("none") /\ UNCHANGED <<daemon, remove>>
     \/ remove.at # "idle" /\ EndRemove /\ UNCHANGED <<daemon, pair>>
     \/ daemon' = Holding(file, "idle") /\ UNCHANGED <<pair, remove, lock>>
  /\ UNCHANGED <<file, relay, confirmed, lost>>

---------------------------------------------------------------------------

Empty == [pins |-> [l \in Links |-> None], pending |-> {}]

Init ==
  /\ file = Empty
  /\ daemon = Holding(Empty, "idle")
  /\ pair = [at |-> "idle", link |-> None, copy |-> None, error |-> "none"]
  /\ remove = [at |-> "idle", w |-> None, g |-> 0, copy |-> None]
  /\ lock = None
  /\ relay = [w \in Watches |-> NoLink]
  /\ confirmed = {} /\ lost = {} /\ faults = 0

Next ==
  \/ \E w \in Watches : WatchConfirms(w) \/ WatchActivates(w) \/ Expire(w) \/ PairWatch(w) \/ ListWatches(w)
  \/ ConfirmMatch \/ ConfirmLink \/ LockForPair \/ StageActivation \/ ActivateLink \/ PersistActive
  \/ RemoveWatch \/ LockForRemove \/ RevokeWatchGeneration
  \/ FetchSnapshot \/ ReconcileCopy \/ ReconcileFile \/ PruneRetiring
  \/ Fault

Spec == Init /\ [][Next]_vars

---------------------------------------------------------------------------
(* Properties                                                              *)

\* Type invariant: every variable has its shape.
TypeOK ==
  /\ file \in Keyring
  /\ daemon \in [pins : [Links -> Statuses \cup {None}], pending : SUBSET Links,
                 at : {"idle", "reconcile", "lock", "prune"}, snapshot : SUBSET Links,
                 known : SUBSET Links, base : Keyring \cup {None}]
  /\ pair \in [at : {"idle", "prompt", "confirm", "stage", "stage-write", "activate", "persist", "persist-write"},
               link : Links \cup {None}, copy : Keyring \cup {None},
               error : {"none", "locked", "refused", "relay"}]
  /\ remove \in [at : {"idle", "unlink", "revoke", "revoke-write"}, w : Watches \cup {None},
                 g : Nat, copy : Keyring \cup {None}]
  /\ lock \in {None, "pair", "remove"}
  /\ relay \in [Watches -> [active : Links \cup {None}, next : Links \cup {None}, g : Nat, e : Nat,
                            state : {"none", "pending", "proved", "complete", "host", "watch"}]]
  /\ confirmed \subseteq Links /\ lost \subseteq Links
  /\ faults \in 0 .. MaxFaults

\* A link that the Relay names as a recipient can be used here: it has an active
\* pin, or the staged activation from which pairing resumes, unless a stale copy
\* of the daemon's has overwritten it.
ActiveLinksAreHeld ==
  \A w \in Watches : relay[w].active # None /\ relay[w].state \notin {"host", "watch"} =>
    relay[w].active \in With(file, "active") \cup file.pending \cup lost

\* Whatever the three processes and their faults do to the file, it is one that
\* load() accepts, it holds no link that was not confirmed on both sides, and
\* every recipient's link is in it.
KeyringIsSound ==
  /\ Valid(file)
  /\ Pinned(file) \cup file.pending \subseteq confirmed
  /\ ActiveLinksAreHeld

\* A pin the daemon has revoked is never used by it again, and not after a restart.
RevokedStaysRevoked ==
  [][\A l \in Links : daemon.pins[l] = "revoked" => daemon'.pins[l] \in {"revoked", None}]_vars

\* The keyring refuses a pairing that both sides have confirmed only where an
\* earlier activation of the same Watch is still staged, where the link itself was
\* revoked before it was complete, or after a stale copy has overwritten the file.
RefusalIsExplained ==
  [][pair.error # "refused" /\ pair'.error = "refused" =>
       \/ \E p \in pair.copy.pending : p.w = pair.link.w /\ p # pair.link
       \/ pair.copy.pins[pair.link] = "revoked"
       \/ pair.link \in lost]_vars

===========================================================================
