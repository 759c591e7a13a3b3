---------------------------- MODULE Publication ----------------------------
(***************************************************************************)
(* How the Bridge publishes its sessions and Events to the Relay.          *)
(*                                                                         *)
(* One sync pass (daemon/sync-workflow.ts, daemon.ts) takes an immutable   *)
(* copy of the sessions, settles uploads of unknown fate, uploads every    *)
(* session for one recipient-set version, sends the manifest that refers   *)
(* to those uploads, and then drains the queued Events, each with the      *)
(* session as it was when the Event was made (e2e/upload-actions.ts).      *)
(* Every upload takes the next revision of its session and is kept as      *)
(* evidence until the Relay's verdict on it is known.                      *)
(*                                                                         *)
(* A request to the Relay is one step.  It is answered, or lost before it  *)
(* arrives, or its answer is lost; a lost request does not arrive later.   *)
(* The content of a session is what its digest covers; it may return to an *)
(* earlier value, as a status does.                                        *)
(***************************************************************************)
EXTENDS Integers, Sequences, FiniteSets, FiniteSetsExt, SequencesExt

CONSTANTS
    NumSessions,        \* sessions are 1..NumSessions, in the store's order
    Contents,           \* contents of a session, 0 is the first
    Unfit,              \* contents that the preflight refuses
    MaxRevs,            \* bound: a pass begins only below this session revision
    Scenarios,          \* the sessions at the start, and bounds: changes of the
                        \* sessions, Events, pairings, lost requests and crashes
    RelayAhead          \* manifest revisions the Relay may hold at the start

ASSUME PublicationAssumption ==
    /\ {NumSessions, MaxRevs} \subseteq Nat \ {0}
    /\ Scenarios \subseteq [present : SUBSET (1..NumSessions), changes : Nat,
                            events : Nat, pairings : Nat, mishaps : Nat]
    /\ RelayAhead \subseteq Nat /\ 0 \in Contents /\ Unfit \subseteq Contents \ {0}

Sessions == 1..NumSessions

\* An encrypted upload; two encryptions at one revision are told apart by their
\* number, since their bytes differ.
NoUpload == [rev |-> 0, content |-> 0, recips |-> 0, event |-> 0, enc |-> 0]

VARIABLES
    present,            \* state.sessions: the sessions there are
    content,            \* ... and their content; 0 is the first
    rev,                \* state.sessionRevisions
    recips,             \* state.recipientSetVersion, 0 when undefined
    manifest,           \* state.currentSessionsSnapshot
    inflight,           \* spool: inflight:session:<id>
    queue,              \* spool: Event sources, each with its inflight upload
    dead,               \* spool: Events moved to the dead letters
    pass,               \* the local variables of the pass under way
    fails,              \* snapshotFailureState.count, as far as it matters
    offline,            \* the last pass found the host offline
    relayRecips,        \* Relay: recipient-set version
    log,                \* Relay: accepted uploads of each session, by revision
    relayManifest,      \* Relay: accepted manifest
    events,             \* Events that may still be made
    pairings,           \* changes of the recipients that may still happen
    changes,            \* changes that may still happen
    mishaps             \* mishaps that may still happen

durable == <<present, content, rev, recips, manifest, inflight, queue, dead>>
memory == <<pass, fails, offline>>
relay == <<relayRecips, log, relayManifest>>
counts == <<events, changes, pairings, mishaps>>
vars == <<durable, memory, relay, counts>>

\* The references of a manifest: a revision of each session it shows, and 0 for
\* the others.
NoRefs == [s \in Sessions |-> 0]
Referred(refs) == {s \in Sessions : refs[s] # 0}

\* No pass, or the blank locals of a new one.
Idle == [pc |-> "idle", view |-> <<>>, version |-> 0, todo |-> {}, revs |-> NoRefs,
         pub |-> [rev |-> 0, recips |-> 0], attempt |-> 0, retried |-> FALSE,
         recovering |-> FALSE, had |-> FALSE, deferred |-> FALSE, left |-> 0]

Init ==
    /\ \E b \in Scenarios :
          /\ present = b.present /\ changes = b.changes /\ events = b.events
          /\ pairings = b.pairings /\ mishaps = b.mishaps
    /\ content = [s \in Sessions |-> 0]
    /\ rev = [s \in Sessions |-> 0]
    /\ recips = 0
    /\ manifest = [alloc |-> 0, acc |-> 0, view |-> <<>>, recips |-> 0]
    /\ inflight = [s \in Sessions |-> NoUpload]
    /\ queue = <<>>
    /\ dead = {}
    /\ pass = Idle
    /\ fails = 0
    /\ offline = FALSE
    /\ relayRecips = 1
    /\ log = [s \in Sessions |-> <<>>]
    /\ relayManifest \in {[rev |-> r, recips |-> 0, refs |-> NoRefs] : r \in RelayAhead}

-----------------------------------------------------------------------------
(* The Relay, as far as the Bridge's handling of its answers shows it.     *)

\* reconcileEncryptedSession, reconcileEncryptedEvent: is this upload stored?
HeldIn(entries, u) == u.rev \in DOMAIN entries /\ entries[u.rev] = u
Holds(s, u) == HeldIn(log[s], u)

\* The answer to an upload: another recipient set first, then the revision.
Verdict(s, u) ==
    IF u.recips # relayRecips THEN "changed"
    ELSE IF Holds(s, u) \/ u.rev = Len(log[s]) + 1 THEN "ok"
    ELSE "conflict"

Stored(s, u) == IF Holds(s, u) THEN log ELSE [log EXCEPT ![s] = Append(@, u)]

\* An upload that is not answered was either lost, or stored if it was in order.
Unanswered(s, u) ==
    /\ mishaps > 0 /\ mishaps' = mishaps - 1
    /\ log' \in {log} \cup (IF Verdict(s, u) = "ok" THEN {Stored(s, u)} ELSE {})

\* Refusals of an upload; now and then the Relay lags behind itself and reports a
\* changed recipient set where there is none, or it stores an upload and refuses
\* the copy of it that follows.  The code provides for both.
Refusal(s, u, reason) ==
    \/ reason = Verdict(s, u) /\ reason # "ok" /\ UNCHANGED <<log, mishaps>>
    \/ /\ Verdict(s, u) = "ok" /\ mishaps > 0 /\ mishaps' = mishaps - 1
       /\ \/ log' = Stored(s, u)
          \/ reason = "changed" /\ UNCHANGED log

-----------------------------------------------------------------------------
(* Decisions and transitions.                                              *)

\* upload-preflight.ts: may this content be encrypted and sent?
Fit(c) == c \notin Unfit

\* commitSessionRevision: the code refuses any revision but this or the next.
Committed(s, r) == [rev EXCEPT ![s] = r]

Dropped(s) == [inflight EXCEPT ![s] = NoUpload]

\* Encryption at the next revision, and in the place of an upload not stored.
SessionUpload(c, r, v) == [rev |-> r, content |-> c, recips |-> v, event |-> 0, enc |-> 0]

Reencrypted(u, c, v) == [u EXCEPT !.content = c, !.recips = v, !.enc = @ + 1]

\* Mutant: what may be stored is encrypted again.
DecideUnasked(reason, committed, attempted, refreshed, retried) ==
    IF reason # "changed" THEN "defer"
    ELSE IF attempted = refreshed /\ retried THEN "fail-closed" ELSE "refresh-reencrypt"

\* upload-decisions.ts: decideSessionUpload, after a refusal.
DecideSession(reason, committed, attempted, refreshed, retried) ==
    IF reason # "changed" THEN IF committed THEN "commit" ELSE "defer"
    ELSE IF attempted = refreshed /\ (~committed \/ retried) THEN "fail-closed"
    ELSE IF committed THEN "retry-next-revision" ELSE "refresh-reencrypt"

\* Mutant: an Event that may be stored is given up.
DecideEventUnasked(reason, committed, refreshed) ==
    IF reason = "changed" THEN IF refreshed THEN "defer" ELSE "refresh" ELSE "quarantine"

\* upload-decisions.ts: decideEventUpload, after a refusal.
DecideEvent(reason, committed, refreshed) ==
    IF committed THEN "complete"
    ELSE IF reason = "changed" THEN IF refreshed THEN "defer" ELSE "refresh"
    ELSE "quarantine"

\* Mutant: the minimum revision is ignored.
UnchangedDespiteUploads(version, minimum) ==
    manifest.view = pass.view /\ manifest.recips = version

\* createCurrentSessionsPublication: nothing to say, or the next revision.
Unchanged(version, minimum) ==
    /\ manifest.view = pass.view /\ manifest.recips = version
    /\ manifest.acc >= minimum

\* Its size matters only against the Relay's, so it is cut off just above that.
NextManifest(minimum) ==
    Min({Max({manifest.alloc + 1, manifest.acc + 1, minimum}), relayManifest.rev + 1})

\* What is uploaded of a session: the pass's immutable copy.
Source(s) == pass.view[s]

\* The references of the manifest under way, with one more.
With(refs, s, r) == [refs EXCEPT ![s] = r]

\* Mutant: what was sent for the earlier recipients is kept.
AgainFromHere == [pass EXCEPT !.pc = "prepare", !.version = relayRecips]

\* The whole set again, for the recipients there are now.
Again == [pass EXCEPT !.pc = "prepare", !.version = relayRecips,
                      !.todo = DOMAIN pass.view, !.revs = NoRefs]

\* The first session still to be dealt with, in the store's order.
Turn == Min(pass.todo)

\* daemon.ts: eventsMayDrain.
MayDrain(outcome) ==
    \/ outcome \in {"published", "unchanged"}
    \/ /\ outcome = "blocked" /\ manifest.recips = pass.version
       /\ \A s \in Sessions : inflight[s] = NoUpload

\* flushCurrentSessionsSnapshot returns an outcome to performBridgeSyncOnce, by
\* way of handleCurrentSessionsSnapshotFailure when it was called from there.
Return(outcome) ==
    /\ fails' = IF pass.recovering \/ outcome \in {"published", "not-ready"}
                THEN 0 ELSE fails
    /\ pass' = IF MayDrain(outcome) THEN [Idle EXCEPT !.pc = "drain"] ELSE Idle
    /\ offline' = (outcome = "network" /\ ~pass.recovering)

\* It throws an error of the Relay client: retry later, or, from the second
\* failure on, rebuild the keyring and try again in the same pass.
Throw ==
    IF pass.recovering
    THEN pass' = Idle /\ offline' = TRUE /\ UNCHANGED fails
    ELSE /\ fails' = Min({fails + 1, 2})
         /\ IF fails + 1 >= 2
            THEN /\ pass' = [Idle EXCEPT !.pc = "snapshot", !.view = pass.view,
                                         !.recovering = TRUE]
                 /\ UNCHANGED offline
            ELSE pass' = Idle /\ offline' = TRUE

\* It throws another error: a local fault, no evidence that the host is offline.
Fault ==
    /\ pass' = Idle
    /\ offline' = pass.recovering
    /\ UNCHANGED fails

\* The pass ends outside of the publication.
End == pass' = Idle /\ UNCHANGED <<fails, offline>>

Lost == mishaps > 0 /\ mishaps' = mishaps - 1

-----------------------------------------------------------------------------
(* The environment.                                                        *)

\* A session's content changes, by heartbeat, command or snooze.
Change(s) ==
    /\ s \in present /\ changes > 0
    /\ changes' = changes - 1
    /\ \E c \in Contents \ {content[s]} : content' = [content EXCEPT ![s] = c]
    /\ UNCHANGED <<present, rev, recips, manifest, inflight, queue, dead,
                   memory, relay, events, pairings, mishaps>>

\* An Event is queued with the session as it is now.
Emit(s) ==
    /\ s \in present /\ events > 0
    /\ events' = events - 1
    /\ queue' = Append(queue, [id |-> events, session |-> s,
                               content |-> content[s], upload |-> NoUpload])
    /\ UNCHANGED <<present, content, rev, recips, manifest, inflight, dead,
                   memory, relay, changes, pairings, mishaps>>

\* A session comes, or goes; what was uploaded of it stays behind.
Appear(s) ==
    /\ s \notin present /\ changes > 0
    /\ changes' = changes - 1
    /\ present' = present \cup {s}
    /\ UNCHANGED <<content, rev, recips, manifest, inflight, queue, dead,
                   memory, relay, events, pairings, mishaps>>

Vanish(s) ==
    /\ s \in present /\ changes > 0
    /\ changes' = changes - 1
    /\ present' = present \ {s}
    /\ UNCHANGED <<content, rev, recips, manifest, inflight, queue, dead,
                   memory, relay, events, pairings, mishaps>>

\* A Watch is paired or unlinked.
RecipientChange ==
    /\ pairings > 0 /\ pairings' = pairings - 1
    /\ relayRecips' = relayRecips + 1
    /\ UNCHANGED <<durable, memory, log, relayManifest, events, changes, mishaps>>

\* The Bridge crashes and starts again.
Crash ==
    /\ pass # Idle
    /\ Lost
    /\ pass' = Idle /\ fails' = 0 /\ offline' = FALSE
    /\ UNCHANGED <<durable, relay, events, changes, pairings>>

-----------------------------------------------------------------------------
(* Publication of the sessions: flushCurrentSessionsSnapshot.              *)

BeginPass ==
    /\ pass.pc = "idle" /\ \A s \in Sessions : rev[s] < MaxRevs
    /\ pass' = [Idle EXCEPT !.pc = "snapshot", !.view = [s \in present |-> content[s]]]
    /\ UNCHANGED <<durable, fails, offline, relay, counts>>

\* The recipient snapshot is there; the uploads of unknown fate come first.
Snapshot ==
    /\ pass.pc = "snapshot"
    /\ LET open == {s \in Sessions : inflight[s] # NoUpload} IN
       pass' = [pass EXCEPT !.pc = "reconcile", !.version = relayRecips, !.todo = open,
                            !.had = (open # {}), !.deferred = FALSE]
    /\ UNCHANGED <<durable, fails, offline, relay, counts>>

\* The Relay has no recipients ready, or does not answer.
SnapshotNotReady ==
    /\ pass.pc = "snapshot"
    /\ Lost /\ Return("not-ready")
    /\ UNCHANGED <<durable, relay, events, changes, pairings>>

SnapshotLost ==
    /\ pass.pc = "snapshot"
    /\ Lost /\ Throw
    /\ UNCHANGED <<durable, relay, events, changes, pairings>>

\* reconcileSessionInflights: one upload of unknown fate.
ReconcileInflight ==
    /\ pass.pc = "reconcile" /\ pass.todo # {}
    /\ LET s == Turn
           u == inflight[s] IN
       IF Holds(s, u)
       THEN /\ rev' = Committed(s, u.rev) /\ inflight' = Dropped(s)
            /\ pass' = [pass EXCEPT !.todo = @ \ {s}]
       ELSE /\ pass' = [pass EXCEPT !.todo = @ \ {s},
                                    !.deferred = @ \/ s \notin DOMAIN pass.view]
            /\ UNCHANGED <<rev, inflight>>
    /\ UNCHANGED <<present, content, recips, manifest, queue, dead, fails,
                   offline, relay, counts>>

ReconcileLost ==
    /\ pass.pc = "reconcile" /\ pass.todo # {}
    /\ Lost
    /\ pass' = [pass EXCEPT !.todo = @ \ {Turn}, !.deferred = TRUE]
    /\ UNCHANGED <<durable, fails, offline, relay, events, changes, pairings>>

\* Every upload is settled or kept: refuse, stop at unfit content, find nothing
\* to say, or allocate the revision of a new manifest.
Allocate ==
    /\ pass.pc = "reconcile" /\ pass.todo = {}
    /\ LET minimum == IF pass.had THEN manifest.acc + 1 ELSE 0 IN
       CASE pass.deferred -> Return("fail-closed") /\ UNCHANGED manifest
         [] ~pass.deferred /\ \E s \in DOMAIN pass.view : ~Fit(pass.view[s]) ->
                Return("blocked") /\ UNCHANGED manifest
         [] ~pass.deferred /\ (\A s \in DOMAIN pass.view : Fit(pass.view[s]))
            /\ Unchanged(pass.version, minimum) ->
                Return("unchanged") /\ UNCHANGED manifest
         [] OTHER ->
                /\ manifest' = [manifest EXCEPT !.alloc = NextManifest(minimum)]
                /\ pass' = [pass EXCEPT !.pc = "prepare", !.todo = DOMAIN pass.view,
                       !.revs = NoRefs, !.retried = FALSE,
                       !.pub = [rev |-> NextManifest(minimum), recips |-> pass.version]]
                /\ UNCHANGED <<fails, offline>>
    /\ UNCHANGED <<present, content, rev, recips, inflight, queue, dead, relay, counts>>

\* publishAuthoritativeSnapshots: the upload of the next session.  One of unknown
\* fate is settled first; its revision is reused only if the Relay lacks it.
PrepareSession ==
    /\ pass.pc = "prepare" /\ pass.todo # {}
    /\ LET s == Turn
           u == inflight[s]
           stored == u # NoUpload /\ Holds(s, u)
           c == Source(s) IN
       /\ rev' = IF stored THEN Committed(s, u.rev) ELSE rev
       /\ inflight' = [inflight EXCEPT ![s] =
              CASE u = NoUpload -> SessionUpload(c, rev[s] + 1, pass.version)
                [] stored -> SessionUpload(c, u.rev + 1, pass.version)
                [] OTHER -> IF u.content = c /\ u.recips = pass.version
                            THEN u ELSE Reencrypted(u, c, pass.version)]
    /\ pass' = [pass EXCEPT !.pc = "send"]
    /\ UNCHANGED <<present, content, recips, manifest, queue, dead, fails,
                   offline, relay, counts>>

PrepareLost ==
    /\ pass.pc = "prepare" /\ pass.todo # {} /\ inflight[Turn] # NoUpload
    /\ Lost /\ Return("network")
    /\ UNCHANGED <<durable, relay, events, changes, pairings>>

SendSession ==
    /\ pass.pc = "send"
    /\ LET s == Turn
           u == inflight[s] IN
       /\ Verdict(s, u) = "ok"
       /\ log' = Stored(s, u)
       /\ rev' = Committed(s, u.rev) /\ inflight' = Dropped(s)
       /\ pass' = [pass EXCEPT !.pc = "prepare", !.todo = @ \ {s},
                               !.revs = With(@, s, u.rev)]
    /\ UNCHANGED <<present, content, recips, manifest, queue, dead, fails, offline,
                   relayRecips, relayManifest, counts>>

\* No answer to the upload, or to the questions asked after its refusal.
SendSessionLost ==
    /\ pass.pc = "send"
    /\ Unanswered(Turn, inflight[Turn])
    /\ \/ Return("network")
       \/ inflight[Turn].recips # relayRecips /\ Return("recipient-set")
    /\ UNCHANGED <<durable, relayRecips, relayManifest, events, changes, pairings>>

\* A refusal: settle it, give up, or start the whole set again for the
\* recipients there are now.
SessionRefused ==
    /\ pass.pc = "send"
    /\ \E reason \in {"changed", "conflict"} :
       LET s == Turn
           u == inflight[s]
           decision == DecideSession(reason, HeldIn(log'[s], u), pass.version, relayRecips, pass.retried) IN
       /\ Refusal(s, u, reason)
       /\ CASE decision = "commit" ->
                 /\ rev' = Committed(s, u.rev) /\ inflight' = Dropped(s)
                 /\ pass' = [pass EXCEPT !.pc = "prepare", !.todo = @ \ {s},
                                         !.revs = With(@, s, u.rev)]
                 /\ UNCHANGED <<fails, offline>>
            [] decision \in {"defer", "fail-closed"} ->
                 /\ Return(IF decision = "defer" THEN "network" ELSE "fail-closed")
                 /\ UNCHANGED <<rev, inflight>>
            [] decision = "refresh-reencrypt" ->
                 /\ inflight' = [inflight EXCEPT ![s] = Reencrypted(u, Source(s), relayRecips)]
                 /\ pass' = Again
                 /\ UNCHANGED <<rev, fails, offline>>
            [] decision = "retry-next-revision" ->
                 /\ rev' = Committed(s, u.rev) /\ inflight' = Dropped(s)
                 /\ pass' = [Again EXCEPT !.retried = (relayRecips = pass.version)]
                 /\ UNCHANGED <<fails, offline>>
    /\ UNCHANGED <<present, content, recips, manifest, queue, dead, relayRecips, relayManifest, events, changes, pairings>>

\* Every session is uploaded for one version; a manifest allocated for another
\* version is replaced.
SessionsUploaded ==
    /\ pass.pc = "prepare" /\ pass.todo = {}
    /\ recips' = pass.version
    /\ LET again == pass.version # pass.pub.recips IN
       /\ manifest' = IF again THEN [manifest EXCEPT !.alloc = NextManifest(0)] ELSE manifest
       /\ pass' = [pass EXCEPT !.pc = "manifest",
                      !.pub = IF again THEN [rev |-> NextManifest(0), recips |-> pass.version] ELSE @]
    /\ UNCHANGED <<present, content, rev, inflight, queue, dead, fails, offline, relay, counts>>

\* The Relay's answer to a manifest.
ManifestVerdict ==
    IF pass.pub.recips # relayRecips THEN "changed"
    ELSE IF pass.pub.rev < relayManifest.rev THEN "stale"
    ELSE IF pass.pub.rev = relayManifest.rev THEN "conflict" ELSE "ok"

Accepted == [alloc |-> Max({manifest.alloc, pass.pub.rev}), acc |-> pass.pub.rev,
             view |-> pass.view, recips |-> pass.pub.recips]

Offered == [rev |-> pass.pub.rev, recips |-> pass.pub.recips, refs |-> pass.revs]

SendManifest ==
    /\ pass.pc = "manifest" /\ ManifestVerdict = "ok"
    /\ relayManifest' = Offered
    /\ manifest' = Accepted
    /\ Return("published")
    /\ UNCHANGED <<present, content, rev, recips, inflight, queue, dead,
                   relayRecips, log, counts>>

ManifestLost ==
    /\ pass.pc = "manifest"
    /\ Lost /\ Throw
    /\ relayManifest' \in {relayManifest}
                          \cup (IF ManifestVerdict = "ok" THEN {Offered} ELSE {})
    /\ UNCHANGED <<durable, relayRecips, log, events, changes, pairings>>

\* A refused manifest: take the Relay's revision as a lower bound and begin
\* again, four times at most; a conflicting revision ends the pass.
ManifestRefused ==
    /\ pass.pc = "manifest" /\ ManifestVerdict # "ok"
    /\ manifest' = IF ManifestVerdict = "stale"
                   THEN [manifest EXCEPT !.alloc = Max({@, relayManifest.rev})] ELSE manifest
    /\ IF ManifestVerdict = "conflict" \/ pass.attempt = 3
       THEN Fault
       ELSE /\ pass' = [Idle EXCEPT !.pc = "snapshot", !.view = pass.view,
                            !.attempt = pass.attempt + 1, !.recovering = pass.recovering]
            /\ UNCHANGED <<fails, offline>>
    /\ UNCHANGED <<present, content, rev, recips, inflight, queue, dead, relay, counts>>

-----------------------------------------------------------------------------
(* The Events: flushPendingEvents.                                         *)

\* The recipients have changed since the sessions were uploaded: every session
\* of the store needs an upload for them, up to one that may not be sent.
Uncovered ==
    LET unfit == {s \in present : inflight[s] = NoUpload /\ ~Fit(content[s])} IN
    {s \in present : inflight[s] = NoUpload /\ \A t \in unfit : s < t}

BeginDrain ==
    /\ pass.pc = "drain"
    /\ LET covered == [s \in Sessions |->
                          IF s \in Uncovered
                          THEN SessionUpload(content[s], rev[s] + 1, relayRecips)
                          ELSE inflight[s]]
           first == [Idle EXCEPT !.pc = "event", !.version = relayRecips,
                                  !.left = Len(queue)] IN
       CASE relayRecips = recips -> pass' = first /\ UNCHANGED <<inflight, fails, offline>>
         [] relayRecips # recips /\ \E s \in present : covered[s] = NoUpload ->
                inflight' = covered /\ End
         [] OTHER ->
                /\ inflight' = covered
                /\ pass' = [first EXCEPT !.pc = "cover",
                               !.todo = {s \in Sessions : covered[s] # NoUpload}]
                /\ UNCHANGED <<fails, offline>>
    /\ UNCHANGED <<present, content, rev, recips, manifest, queue, dead, relay, counts>>

DrainLost ==
    /\ pass.pc = "drain"
    /\ Lost /\ End
    /\ UNCHANGED <<durable, relay, events, changes, pairings>>

\* publishRecipientChangeSnapshots: one session after the other.
CoverSession ==
    /\ pass.pc = "cover" /\ pass.todo # {}
    /\ LET s == Turn
           u == inflight[s] IN
       /\ Verdict(s, u) = "ok"
       /\ log' = Stored(s, u)
       /\ rev' = Committed(s, u.rev) /\ inflight' = Dropped(s)
       /\ pass' = [pass EXCEPT !.todo = @ \ {s}, !.retried = FALSE]
    /\ UNCHANGED <<present, content, recips, manifest, queue, dead, fails, offline,
                   relayRecips, relayManifest, counts>>

CoverLost ==
    /\ pass.pc = "cover" /\ pass.todo # {}
    /\ Unanswered(Turn, inflight[Turn]) /\ End
    /\ UNCHANGED <<durable, relayRecips, relayManifest, events, changes, pairings>>

\* A refusal sends this session again, as it is in the store now.
CoverRefused ==
    /\ pass.pc = "cover" /\ pass.todo # {}
    /\ \E reason \in {"changed", "conflict"} :
       LET s == Turn
           u == inflight[s]
           held == HeldIn(log'[s], u)
           decision == DecideSession(reason, held, u.recips, relayRecips, pass.retried)
           next == IF held THEN SessionUpload(content[s], u.rev + 1, relayRecips)
                           ELSE Reencrypted(u, content[s], relayRecips) IN
       /\ Refusal(s, u, reason)
       /\ CASE decision = "commit" ->
                 /\ rev' = Committed(s, u.rev) /\ inflight' = Dropped(s)
                 /\ pass' = [pass EXCEPT !.todo = @ \ {s}, !.retried = FALSE]
                 /\ UNCHANGED <<fails, offline>>
            [] \/ decision \in {"defer", "fail-closed"}
               \/ s \notin present
               \/ decision \in {"refresh-reencrypt", "retry-next-revision"} /\ ~Fit(content[s]) ->
                 End /\ UNCHANGED <<rev, inflight>>
            [] OTHER ->
                 /\ rev' = IF held THEN Committed(s, u.rev) ELSE rev
                 /\ inflight' = [inflight EXCEPT ![s] = next]
                 /\ pass' = [pass EXCEPT !.retried = IF held THEN relayRecips = u.recips ELSE @,
                                         !.pub.recips = relayRecips]
                 /\ UNCHANGED <<fails, offline>>
    /\ UNCHANGED <<present, content, recips, manifest, queue, dead, relayRecips, relayManifest, events, changes, pairings>>

\* All sessions are sent: adopt the last version seen.  The Events go on with
\* the snapshot they began with.
Covered ==
    /\ pass.pc = "cover" /\ pass.todo = {}
    /\ recips' = Max({pass.version, pass.pub.recips})
    /\ pass' = [pass EXCEPT !.pc = "event", !.pub.recips = 0, !.retried = FALSE,
                            !.left = Len(queue)]
    /\ UNCHANGED <<present, content, rev, manifest, inflight, queue, dead, fails,
                   offline, relay, counts>>

\* completeEventUpload, quarantinePendingEventRaw: the first Event is done with.
CompleteEvent(e, u) ==
    /\ rev' = Committed(e.session, u.rev)
    /\ queue' = Tail(queue)
    /\ pass' = [pass EXCEPT !.pc = "event", !.left = @ - 1, !.retried = FALSE]
    /\ UNCHANGED <<dead, fails, offline>>

Quarantine(e) ==
    /\ dead' = dead \cup {e}
    /\ queue' = Tail(queue)
    /\ pass' = [pass EXCEPT !.pc = "event", !.left = @ - 1, !.retried = FALSE]
    /\ UNCHANGED <<rev, fails, offline>>

EventUpload(e, r, v) ==
    [rev |-> r, content |-> e.content, recips |-> v, event |-> e.id, enc |-> 0]

\* processPendingEventDescriptor: unfit content is a dead letter; an upload for
\* other recipients is settled, and made again at its revision; another is reused.
PrepareEvent ==
    /\ pass.pc = "event" /\ pass.left > 0
    /\ LET e == Head(queue)
           u == e.upload IN
       CASE ~Fit(e.content) -> Quarantine(e)
         [] Fit(e.content) /\ u # NoUpload /\ u.recips # pass.version /\ Holds(e.session, u) ->
                CompleteEvent(e, u)
         [] OTHER ->
                /\ queue' = [queue EXCEPT ![1].upload =
                        IF u = NoUpload THEN EventUpload(e, rev[e.session] + 1, pass.version)
                        ELSE IF u.recips = pass.version THEN u
                        ELSE Reencrypted(u, e.content, pass.version)]
                /\ pass' = [pass EXCEPT !.pc = "sendEvent"]
                /\ UNCHANGED <<rev, dead, fails, offline>>
    /\ UNCHANGED <<present, content, recips, manifest, inflight, relay, counts>>

PrepareEventLost ==
    /\ pass.pc = "event" /\ pass.left > 0
    /\ Head(queue).upload.recips \notin {0, pass.version}
    /\ Lost /\ End
    /\ UNCHANGED <<durable, relay, events, changes, pairings>>

SendEvent ==
    /\ pass.pc = "sendEvent"
    /\ LET e == Head(queue) IN
       /\ Verdict(e.session, e.upload) = "ok"
       /\ log' = Stored(e.session, e.upload)
       /\ CompleteEvent(e, e.upload)
    /\ UNCHANGED <<present, content, recips, manifest, inflight, relayRecips,
                   relayManifest, counts>>

SendEventLost ==
    /\ pass.pc = "sendEvent"
    /\ Unanswered(Head(queue).session, Head(queue).upload) /\ End
    /\ UNCHANGED <<durable, relayRecips, relayManifest, events, changes, pairings>>

\* A refusal: the Event was stored, or is encrypted again once, or is given up.
EventRefused ==
    /\ pass.pc = "sendEvent"
    /\ \E reason \in {"changed", "conflict"} :
       LET e == Head(queue)
           u == e.upload
           decision == DecideEvent(reason, HeldIn(log'[e.session], u), pass.retried) IN
       /\ Refusal(e.session, u, reason)
       /\ CASE decision = "complete" -> CompleteEvent(e, u)
            [] decision = "quarantine" -> Quarantine(e)
            [] decision = "defer" -> End /\ UNCHANGED <<rev, queue, dead>>
            [] decision = "refresh" ->
                 /\ queue' = [queue EXCEPT ![1].upload = Reencrypted(u, e.content, relayRecips)]
                 /\ pass' = [pass EXCEPT !.version = relayRecips, !.retried = TRUE]
                 /\ UNCHANGED <<rev, dead, fails, offline>>
    /\ UNCHANGED <<present, content, recips, manifest, inflight, relayRecips, relayManifest, events, changes, pairings>>

EndPass ==
    /\ pass.pc = "event" /\ pass.left = 0
    /\ End
    /\ UNCHANGED <<durable, relay, counts>>

-----------------------------------------------------------------------------
Publish == \/ BeginPass \/ Snapshot \/ SnapshotNotReady \/ SnapshotLost
           \/ ReconcileInflight \/ ReconcileLost \/ Allocate
           \/ PrepareSession \/ PrepareLost
           \/ SendSession \/ SendSessionLost \/ SessionRefused
           \/ SessionsUploaded \/ SendManifest \/ ManifestLost \/ ManifestRefused

Drain == \/ BeginDrain \/ DrainLost
         \/ CoverSession \/ CoverLost \/ CoverRefused \/ Covered
         \/ PrepareEvent \/ PrepareEventLost
         \/ SendEvent \/ SendEventLost \/ EventRefused \/ EndPass

Environment == \/ \E s \in Sessions : Change(s) \/ Emit(s) \/ Appear(s) \/ Vanish(s)
               \/ RecipientChange \/ Crash

Next == Publish \/ Drain \/ Environment

\* The daemon's loop runs passes for ever; nothing is assumed of the environment.
Spec == Init /\ [][Next]_vars /\ WF_vars(Publish \/ Drain)

-----------------------------------------------------------------------------
(* Properties.                                                             *)

Uploads == [rev : Nat, content : Contents, recips : Nat, event : Nat, enc : Nat]

\* What a pass can be doing.
Pcs == {"idle", "snapshot", "reconcile", "prepare", "send", "manifest", "drain", "cover",
        "event", "sendEvent"}

\* Some sessions with their contents, and the revisions referred to.
Views == UNION {[S -> Contents] : S \in SUBSET Sessions}
References == [Sessions -> Nat]

Passes == [pc : Pcs, view : Views, version : Nat, todo : SUBSET Sessions, revs : References,
           pub : [rev : Nat, recips : Nat], attempt : Nat, retried : BOOLEAN,
           recovering : BOOLEAN, had : BOOLEAN, deferred : BOOLEAN, left : Nat]

QueuedEvents == [id : Nat \ {0}, session : Sessions, content : Contents, upload : Uploads]

\* Every variable has its shape.
TypeOK ==
    /\ present \in SUBSET Sessions
    /\ content \in [Sessions -> Contents]
    /\ rev \in [Sessions -> Nat]
    /\ recips \in Nat
    /\ manifest \in [alloc : Nat, acc : Nat, view : Views, recips : Nat]
    /\ inflight \in [Sessions -> Uploads]
    /\ queue \in Seq(QueuedEvents)
    /\ dead \in SUBSET QueuedEvents
    /\ pass \in Passes
    /\ fails \in 0..2 /\ offline \in BOOLEAN
    /\ relayRecips \in Nat
    /\ log \in [Sessions -> Seq(Uploads)]
    /\ relayManifest \in [rev : Nat, recips : Nat, refs : References]
    /\ {events, pairings, changes, mishaps} \subseteq Nat

\* What the Bridge holds of a session's uploads whose fate it does not know.
Evidence(s) ==
    {inflight[s]} \cup {queue[i].upload : i \in {j \in DOMAIN queue : queue[j].session = s}}

\* Whatever the Relay holds beyond the committed revision is one upload, and the
\* Bridge still has that very upload as evidence: its revision is never given to
\* other bytes while its fate is open (publishAuthoritativeSnapshots,
\* processPendingEventDescriptor).
EvidenceIsKept ==
    \A s \in Sessions :
        /\ Len(log[s]) <= rev[s] + 1
        /\ Len(log[s]) = rev[s] + 1 => Last(log[s]) \in Evidence(s)

\* A manifest that the Relay accepts refers to uploads it holds, each encrypted
\* for the manifest's recipient set, although recipients may change at any point
\* of the pass (publishAuthoritativeSnapshots starts the whole set again).
ManifestIsCovered ==
    \A s \in Referred(relayManifest.refs) :
        /\ relayManifest.refs[s] \in DOMAIN log[s]
        /\ log[s][relayManifest.refs[s]].recips = relayManifest.recips

\* The sessions of a manifest are those of one moment, with the content they had
\* then: an upload it refers to is the content recorded for it.
ManifestIsOneMoment ==
    (manifest.acc > 0 /\ manifest.acc = relayManifest.rev) =>
        \A s \in Referred(relayManifest.refs) :
            log[s][relayManifest.refs[s]].content = manifest.view[s]

\* A manifest shows one moment to exactly the recipients it names.
ManifestsAreSound == ManifestIsCovered /\ ManifestIsOneMoment

\* No Event is stored at the Relay twice, and none that the Bridge has given up:
\* the dead letter is written only once the Relay has denied the upload.
EventsAreStoredOnce ==
    LET ids == {queue[i].id : i \in DOMAIN queue} \cup {e.id : e \in dead}
               \cup UNION {{log[s][r].event : r \in DOMAIN log[s]} : s \in Sessions}
        at(id) == {p \in Sessions \X (1..Max({Len(log[t]) : t \in Sessions} \cup {0})) :
                      p[2] \in DOMAIN log[p[1]] /\ log[p[1]][p[2]].event = id} IN
    /\ \A id \in ids \ {0} : Cardinality(at(id)) <= 1
    /\ \A e \in dead : at(e.id) = {}

\* All is published: the accepted manifest is the present, for the recipients of
\* the present, and no upload or Event is open.
UpToDate ==
    /\ manifest.view = [s \in present |-> content[s]]
    /\ manifest.recips = relayRecips

Published ==
    /\ UpToDate /\ manifest.acc = relayManifest.rev
    /\ queue = <<>> /\ \A s \in Sessions : inflight[s] = NoUpload
    /\ ~offline

\* Content that may not be sent holds the publication back.
HeldBack == \E s \in present : ~Fit(content[s])

\* Three ways in which the code stops short for good, see the README: an upload
\* that the Relay lacks, of a session that is gone; an Event that the Relay holds
\* at the revision the next upload of its session takes too; and a manifest whose
\* answer was lost, after which the sessions went back to what they were before.
Orphaned == \E s \in Sessions \ present : inflight[s] # NoUpload /\ ~Holds(s, inflight[s])

Clash ==
    \E i \in DOMAIN queue :
        LET e == queue[i] IN
        /\ e.upload # NoUpload /\ Holds(e.session, e.upload)
        /\ inflight[e.session] # NoUpload /\ inflight[e.session].rev = e.upload.rev

Reverted == UpToDate /\ manifest.acc # relayManifest.rev

\* Once nothing changes and requests are answered, passes publish everything,
\* unless one of the known stops above has been met (performBridgeSyncOnce).
Converges == <>[](Published \/ HeldBack \/ Orphaned \/ Clash \/ Reverted)

\* An Event that may be sent is never given up, although its session changes
\* before it is sent again.  Does not hold: README, finding 7.
EventsAreDelivered == \A e \in dead : ~Fit(e.content)

\* Once nothing changes and requests are answered, the host is not taken for
\* offline for ever.  Does not hold: README, finding 8.
OnlineAgain == <>[]~offline
=============================================================================
