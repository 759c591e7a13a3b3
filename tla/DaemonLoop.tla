------------------------------ MODULE DaemonLoop ------------------------------
(***************************************************************************)
(* The life of one Bridge daemon: construction under the runtime lock,     *)
(* startup, the loop of sync passes with its timers, the shared presence   *)
(* registration, the delivery of session handles, and its ways to stop.    *)
(*                                                                         *)
(*   apps/bridge/src/daemon.ts                                             *)
(*   apps/bridge/src/daemon/{sync-workflow,presence-workflow,              *)
(*                           runtime-composition}.ts                       *)
(*   apps/bridge/src/state-store/host-health-transitions.ts                *)
(*                                                                         *)
(* The daemon is one JavaScript thread: `main' stands where runForever     *)
(* awaits, `flight' where the presence registration does, and timers and   *)
(* requests run between them.  What a pass publishes is Publication's      *)
(* subject and what it does with commands CommandJournal's; here a pass    *)
(* knows their outcomes only.  A version stands for the sessions of the    *)
(* adapter registry.                                                       *)
(***************************************************************************)
EXTENDS Naturals

CONSTANTS
    Sessions,    \* sessions whose Events a user handles
    None,
    MaxChanges,  \* bound: changes of the adapter registry
    MaxCursor,   \* bound: Events of a session, in the order of their creation
    MaxMishaps   \* bound: failures, stops, crashes and resets

ASSUME BoundsAssumption == {MaxChanges, MaxCursor, MaxMishaps} \subseteq Nat
ASSUME NoneAssumption == None \notin Sessions \X (1..MaxCursor)

\* SNAPSHOT_FAILURE_ESCALATION_THRESHOLD
Escalation == 2

\* decideSnapshotFailure
Escalates(count) == count >= Escalation

VARIABLES
    main,       \* where start() or runForever stands, "down" without a process
    lock,       \* the runtime lock: whose it is
    stopped,
    disposed,   \* runtimeDisposed: state store and coordinator are given up
    server,     \* the adapter server accepts requests
    requested,  \* reconciliationRequested
    timer,      \* [rec, beat |-> BOOLEAN]: the two timers that are armed
    flight,     \* presenceFlight
    beat,       \* the heartbeat waits for the flight
    pass,       \* what the current pass has found out
    failures,   \* snapshotFailureState.count
    registry,   \* [live, seen, recovering]: its version, the one listed last
    state,      \* the durable Bridge state
    relay,      \* the newest handled Event the Relay has, by session
    asked,      \* the newest handle that a producer was told is accepted
    last,       \* how the last registration of this process ended
    resetting,  \* a host-domain reset has its journal on disk
    changes, mishaps

control == <<main, stopped, disposed, server, requested, timer>>
vars == <<control, lock, flight, beat, pass, failures, registry, state, relay, asked,
          last, resetting, changes, mishaps>>

Max2(a, b) == IF a > b THEN a ELSE b
Handles == Sessions \X (1..MaxCursor)

PassSteps == {"presence", "receipts", "drivers", "listed", "publish", "recover", "events",
              "handles", "commands"}
Steps     == PassSteps \cup {"down", "starting", "serving", "loop", "wait", "ended"}

NewPass == [offline |-> FALSE, complete |-> TRUE, cut |-> FALSE, batch |-> {}, call |-> None]

Mishap == mishaps < MaxMishaps /\ mishaps' = mishaps + 1
Sound  == UNCHANGED mishaps
To(step) == main' = step

-----------------------------------------------------------------------------
(* The state store *)

\* Mutant: a store that was disposed still writes.
OwnedForever == TRUE

\* assertStateStoreAccess: every read and write of the state asks for it.
Owned == ~disposed /\ lock = "daemon"

\* Mutant: the recovery of one part makes the whole healthy.
HealedAtOnce(s) == "healthy"

Health(s) == IF s.rel \/ s.driver THEN "degraded" ELSE "healthy"

\* record...Failure and record...Success; a success that changes nothing is not written.
Recorded(s)   == [s EXCEPT !.health = Health(s)]
RelayFailed   == [state EXCEPT !.rel = TRUE, !.health = "degraded"]
RelayFine     == IF state.rel THEN Recorded([state EXCEPT !.rel = FALSE]) ELSE state
DriverFailed  == [state EXCEPT !.driver = TRUE, !.health = "degraded"]
DriverFine    == IF state.driver THEN Recorded([state EXCEPT !.driver = FALSE]) ELSE state

\* Mutant: whatever is pending for the session is removed.
WithoutAny(s, h) == [s EXCEPT !.pending[h[1]] = 0]

\* removePendingSessionHandle: only the handle that was delivered.
Without(s, h) == [s EXCEPT !.pending[h[1]] = IF @ = h[2] THEN 0 ELSE @]

-----------------------------------------------------------------------------
(* Construction and startup *)

\* The memory of a process that has just been constructed, or of none.
Blank == /\ stopped' = FALSE /\ disposed' = FALSE /\ server' = FALSE
         /\ requested' = TRUE /\ timer' = [rec |-> FALSE, beat |-> FALSE]
         /\ flight' = "none" /\ beat' = FALSE /\ last' = "none"
         /\ pass' = NewPass /\ failures' = 0
         /\ registry' = [live |-> 0, seen |-> 0, recovering |-> TRUE]

\* acquireRuntimeCoordinator: a lock that a dead process left is taken over (RuntimeLock).
Claimable == lock \in {"free", "stale"}

\* The constructor: reset guard, runtime lock, deferred state store.
Construct == /\ main = "down" /\ ~resetting /\ Claimable
             /\ lock' = "daemon" /\ To("starting")
             /\ Blank
             /\ Sound /\ UNCHANGED <<state, relay, asked, resetting, changes>>

Down == To("down") /\ Blank

\* validateStartup goes through.
Validate == /\ main = "starting"
            /\ To("serving") /\ Sound
            /\ UNCHANGED <<lock, stopped, disposed, server, requested, timer, flight, beat, last,
                           pass, failures, registry, state, relay, asked, resetting, changes>>

\* It fails: store and coordinator are given up, and the process ends.
StartupFails == /\ main = "starting"
                /\ Down /\ lock' = "free" /\ Mishap
                /\ UNCHANGED <<state, relay, asked, resetting, changes>>

\* activateBridgeDaemonServer and the first heartbeat, then runForever.
Serve == /\ main = "serving"
         /\ To("loop") /\ Sound
         /\ server' = TRUE /\ timer' = [timer EXCEPT !.beat = TRUE]
         /\ stopped' = FALSE /\ requested' = TRUE
         /\ UNCHANGED <<lock, disposed, flight, beat, last, pass, failures, registry, state,
                        relay, asked, resetting, changes>>

\* A failure there leaves the lock to the next process.
ServeFails == /\ main = "serving"
              /\ Down /\ lock' = "stale" /\ Mishap
              /\ UNCHANGED <<state, relay, asked, resetting, changes>>

-----------------------------------------------------------------------------
(* stop *)

\* Timers, server and the poll wait end; store and lock are given up unless the
\* recovery of active commands, or giving them up, failed.
Stop(recovered) ==
    /\ stopped' = TRUE
    /\ IF disposed
       THEN UNCHANGED <<disposed, lock, server, timer>>
       ELSE /\ server' = FALSE /\ timer' = [rec |-> FALSE, beat |-> FALSE]
            /\ disposed' = recovered
            /\ lock' = IF recovered THEN "free" ELSE lock

Running == main \notin {"down", "starting", "serving"}

\* The development profile stops the daemon and waits for its loop.
StopAndWait == /\ Running /\ ~stopped
               /\ \E recovered \in BOOLEAN : Stop(recovered)
               /\ To(IF main = "wait" THEN "ended" ELSE main)
               /\ Mishap
               /\ UNCHANGED <<requested, flight, beat, pass, failures, registry, state, relay,
                              asked, last, resetting, changes>>

\* A signal stops the service's daemon, which exits at once.
StopAndExit == /\ Running
               /\ \E recovered \in BOOLEAN :
                    lock' = IF disposed THEN lock ELSE IF recovered THEN "free" ELSE "stale"
               /\ Down /\ Mishap
               /\ UNCHANGED <<state, relay, asked, resetting, changes>>

\* The process is killed, or ends after its loop.
Exit == /\ main # "down"
        /\ IF main = "ended" THEN Sound ELSE Mishap
        /\ lock' = IF lock = "daemon" THEN "stale" ELSE lock
        /\ Down
        /\ UNCHANGED <<state, relay, asked, resetting, changes>>

-----------------------------------------------------------------------------
(* Timers, and the requests that arm them *)

\* scheduleRegistryReconciliation
Arm == timer' = [timer EXCEPT !.rec = @ \/ ~stopped]

\* cancelPollWait
Woken == To(IF main = "wait" THEN "loop" ELSE main)

Reconcile == /\ timer.rec
             /\ timer' = [timer EXCEPT !.rec = FALSE]
             /\ requested' = TRUE
             /\ Woken
             /\ Sound
             /\ UNCHANGED <<lock, stopped, disposed, server, flight, beat, pass, failures,
                            registry, state, relay, asked, last, resetting, changes>>

\* Mutant: the poll timer is lost.
PollNever == FALSE

Poll == /\ main = "wait"
        /\ To("loop") /\ Sound
        /\ UNCHANGED <<lock, stopped, disposed, server, requested, timer, flight, beat, pass,
                       failures, registry, state, relay, asked, last, resetting, changes>>

\* ensureHostPresence: whoever finds a flight shares it.
Share == flight' = IF flight = "none" THEN "enroll" ELSE flight

Heartbeat == /\ timer.beat
             /\ timer' = [timer EXCEPT !.beat = FALSE]
             /\ beat' = TRUE /\ Share
             /\ Sound
             /\ UNCHANGED <<main, lock, stopped, disposed, server, requested, pass, failures,
                            registry, state, relay, asked, last, resetting, changes>>

\* An adapter registers, changes or leaves a session.
Change == /\ server /\ changes < MaxChanges
          /\ changes' = changes + 1
          /\ registry' = [registry EXCEPT !.live = changes + 1]
          /\ Arm
          /\ Sound
          /\ UNCHANGED <<main, lock, stopped, disposed, server, requested, flight, beat, pass,
                         failures, state, relay, asked, last, resetting>>

\* isAuthoritativeSetReady
Ready == registry.live # 0 \/ state.stored = 0 \/ ~registry.recovering

\* The time in which registered sessions may come back is over (recoveryDeadlineMs).
RecoveryEnds == /\ server /\ ~Ready   \* it makes no difference otherwise
                /\ registry' = [registry EXCEPT !.recovering = FALSE]
                /\ Sound
                /\ UNCHANGED <<control, lock, flight, beat, pass, failures, state, relay, asked,
                               last, resetting, changes>>

\* handleSession: an older handle than the pending one is refused.
QueueHandle(h) == /\ server /\ Owned
                  /\ h[2] >= state.pending[h[1]]
                  /\ state' = [state EXCEPT !.pending[h[1]] = h[2]]
                  /\ asked' = [asked EXCEPT ![h[1]] = Max2(@, h[2])]
                  /\ Arm
                  /\ Sound
                  /\ UNCHANGED <<main, lock, stopped, disposed, server, requested, flight, beat,
                                 pass, failures, registry, relay, last, resetting, changes>>

-----------------------------------------------------------------------------
(* The presence registration *)

\* The flight ends for everyone who waits for it: the pass goes on, and the
\* heartbeat arms its next one.
Settle(ok) ==
    /\ flight' = "none"
    /\ main' = CASE main # "presence" -> main
                 [] ok -> "receipts"
                 [] OTHER -> "drivers"
    /\ pass' = IF main = "presence" THEN [pass EXCEPT !.offline = ~ok] ELSE pass
    /\ beat' = FALSE
    /\ timer' = IF beat THEN [timer EXCEPT !.beat = ~stopped] ELSE timer

FlightFrame == UNCHANGED <<stopped, disposed, server, requested, lock, failures, registry, relay,
                           asked, resetting, changes>>

\* performHostPresenceRegistration answered: the Host is written, then its health.
EnrollAccepted == /\ flight = "enroll" /\ ~stopped /\ Owned
                  /\ state' = [state EXCEPT !.host = "online"]
                  /\ flight' = "accepted"
                  /\ Sound /\ FlightFrame
                  /\ UNCHANGED <<main, pass, beat, timer, last>>

PresenceRecorded == /\ flight = "accepted"
                    /\ IF stopped \/ ~Owned THEN UNCHANGED <<state, last>>
                       ELSE state' = RelayFine /\ last' = "ok"
                    /\ Settle(stopped \/ Owned)
                    /\ Sound /\ FlightFrame

\* The identity changed, or the Relay did not answer: the Host is written as
\* degraded, then its health.
EnrollFailed == /\ flight = "enroll" /\ ~stopped /\ Owned
                /\ state' = IF state.host = "none" THEN state ELSE [state EXCEPT !.host = "degraded"]
                /\ flight' = "failed"
                /\ Mishap /\ FlightFrame
                /\ UNCHANGED <<main, pass, beat, timer, last>>

FailureRecorded == /\ flight = "failed"
                   /\ IF Owned THEN state' = RelayFailed /\ last' = "failed"
                      ELSE UNCHANGED <<state, last>>
                   /\ Settle(FALSE)
                   /\ Sound /\ FlightFrame

\* After stop the request is aborted, or its answer ignored.
EnrollStopped == /\ flight = "enroll" /\ stopped
                 /\ \E ok \in BOOLEAN : Settle(ok)
                 /\ Sound /\ FlightFrame
                 /\ UNCHANGED <<state, last>>

-----------------------------------------------------------------------------
(* A pass: performBridgeSyncOnce *)

PassFrame == UNCHANGED <<stopped, disposed, server, lock, flight, beat, relay, asked, last,
                         resetting, changes>>

\* Reset guard; from here on a new request is for the next pass.
BeginPass == /\ main = "loop" /\ ~stopped /\ ~resetting
             /\ requested' = FALSE
             /\ pass' = NewPass /\ Share
             /\ To("presence") /\ Sound
             /\ UNCHANGED <<lock, stopped, disposed, server, timer, beat, failures, registry,
                            state, relay, asked, last, resetting, changes>>

\* The guard refuses: the daemon stops itself.
GuardStops == /\ main = "loop" /\ ~stopped /\ resetting
              /\ \E recovered \in BOOLEAN : Stop(recovered)
              /\ To("ended") /\ Sound
              /\ UNCHANGED <<requested, flight, beat, pass, failures, registry, state, relay,
                             asked, last, resetting, changes>>

\* runForever after a pass, also one that threw.
AfterPass == IF stopped THEN "ended" ELSE IF requested THEN "loop" ELSE "wait"

EndPass(cut) == To(AfterPass) /\ pass' = [NewPass EXCEPT !.cut = cut]

LoopEnds == /\ main = "loop" /\ stopped
            /\ To("ended") /\ Sound
            /\ UNCHANGED <<requested, timer, pass, failures, registry, state>> /\ PassFrame

Receipts == /\ main = "receipts" /\ ~stopped
            /\ To("drivers") /\ Sound
            /\ UNCHANGED <<requested, timer, pass, failures, registry, state>> /\ PassFrame

\* A step whose errors nobody catches ends the pass: the receipts, a conflict of the
\* manifest, a local fault of the event or command steps, an aborted request.
PassThrows == /\ main \in {"receipts", "publish", "events", "commands"}
              /\ EndPass(TRUE)
              /\ IF stopped THEN Sound ELSE Mishap
              /\ UNCHANGED <<requested, timer, failures, registry, state>> /\ PassFrame

\* listSessions of the driver and replaceDriverSessions, then its health.
DriverListed == /\ main = "drivers" /\ Owned /\ Ready
                /\ registry' = [registry EXCEPT !.seen = registry.live]
                /\ state' = [state EXCEPT !.stored = registry.live]
                /\ To("listed") /\ Sound
                /\ UNCHANGED <<requested, timer, pass, failures>> /\ PassFrame

DriverRecorded == /\ main = "listed" /\ Owned
                  /\ state' = DriverFine
                  /\ To("publish") /\ Sound
                  /\ UNCHANGED <<requested, timer, pass, failures, registry>> /\ PassFrame

\* Not ready yet, or an error: the set is not authoritative in this pass.
DriverFails == /\ main = "drivers" /\ Owned
               /\ IF Ready THEN Mishap ELSE Sound
               /\ registry' = [registry EXCEPT !.seen = registry.live]
               /\ state' = DriverFailed
               /\ pass' = [pass EXCEPT !.complete = FALSE]
               /\ To("publish")
               /\ UNCHANGED <<requested, timer, failures>> /\ PassFrame

\* Without access to the state the pass ends.
AccessRefused == /\ main \in {"drivers", "listed", "publish", "handles"} /\ ~Owned
                 /\ pass.batch = {} /\ pass.call = None
                 /\ EndPass(TRUE) /\ Sound
                 /\ UNCHANGED <<requested, timer, failures, registry, state>> /\ PassFrame

\* The steps after the publication; an offline pass has none.
Continue(offline, drain) ==
    IF offline THEN EndPass(pass.cut)
    ELSE To(IF drain THEN "events" ELSE "handles") /\ UNCHANGED pass

PublishFrame == UNCHANGED <<requested, registry, state>> /\ PassFrame

\* An incomplete or offline pass publishes nothing.
PublishNothing == /\ main = "publish" /\ Owned /\ (pass.offline \/ ~pass.complete)
                  /\ Continue(pass.offline, FALSE) /\ Sound
                  /\ UNCHANGED <<timer, failures>> /\ PublishFrame

Publishes == main = "publish" /\ Owned /\ pass.complete /\ ~pass.offline

\* Published or unchanged, or blocked by content, refused or deferred: an answer of the
\* Relay clears the failures unless nothing had to be sent.
PublishAnswered == /\ Publishes
                   /\ \E drain \in BOOLEAN : Continue(FALSE, drain)
                   /\ failures' \in {0, failures}
                   /\ Sound
                   /\ UNCHANGED timer /\ PublishFrame

\* A fault of this machine: events wait for a later pass, handles and commands do not.
PublishFault == /\ Publishes /\ Mishap
                /\ Arm
                /\ Continue(FALSE, FALSE)
                /\ UNCHANGED failures /\ PublishFrame

\* A failure of the Relay: tried again later, or with a rebuilt pipeline at once.
PublishFailed == /\ Publishes /\ Mishap
                 /\ Arm
                 /\ failures' = failures + 1
                 /\ IF ~Escalates(failures') THEN Continue(TRUE, FALSE)
                    ELSE To("recover") /\ UNCHANGED pass
                 /\ PublishFrame

\* The rebuilt pipeline answers; when it is deferred the timer is cancelled, whoever
\* armed it.
Recovered == /\ main = "recover" /\ Owned
             /\ failures' = 0
             /\ \/ \E drain \in BOOLEAN : Continue(FALSE, drain) /\ UNCHANGED timer
                \/ /\ timer' = [timer EXCEPT !.rec = FALSE]
                   /\ pass' = [pass EXCEPT !.cut = TRUE]
                   /\ To("handles")
             /\ Sound
             /\ PublishFrame

\* The failure that led here has been counted; this one comes on top of it.
RecoveryFailed == /\ main = "recover" /\ Sound
                  /\ Arm
                  /\ Continue(TRUE, FALSE)
                  /\ UNCHANGED failures /\ PublishFrame

Events == /\ main = "events" /\ ~stopped
          /\ To("handles") /\ Sound
          /\ UNCHANGED <<requested, timer, pass, failures, registry, state>> /\ PassFrame

-----------------------------------------------------------------------------
(* flushPendingHandles, over the handles that are pending when it begins *)

HandleFrame == UNCHANGED <<requested, timer, failures, registry>>

Pending == {h \in Handles : state.pending[h[1]] = h[2]}

PeekHandles == /\ main = "handles" /\ Owned /\ pass.batch = {} /\ pass.call = None
               /\ IF Pending = {} THEN To("commands") /\ UNCHANGED pass
                  ELSE pass' = [pass EXCEPT !.batch = Pending] /\ UNCHANGED main
               /\ Sound /\ UNCHANGED state /\ HandleFrame /\ PassFrame

\* The request reaches the Relay or is lost; after stop it is aborted.
SendHandle == /\ main = "handles" /\ pass.call = None
              /\ \E h \in pass.batch :
                   /\ pass' = [pass EXCEPT !.batch = @ \ {h}, !.call = h]
                   /\ \/ /\ ~stopped /\ relay' = [relay EXCEPT ![h[1]] = Max2(@, h[2])]
                         /\ Sound
                      \/ UNCHANGED relay /\ IF stopped THEN Sound ELSE Mishap
              /\ HandleFrame
              /\ UNCHANGED <<main, stopped, disposed, server, lock, flight, beat, state, asked,
                             last, resetting, changes>>

\* The handle was delivered: it is removed, and the next one sent.
HandleDelivered == /\ main = "handles" /\ pass.call # None /\ Owned
                   /\ relay[pass.call[1]] >= pass.call[2]
                   /\ state' = Without(state, pass.call)
                   /\ pass' = [pass EXCEPT !.call = None]
                   /\ To(IF pass.batch = {} THEN "commands" ELSE "handles")
                   /\ Sound /\ HandleFrame /\ PassFrame

\* The request or its answer was lost: the others wait for a later pass.
HandleFailed == /\ main = "handles" /\ pass.call # None
                /\ IF relay[pass.call[1]] >= pass.call[2] /\ ~stopped THEN Mishap ELSE Sound
                /\ pass' = [pass EXCEPT !.call = None, !.batch = {}]
                /\ To("commands")
                /\ UNCHANGED state /\ HandleFrame /\ PassFrame

\* pullAndHandleCommands, and the end of the pass.
Commands == /\ main = "commands" /\ ~stopped
            /\ EndPass(pass.cut) /\ Sound
            /\ UNCHANGED <<requested, timer, failures, registry, state>> /\ PassFrame

-----------------------------------------------------------------------------
(* Other processes *)

Elsewhere == UNCHANGED <<control, flight, beat, pass, failures, registry, state, relay, asked,
                         last, changes>>

\* Another coordinator of the same state acquires and releases the lock.
OtherTakes    == Claimable /\ lock' = "other" /\ Mishap
                 /\ UNCHANGED resetting /\ Elsewhere
OtherReleases == lock = "other" /\ lock' = "free" /\ Sound
                 /\ UNCHANGED resetting /\ Elsewhere

\* A reset command writes its journal and completes.
ResetBegins == ~resetting /\ resetting' = TRUE /\ Mishap /\ UNCHANGED lock /\ Elsewhere
ResetEnds   == resetting /\ resetting' = FALSE /\ Sound /\ UNCHANGED lock /\ Elsewhere

-----------------------------------------------------------------------------

Init == /\ main = "down" /\ lock = "free" /\ stopped = FALSE /\ disposed = FALSE
        /\ server = FALSE /\ requested = TRUE /\ timer = [rec |-> FALSE, beat |-> FALSE]
        /\ flight = "none" /\ beat = FALSE /\ pass = NewPass /\ failures = 0
        /\ registry = [live |-> 0, seen |-> 0, recovering |-> TRUE]
        /\ state = [host |-> "none", rel |-> FALSE, driver |-> FALSE, health |-> "healthy",
                    stored |-> 0, pending |-> [s \in Sessions |-> 0]]
        /\ relay = [s \in Sessions |-> 0] /\ asked = [s \in Sessions |-> 0]
        /\ last = "none" /\ resetting = FALSE /\ changes = 0 /\ mishaps = 0

Flight == EnrollAccepted \/ PresenceRecorded \/ EnrollFailed \/ EnrollStopped

Handling == PeekHandles \/ SendHandle \/ HandleDelivered \/ HandleFailed

Publication == \/ PublishNothing \/ PublishAnswered \/ PublishFault \/ PublishFailed
               \/ Recovered \/ RecoveryFailed

Pass == \/ BeginPass \/ GuardStops \/ LoopEnds \/ Receipts \/ PassThrows
        \/ DriverListed \/ DriverFails \/ AccessRefused
        \/ Publication \/ Events \/ Handling \/ Commands

Startup == Construct \/ Validate \/ StartupFails \/ Serve \/ ServeFails

\* Between two writes without an await the thread does nothing else.
MidWrite == flight = "failed" \/ main = "listed"

Await == \/ Startup \/ Pass \/ Flight \/ Reconcile \/ Poll \/ Heartbeat
         \/ Change \/ RecoveryEnds \/ \E h \in Handles : QueueHandle(h)
         \/ StopAndWait \/ StopAndExit

Next == \/ ~MidWrite /\ Await
        \/ FailureRecorded \/ DriverRecorded \/ Exit
        \/ OtherTakes \/ OtherReleases \/ ResetBegins \/ ResetEnds

\* Timers fire, requests are answered or fail, and the thread goes on.
Fairness == /\ WF_vars(~MidWrite /\ Pass) /\ WF_vars(~MidWrite /\ Flight)
            /\ WF_vars(FailureRecorded) /\ WF_vars(DriverRecorded)
            /\ WF_vars(~MidWrite /\ Reconcile) /\ WF_vars(~MidWrite /\ Poll)
            /\ WF_vars(~MidWrite /\ RecoveryEnds)

Spec == Init /\ [][Next]_vars
FairSpec == Spec /\ Fairness

-----------------------------------------------------------------------------
(* Properties *)

Hosts == {"none", "online", "degraded"}
Timers == [rec : BOOLEAN, beat : BOOLEAN]
Passes == [offline : BOOLEAN, complete : BOOLEAN, cut : BOOLEAN,
           batch : SUBSET Handles, call : Handles \cup {None}]
Registries == [live : 0..MaxChanges, seen : 0..MaxChanges, recovering : BOOLEAN]
States == [host : Hosts, rel : BOOLEAN, driver : BOOLEAN, health : {"healthy", "degraded"},
           stored : 0..MaxChanges, pending : [Sessions -> 0..MaxCursor]]

\* Type invariant: every variable has its shape.
TypeOK ==
    /\ main \in Steps /\ lock \in {"free", "daemon", "stale", "other"}
    /\ {stopped, disposed, server, requested, beat, resetting} \subseteq BOOLEAN
    /\ timer \in Timers
    /\ flight \in {"none", "enroll", "accepted", "failed"}
    /\ pass \in Passes
    /\ failures \in Nat
    /\ registry \in Registries
    /\ state \in States
    /\ relay \in [Sessions -> 0..MaxCursor] /\ asked \in [Sessions -> 0..MaxCursor]
    /\ last \in {"none", "ok", "failed"}
    /\ changes \in 0..MaxChanges /\ mishaps \in 0..MaxMishaps

\* While the daemon waits for its next poll, a change of the registry that no pass has
\* listed has its 300 ms timer armed, unless the pass that took the request threw before
\* it listed the sessions, or cancelled the timer in its recovery (daemon.ts:570-574).
\* While it serves, the heartbeat has exactly one link: its timer or the flight it
\* waits for.
TimersAreKept ==
    /\ main = "wait" /\ registry.seen # registry.live => timer.rec \/ pass.cut
    /\ server => timer.beat # beat

\* A handle that a producer was told is accepted is pending until the Relay has it or a
\* newer one, although newer handles arrive, answers are lost and the process ends
\* between delivery and removal.
HandlesAreKept ==
    \A s \in Sessions : state.pending[s] >= asked[s] \/ relay[s] >= asked[s]

\* What the daemon owes it will come back to.
WorkIsKept == TimersAreKept /\ HandlesAreKept

\* The recorded health is degraded exactly when a part of it is, and between two
\* registrations Host and presence record tell how the last one ended.
HealthTellsTheTruth ==
    /\ state.health = "degraded" <=> state.rel \/ state.driver
    /\ flight \notin {"accepted", "failed"} /\ ~stopped =>
         CASE last = "none"   -> TRUE
           [] last = "ok"     -> state.host = "online" /\ ~state.rel
           [] last = "failed" -> state.host # "online" /\ state.rel

\* Whatever is still in flight when the daemon is stopped, the state is written only by
\* the process that holds the runtime lock.
WritesAreOwned == [][state' # state => lock = "daemon" /\ ~disposed]_vars

\* As long as the daemon serves, what the registry has is in the state at last, and what
\* a user has handled is with the Relay at last.
CatchesUp ==
    /\ (server /\ registry.live # state.stored) ~> (~server \/ registry.live = state.stored)
    /\ \A s \in Sessions :
         (server /\ relay[s] < asked[s]) ~> (~server \/ relay[s] >= asked[s])
===============================================================================
