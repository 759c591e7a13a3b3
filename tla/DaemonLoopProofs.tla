--------------------------- MODULE DaemonLoopProofs ---------------------------
(***************************************************************************)
(* What the daemon keeps for any sessions and bounds: its timers and the   *)
(* handles it took, the health it records, and the ownership of its writes. *)
(*                                                                         *)
(* The argument: a process that was not stopped owns the state, so what a  *)
(* registration has written to the Host it also records; and a change that *)
(* no pass has listed leaves a trace, the armed timer or a request, until  *)
(* a pass lists it or is cut short.                                        *)
(***************************************************************************)
EXTENDS DaemonLoop, TLAPS

\* Before it serves, a process has done nothing, and there is none when it is down.
FreshInv ==
    main \in {"down", "starting", "serving"} =>
        /\ ~stopped /\ ~disposed /\ ~server /\ flight = "none" /\ ~beat
        /\ ~timer.rec /\ ~timer.beat /\ last = "none" /\ registry.seen = registry.live

\* A running process has the lock until it gives up its state, which only a stopped one does.
OwnerInv ==
    /\ main # "down" /\ ~disposed => lock = "daemon"
    /\ disposed => stopped
    /\ stopped => ~server

\* A registration that is half recorded has written the Host.
HalfInv ==
    /\ flight = "accepted" => state.host = "online"
    /\ flight = "failed" => state.host # "online" /\ Owned /\ ~stopped

\* A change that no pass has listed leaves a trace.
TraceInv ==
    /\ main = "wait" => ~requested /\ ~stopped
    /\ main \in {"listed", "publish", "recover", "events", "handles", "commands", "wait"}
       /\ registry.seen # registry.live
       => timer.rec \/ requested \/ stopped \/ pass.cut

LoopInv == /\ TypeOK /\ FreshInv /\ OwnerInv /\ HalfInv /\ TraceInv
           /\ WorkIsKept /\ HealthTellsTheTruth

-----------------------------------------------------------------------------
(* Types *)

\* What the state store's transitions return is a state.
LEMMA StateTypes ==
    ASSUME TypeOK
    PROVE  /\ RelayFailed \in States /\ RelayFine \in States
           /\ DriverFailed \in States /\ DriverFine \in States
           /\ \A h \in Hosts : [state EXCEPT !.host = h] \in States
           /\ \A n \in 0..MaxChanges : [state EXCEPT !.stored = n] \in States
           /\ \A h \in Handles : /\ [state EXCEPT !.pending[h[1]] = h[2]] \in States
                                 /\ Without(state, h) \in States
<1>b. MaxCursor \in Nat
  BY BoundsAssumption DEF BoundsAssumption
<1>s. state \in States
  BY DEF TypeOK
<1>1. RelayFailed \in States
  BY <1>s DEF RelayFailed, States
<1>2. RelayFine \in States
  BY <1>s DEF RelayFine, Recorded, Health, States
<1>3. DriverFailed \in States
  BY <1>s DEF DriverFailed, States
<1>4. DriverFine \in States
  BY <1>s DEF DriverFine, Recorded, Health, States
<1>5. \A h \in Hosts : [state EXCEPT !.host = h] \in States
  BY <1>s DEF States
<1>6. \A n \in 0..MaxChanges : [state EXCEPT !.stored = n] \in States
  BY <1>s DEF States
<1>7. ASSUME NEW h \in Handles
      PROVE  [state EXCEPT !.pending[h[1]] = h[2]] \in States /\ Without(state, h) \in States
  <2>1. h[1] \in Sessions /\ h[2] \in 0..MaxCursor /\ 0 \in 0..MaxCursor
    BY <1>b DEF Handles
  <2>2. state.pending \in [Sessions -> 0..MaxCursor]
    BY <1>s DEF States
  <2>3. [state EXCEPT !.pending[h[1]] = h[2]] \in States
    BY <1>s, <2>1, <2>2 DEF States
  <2>4. Without(state, h) \in States
    BY <1>s, <2>1, <2>2 DEF States, Without
  <2> QED BY <2>3, <2>4
<1> QED BY <1>1, <1>2, <1>3, <1>4, <1>5, <1>6, <1>7

\* What the steps write into the timers, the pass and the registry has their types.
LEMMA RecordTypes ==
    ASSUME TypeOK
    PROVE  /\ [rec |-> FALSE, beat |-> FALSE] \in Timers
           /\ \A b \in BOOLEAN : /\ [timer EXCEPT !.rec = b] \in Timers
                                 /\ [timer EXCEPT !.beat = b] \in Timers
                                 /\ [NewPass EXCEPT !.cut = b] \in Passes
                                 /\ [pass EXCEPT !.cut = b] \in Passes
                                 /\ [pass EXCEPT !.offline = b] \in Passes
                                 /\ [pass EXCEPT !.complete = b] \in Passes
           /\ NewPass \in Passes
           /\ [live |-> 0, seen |-> 0, recovering |-> TRUE] \in Registries
           /\ [registry EXCEPT !.seen = registry.live] \in Registries
           /\ [registry EXCEPT !.recovering = FALSE] \in Registries
           /\ \A n \in 0..MaxChanges : [registry EXCEPT !.live = n] \in Registries
           /\ registry.live \in 0..MaxChanges
<1>1. timer \in Timers /\ pass \in Passes /\ registry \in Registries /\ MaxChanges \in Nat
  BY BoundsAssumption DEF BoundsAssumption, TypeOK
<1>2. \A b \in BOOLEAN : /\ [timer EXCEPT !.rec = b] \in Timers
                         /\ [timer EXCEPT !.beat = b] \in Timers
  BY <1>1 DEF Timers
<1>3. NewPass \in Passes /\ \A b \in BOOLEAN : [NewPass EXCEPT !.cut = b] \in Passes
  BY DEF Passes, NewPass
<1>4. \A b \in BOOLEAN : /\ [pass EXCEPT !.cut = b] \in Passes
                         /\ [pass EXCEPT !.offline = b] \in Passes
                         /\ [pass EXCEPT !.complete = b] \in Passes
  BY <1>1 DEF Passes
<1>5. [live |-> 0, seen |-> 0, recovering |-> TRUE] \in Registries
  BY <1>1 DEF Registries
<1>7. registry.live \in 0..MaxChanges
  BY <1>1 DEF Registries
<1>8. /\ [registry EXCEPT !.seen = registry.live] \in Registries
      /\ [registry EXCEPT !.recovering = FALSE] \in Registries
  BY <1>1, <1>7 DEF Registries
<1>9. \A n \in 0..MaxChanges : [registry EXCEPT !.live = n] \in Registries
  BY <1>1 DEF Registries
<1>6. [rec |-> FALSE, beat |-> FALSE] \in Timers
  BY DEF Timers
<1> QED BY <1>2, <1>3, <1>4, <1>5, <1>6, <1>7, <1>8, <1>9

\* A batch and a call of the delivery of handles.
LEMMA HandleTypes ==
    ASSUME TypeOK
    PROVE  /\ pass.batch \subseteq Handles /\ pass.call \in Handles \cup {None}
           /\ [pass EXCEPT !.batch = Pending] \in Passes
           /\ \A h \in pass.batch : [pass EXCEPT !.batch = @ \ {h}, !.call = h] \in Passes
           /\ [pass EXCEPT !.call = None] \in Passes
           /\ [pass EXCEPT !.call = None, !.batch = {}] \in Passes
           /\ \A h \in Handles : /\ [relay EXCEPT ![h[1]] = Max2(@, h[2])] \in [Sessions -> 0..MaxCursor]
                                 /\ [asked EXCEPT ![h[1]] = Max2(@, h[2])] \in [Sessions -> 0..MaxCursor]
<1>1. pass \in Passes /\ MaxCursor \in Nat
  BY BoundsAssumption DEF BoundsAssumption, TypeOK
<1>2. pass.batch \subseteq Handles /\ pass.call \in Handles \cup {None} /\ Pending \subseteq Handles
  BY <1>1 DEF Passes, Pending
<1>3. [pass EXCEPT !.batch = Pending] \in Passes /\ [pass EXCEPT !.call = None] \in Passes
  BY <1>1, <1>2 DEF Passes
<1>4. [pass EXCEPT !.call = None, !.batch = {}] \in Passes
  BY <1>1, <1>2 DEF Passes
<1>5. \A h \in pass.batch : [pass EXCEPT !.batch = @ \ {h}, !.call = h] \in Passes
  BY <1>1, <1>2 DEF Passes
<1>6. \A h \in Handles : h[1] \in Sessions /\ h[2] \in 0..MaxCursor
  BY <1>1 DEF Handles
<1>7. \A h \in Handles : /\ [relay EXCEPT ![h[1]] = Max2(@, h[2])] \in [Sessions -> 0..MaxCursor]
                         /\ [asked EXCEPT ![h[1]] = Max2(@, h[2])] \in [Sessions -> 0..MaxCursor]
  BY <1>6 DEF TypeOK, Max2
<1> QED BY <1>2, <1>3, <1>4, <1>5, <1>7

\* The ends of a pass and of a flight write what has a type.
LEMMA EndTypes ==
    ASSUME TypeOK
    PROVE  /\ \A cut \in BOOLEAN : EndPass(cut) => main' \in Steps /\ pass' \in Passes
           /\ \A offline, drain \in BOOLEAN :
                 Continue(offline, drain) => main' \in Steps /\ pass' \in Passes
           /\ \A ok \in BOOLEAN : Settle(ok) =>
                 /\ main' \in Steps /\ pass' \in Passes /\ timer' \in Timers
                 /\ flight' \in {"none", "enroll", "accepted", "failed"} /\ beat' \in BOOLEAN
           /\ Arm => timer' \in Timers
           /\ Woken => main' \in Steps
           /\ Share => flight' \in {"none", "enroll", "accepted", "failed"}
<1>1. /\ main \in Steps /\ pass \in Passes /\ timer \in Timers
      /\ flight \in {"none", "enroll", "accepted", "failed"}
      /\ pass.cut \in BOOLEAN /\ timer.rec \in BOOLEAN /\ stopped \in BOOLEAN
  BY DEF TypeOK, Passes, Timers
<1>2. ASSUME NEW cut \in BOOLEAN, EndPass(cut) PROVE main' \in Steps /\ pass' \in Passes
  BY <1>2, RecordTypes DEF EndPass, AfterPass, To, Steps, PassSteps
<1>3. ASSUME NEW offline \in BOOLEAN, NEW drain \in BOOLEAN, Continue(offline, drain)
      PROVE  main' \in Steps /\ pass' \in Passes
  BY <1>1, <1>2, <1>3 DEF Continue, To, Steps, PassSteps
<1>4. ASSUME NEW ok \in BOOLEAN, Settle(ok)
      PROVE  /\ main' \in Steps /\ pass' \in Passes /\ timer' \in Timers
             /\ flight' \in {"none", "enroll", "accepted", "failed"} /\ beat' \in BOOLEAN
  <2>1. (~ok) \in BOOLEAN /\ (~stopped) \in BOOLEAN
    OBVIOUS
  <2>2. pass' \in Passes
    BY <1>1, <1>4, <2>1, RecordTypes DEF Settle
  <2>3. timer' \in Timers
    BY <1>1, <1>4, <2>1, RecordTypes DEF Settle
  <2>4. main' \in Steps
    BY <1>1, <1>4 DEF Settle, Steps, PassSteps
  <2> QED BY <1>4, <2>2, <2>3, <2>4 DEF Settle
<1>5. ASSUME Arm PROVE timer' \in Timers
  <2>1. (timer.rec \/ ~stopped) \in BOOLEAN
    OBVIOUS
  <2>2. timer' = [timer EXCEPT !.rec = timer.rec \/ ~stopped]
    BY <1>5 DEF Arm
  <2> QED BY <2>1, <2>2, RecordTypes
<1>6. ASSUME Woken PROVE main' \in Steps
  BY <1>1, <1>6 DEF Woken, To, Steps
<1>7. ASSUME Share PROVE flight' \in {"none", "enroll", "accepted", "failed"}
  BY <1>1, <1>7 DEF Share
<1> QED BY <1>2, <1>3, <1>4, <1>5, <1>6, <1>7

\* Every step keeps the types.
LEMMA TypeStep == ASSUME TypeOK, Next PROVE TypeOK'
<1> USE DEF To, Sound, Mishap
<1>b. MaxChanges \in Nat /\ MaxCursor \in Nat /\ MaxMishaps \in Nat
  BY BoundsAssumption DEF BoundsAssumption
<1>m. ASSUME Mishap \/ Sound PROVE mishaps' \in 0..MaxMishaps
  BY <1>b, <1>m DEF TypeOK
<1>s. {"down", "starting", "serving", "loop", "wait", "ended", "presence", "receipts", "drivers",
       "listed", "publish", "recover", "events", "handles", "commands"} \subseteq Steps
  BY DEF Steps, PassSteps
<1>k. ASSUME Blank
      PROVE  /\ stopped' \in BOOLEAN /\ disposed' \in BOOLEAN /\ server' \in BOOLEAN
             /\ requested' \in BOOLEAN /\ timer' \in Timers
             /\ flight' \in {"none", "enroll", "accepted", "failed"}
             /\ beat' \in BOOLEAN /\ last' \in {"none", "ok", "failed"}
             /\ pass' \in Passes /\ failures' \in Nat /\ registry' \in Registries
  BY <1>k, RecordTypes DEF Blank
<1>e. ASSUME NEW r \in BOOLEAN, Stop(r)
      PROVE  /\ stopped' \in BOOLEAN /\ disposed' \in BOOLEAN /\ server' \in BOOLEAN
             /\ timer' \in Timers /\ lock' \in {"free", "daemon", "stale", "other"}
  BY <1>e, RecordTypes DEF Stop, TypeOK
<1>1. CASE Startup
  <2>1. CASE Construct
    BY <1>m, <1>s, <1>k, <2>1 DEF Construct, TypeOK
  <2>2. CASE Validate
    BY <1>m, <1>s, <2>2 DEF Validate, TypeOK
  <2>3. CASE StartupFails \/ ServeFails
    BY <1>m, <1>s, <1>k, <2>3 DEF StartupFails, ServeFails, Down, TypeOK
  <2>4. CASE Serve
    BY <1>m, <1>s, <2>4, RecordTypes DEF Serve, TypeOK
  <2> QED BY <1>1, <2>1, <2>2, <2>3, <2>4 DEF Startup
<1>2. CASE StopAndWait
  BY <1>m, <1>s, <1>e, <1>2 DEF StopAndWait, TypeOK
<1>3. CASE StopAndExit \/ Exit
  BY <1>m, <1>s, <1>k, <1>3 DEF StopAndExit, Exit, Down, TypeOK
<1>4. CASE Reconcile \/ Poll \/ Heartbeat \/ RecoveryEnds
  BY <1>m, <1>s, <1>4, RecordTypes, EndTypes
     DEF Reconcile, Poll, Heartbeat, RecoveryEnds, control, TypeOK
<1>5. CASE Change
  <2>1. changes + 1 \in 0..MaxChanges
    BY <1>b, <1>5 DEF Change, TypeOK
  <2> QED BY <1>m, <1>5, <2>1, RecordTypes, EndTypes DEF Change, TypeOK
<1>6. ASSUME NEW h \in Handles, QueueHandle(h) PROVE TypeOK'
  BY <1>m, <1>6, StateTypes, HandleTypes, EndTypes DEF QueueHandle, TypeOK
<1>7. CASE Flight \/ FailureRecorded
  <2>1. CASE EnrollAccepted \/ EnrollFailed
    BY <1>m, <2>1, StateTypes DEF EnrollAccepted, EnrollFailed, FlightFrame, TypeOK, Hosts
  <2>2. CASE PresenceRecorded
    <3>1. (stopped \/ Owned) \in BOOLEAN
      BY DEF Owned
    <3> QED BY <1>m, <2>2, <3>1, StateTypes, EndTypes DEF PresenceRecorded, FlightFrame, TypeOK
  <2>3. CASE FailureRecorded
    BY <1>m, <2>3, StateTypes, EndTypes DEF FailureRecorded, FlightFrame, TypeOK
  <2>4. CASE EnrollStopped
    BY <1>m, <2>4, EndTypes DEF EnrollStopped, FlightFrame, TypeOK
  <2> QED BY <1>7, <2>1, <2>2, <2>3, <2>4 DEF Flight
<1>8. CASE BeginPass
  BY <1>m, <1>s, <1>8, RecordTypes, EndTypes DEF BeginPass, TypeOK
<1>9. CASE GuardStops
  BY <1>m, <1>s, <1>e, <1>9 DEF GuardStops, TypeOK
<1>10. CASE LoopEnds \/ Receipts \/ PassThrows \/ AccessRefused \/ Events
  BY <1>m, <1>s, <1>10, EndTypes
     DEF LoopEnds, Receipts, PassThrows, AccessRefused, Events, PassFrame, TypeOK
<1>11. CASE Commands
  <2>1. pass.cut \in BOOLEAN
    BY DEF TypeOK, Passes
  <2> QED BY <1>m, <1>11, <2>1, EndTypes DEF Commands, PassFrame, TypeOK
<1>12. CASE DriverListed \/ DriverRecorded \/ DriverFails
  BY <1>m, <1>s, <1>12, StateTypes, RecordTypes
     DEF DriverListed, DriverRecorded, DriverFails, PassFrame, TypeOK
<1>13. CASE Publication
  <2>1. pass.offline \in BOOLEAN
    BY DEF TypeOK, Passes
  <2>c. pass.cut \in BOOLEAN /\ pass \in Passes
    BY DEF TypeOK, Passes
  <2>2. CASE PublishNothing \/ PublishAnswered
    <3>1. main' \in Steps /\ pass' \in Passes
      BY <1>s, <2>1, <2>2, <2>c, RecordTypes
         DEF PublishNothing, PublishAnswered, Continue, EndPass, AfterPass
    <3>2. failures' \in Nat /\ timer' = timer /\ (Mishap \/ Sound)
      <4>1. CASE PublishNothing
        BY <4>1 DEF PublishNothing, TypeOK
      <4>2. CASE PublishAnswered
        <5>1. failures' \in {0, failures} /\ timer' = timer /\ Sound
          BY <4>2 DEF PublishAnswered
        <5> QED BY <5>1 DEF TypeOK
      <4> QED BY <2>2, <4>1, <4>2
    <3>3. PublishFrame
      BY <2>2 DEF PublishNothing, PublishAnswered
    <3> QED BY <1>m, <3>1, <3>2, <3>3 DEF PublishFrame, PassFrame, TypeOK
  <2>3. CASE PublishFault \/ RecoveryFailed
    BY <1>m, <2>3, EndTypes DEF PublishFault, RecoveryFailed, PublishFrame, PassFrame, TypeOK
  <2>4. CASE PublishFailed
    <3>1. main' \in Steps /\ pass' \in Passes
      BY <1>s, <2>4, <2>c, RecordTypes DEF PublishFailed, Continue, EndPass, AfterPass
    <3>2. timer' \in Timers
      BY <2>4, EndTypes DEF PublishFailed
    <3> QED BY <1>m, <2>4, <3>1, <3>2 DEF PublishFailed, PublishFrame, PassFrame, TypeOK
  <2>5. CASE Recovered
    BY <1>m, <1>s, <2>5, EndTypes, RecordTypes DEF Recovered, PublishFrame, PassFrame, TypeOK
  <2> QED BY <1>13, <2>2, <2>3, <2>4, <2>5 DEF Publication
<1>14. CASE Handling
  <2>1. CASE PeekHandles
    BY <1>m, <1>s, <2>1, HandleTypes DEF PeekHandles, HandleFrame, PassFrame, TypeOK
  <2>2. CASE SendHandle
    <3>1. PICK h \in pass.batch :
             /\ pass' = [pass EXCEPT !.batch = @ \ {h}, !.call = h]
             /\ \/ ~stopped /\ relay' = [relay EXCEPT ![h[1]] = Max2(@, h[2])] /\ Sound
                \/ UNCHANGED relay /\ (Sound \/ Mishap)
      BY <2>2 DEF SendHandle
    <3>2. pass' \in Passes
      BY <3>1, HandleTypes
    <3>3. relay' \in [Sessions -> 0..MaxCursor]
      <4>1. h \in Handles
        BY HandleTypes
      <4> QED BY <3>1, <4>1, HandleTypes DEF TypeOK
    <3> QED BY <1>m, <2>2, <3>1, <3>2, <3>3 DEF SendHandle, HandleFrame, TypeOK
  <2>3. CASE HandleDelivered
    BY <1>m, <1>s, <2>3, HandleTypes, StateTypes DEF HandleDelivered, HandleFrame, PassFrame, TypeOK
  <2>4. CASE HandleFailed
    BY <1>m, <1>s, <2>4, HandleTypes DEF HandleFailed, HandleFrame, PassFrame, TypeOK
  <2> QED BY <1>14, <2>1, <2>2, <2>3, <2>4 DEF Handling
<1>15. CASE OtherTakes \/ OtherReleases \/ ResetBegins \/ ResetEnds
  BY <1>m, <1>15 DEF OtherTakes, OtherReleases, ResetBegins, ResetEnds, Elsewhere, control, TypeOK
<1> QED BY <1>1, <1>2, <1>3, <1>4, <1>5, <1>6, <1>7, <1>8, <1>9, <1>10, <1>11, <1>12, <1>13,
       <1>14, <1>15 DEF Next, Await, Pass

-----------------------------------------------------------------------------
(* The process and its lock *)

Fresh == {"down", "starting", "serving"}

\* Where the steps that neither start nor end the process leave it.
Goes == \/ Pass \/ Flight \/ Reconcile \/ Poll \/ Heartbeat \/ Change \/ RecoveryEnds
        \/ \E h \in Handles : QueueHandle(h)
        \/ StopAndWait \/ FailureRecorded \/ DriverRecorded

\* Such a step is taken by a process that serves or has served, and leaves it one.
LEMMA GoesOn ==
    ASSUME TypeOK, FreshInv, Goes
    PROVE  main \notin Fresh /\ main' \notin Fresh
<1> USE DEF To, Fresh
<1>c. ASSUME NEW cut, EndPass(cut) PROVE main' \notin Fresh
  BY <1>c DEF EndPass, AfterPass
<1>d. \A offline, drain : Continue(offline, drain) => main' \notin Fresh
  BY DEF Continue, EndPass, AfterPass
<1>1. CASE Flight \/ FailureRecorded
  <2>1. flight # "none"
    BY <1>1 DEF Flight, EnrollAccepted, PresenceRecorded, EnrollFailed, EnrollStopped, FailureRecorded
  <2>2. main \notin Fresh
    BY <2>1 DEF FreshInv
  <2> QED BY <1>1, <2>2 DEF Flight, EnrollAccepted, PresenceRecorded, EnrollFailed, EnrollStopped,
         FailureRecorded, Settle
<1>2. CASE StopAndWait
  BY <1>2 DEF StopAndWait, Running
<1>3. CASE Reconcile \/ Poll \/ Heartbeat
  <2>1. CASE Heartbeat
    BY <2>1 DEF Heartbeat, FreshInv
  <2>2. CASE Poll
    BY <2>2 DEF Poll
  <2>3. CASE Reconcile
    BY <2>3 DEF Reconcile, Woken, FreshInv
  <2> QED BY <1>3, <2>1, <2>2, <2>3
<1>4. CASE Change \/ RecoveryEnds \/ \E h \in Handles : QueueHandle(h)
  BY <1>4 DEF Change, RecoveryEnds, QueueHandle, FreshInv, control
<1>5. CASE BeginPass \/ GuardStops \/ LoopEnds \/ Receipts \/ Events
  BY <1>5 DEF BeginPass, GuardStops, LoopEnds, Receipts, Events
<1>6. CASE PassThrows \/ AccessRefused \/ Commands
  BY <1>6, <1>c DEF PassThrows, AccessRefused, Commands
<1>7. CASE DriverListed \/ DriverRecorded \/ DriverFails
  BY <1>7 DEF DriverListed, DriverRecorded, DriverFails
<1>8. CASE Publication
  BY <1>8 DEF Publication, PublishNothing, PublishAnswered, PublishFault, PublishFailed, Recovered,
     RecoveryFailed, Publishes, Continue, EndPass, AfterPass
<1>9. CASE Handling
  BY <1>9 DEF Handling, PeekHandles, SendHandle, HandleDelivered, HandleFailed
<1> QED BY <1>1, <1>2, <1>3, <1>4, <1>5, <1>6, <1>7, <1>8, <1>9 DEF Goes, Pass

\* Only stop gives up server, store or lock while the process runs.
LEMMA OnlyStopGivesUp ==
    ASSUME Goes
    PROVE  UNCHANGED <<stopped, disposed, server, lock>> \/ \E r \in BOOLEAN : Stop(r)
<1>1. CASE Flight \/ FailureRecorded
  BY <1>1 DEF Flight, EnrollAccepted, PresenceRecorded, EnrollFailed, EnrollStopped,
     FailureRecorded, FlightFrame
<1>2. CASE Reconcile \/ Poll \/ Heartbeat \/ Change \/ RecoveryEnds
           \/ \E h \in Handles : QueueHandle(h)
  BY <1>2 DEF Reconcile, Poll, Heartbeat, Change, RecoveryEnds, QueueHandle, control
<1>3. CASE StopAndWait \/ GuardStops
  BY <1>3 DEF StopAndWait, GuardStops
<1>4. CASE BeginPass \/ SendHandle
  BY <1>4 DEF BeginPass, SendHandle
<1>5. CASE LoopEnds \/ Receipts \/ Events \/ PassThrows \/ AccessRefused \/ Commands
           \/ DriverListed \/ DriverRecorded \/ DriverFails
  BY <1>5 DEF LoopEnds, Receipts, Events, PassThrows, AccessRefused, Commands, DriverListed,
     DriverRecorded, DriverFails, PassFrame
<1>6. CASE Publication
  BY <1>6 DEF Publication, PublishNothing, PublishAnswered, PublishFault, PublishFailed, Recovered,
     RecoveryFailed, PublishFrame, PassFrame
<1>7. CASE PeekHandles \/ HandleDelivered \/ HandleFailed
  BY <1>7 DEF PeekHandles, HandleDelivered, HandleFailed, PassFrame
<1> QED BY <1>1, <1>2, <1>3, <1>4, <1>5, <1>6, <1>7 DEF Goes, Pass, Handling

\* The steps that leave no process behind, or start one.
LEMMA Renewals ==
    ASSUME TypeOK, FreshInv, OwnerInv,
           Construct \/ StartupFails \/ ServeFails \/ StopAndExit \/ Exit
    PROVE  /\ Blank
           /\ (main' = "starting" /\ lock' = "daemon") \/ main' = "down"
           /\ UNCHANGED <<state, relay, asked>>
  BY DEF Construct, StartupFails, ServeFails, StopAndExit, Exit, Down, To

\* A fresh process has done nothing, and a running one has the lock.
LEMMA ProcessStep ==
    ASSUME TypeOK, FreshInv, OwnerInv, Next
    PROVE  FreshInv' /\ OwnerInv'
<1>1. CASE Construct \/ StartupFails \/ ServeFails \/ StopAndExit \/ Exit
  <2>1. /\ ~stopped' /\ ~disposed' /\ ~server' /\ flight' = "none" /\ ~beat'
        /\ ~timer'.rec /\ ~timer'.beat /\ last' = "none" /\ registry'.seen = registry'.live
    <3>1. Blank
      BY <1>1, Renewals
    <3>2. ~timer'.rec /\ ~timer'.beat
      BY <3>1 DEF Blank
    <3>3. registry'.seen = registry'.live
      BY <3>1 DEF Blank
    <3> QED BY <3>1, <3>2, <3>3 DEF Blank
  <2>2. main' = "down" \/ lock' = "daemon"
    BY <1>1, Renewals
  <2> QED BY <2>1, <2>2 DEF FreshInv, OwnerInv
<1>2. CASE Goes
  <2>1. main \notin Fresh /\ main' \notin Fresh
    BY <1>2, GoesOn
  <2>2. FreshInv'
    BY <2>1 DEF FreshInv, Fresh
  <2>3. CASE UNCHANGED <<stopped, disposed, server, lock>>
    BY <2>1, <2>2, <2>3 DEF OwnerInv, Fresh
  <2>4. ASSUME NEW r \in BOOLEAN, Stop(r) PROVE OwnerInv'
    BY <2>1, <2>4 DEF OwnerInv, Fresh, Stop
  <2> QED BY <1>2, <2>2, <2>3, <2>4, OnlyStopGivesUp
<1>3. CASE Validate
  BY <1>3 DEF Validate, FreshInv, OwnerInv, To
<1>4. CASE Serve
  BY <1>4 DEF Serve, FreshInv, OwnerInv, To
<1>5. CASE OtherTakes
  BY <1>5 DEF OtherTakes, Claimable, Elsewhere, control, FreshInv, OwnerInv
<1>6. CASE OtherReleases \/ ResetBegins \/ ResetEnds
  BY <1>6 DEF OtherReleases, ResetBegins, ResetEnds, Elsewhere, control, FreshInv, OwnerInv
<1> QED BY <1>1, <1>2, <1>3, <1>4, <1>5, <1>6 DEF Next, Await, Startup, Goes, Flight

-----------------------------------------------------------------------------
(* Health *)

Recordings == EnrollAccepted \/ EnrollFailed \/ PresenceRecorded \/ FailureRecorded

Coherent == state.health = "degraded" <=> state.rel \/ state.driver

\* A transition of the state store computes the health from its parts, and only
\* those of a registration touch the Host and its part.
LEMMA Transitions ==
    ASSUME TypeOK
    PROVE  /\ /\ RelayFailed.host = state.host /\ RelayFailed.rel
              /\ RelayFailed.health = "degraded"
           /\ /\ RelayFine.host = state.host /\ ~RelayFine.rel
              /\ Coherent => (RelayFine.health = "degraded" <=> RelayFine.rel \/ RelayFine.driver)
           /\ /\ DriverFailed.host = state.host /\ DriverFailed.rel = state.rel
              /\ DriverFailed.health = "degraded" /\ DriverFailed.driver
           /\ /\ DriverFine.host = state.host /\ DriverFine.rel = state.rel
              /\ Coherent => (DriverFine.health = "degraded" <=> DriverFine.rel \/ DriverFine.driver)
<1>s. state \in States
  BY DEF TypeOK
<1>1. RelayFailed.host = state.host /\ RelayFailed.rel /\ RelayFailed.health = "degraded"
  BY <1>s DEF RelayFailed, States
<1>2. RelayFine.host = state.host /\ ~RelayFine.rel
  BY <1>s DEF RelayFine, Recorded, Health, States
<1>3. Coherent => (RelayFine.health = "degraded" <=> RelayFine.rel \/ RelayFine.driver)
  BY <1>s DEF RelayFine, Recorded, Health, States, Coherent
<1>4. /\ DriverFailed.host = state.host /\ DriverFailed.rel = state.rel
      /\ DriverFailed.health = "degraded" /\ DriverFailed.driver
  BY <1>s DEF DriverFailed, States
<1>5. DriverFine.host = state.host /\ DriverFine.rel = state.rel
  BY <1>s DEF DriverFine, Recorded, Health, States
<1>6. Coherent => (DriverFine.health = "degraded" <=> DriverFine.rel \/ DriverFine.driver)
  BY <1>s DEF DriverFine, Recorded, Health, States, Coherent
<1> QED BY <1>1, <1>2, <1>3, <1>4, <1>5, <1>6

\* What the remaining writes of the state leave alone.
LEMMA OtherWrites ==
    ASSUME TypeOK
    PROVE  /\ \A n : LET s == [state EXCEPT !.stored = n] IN
                 /\ s.host = state.host /\ s.rel = state.rel /\ s.driver = state.driver
                 /\ s.health = state.health
           /\ \A h \in Handles :
                 LET s == [state EXCEPT !.pending[h[1]] = h[2]] IN
                 /\ s.host = state.host /\ s.rel = state.rel /\ s.driver = state.driver
                 /\ s.health = state.health
           /\ \A h \in Handles :
                 LET s == Without(state, h) IN
                 /\ s.host = state.host /\ s.rel = state.rel /\ s.driver = state.driver
                 /\ s.health = state.health
  BY DEF TypeOK, States, Without

\* The health is coherent after every step, and only a recording touches the Host.
LEMMA StateWrites ==
    ASSUME TypeOK, Next
    PROVE  /\ Coherent => Coherent'
           /\ Recordings \/ (state'.host = state.host /\ state'.rel = state.rel)
<1>k. ASSUME state' = state
      PROVE  /\ Coherent => Coherent'
             /\ state'.host = state.host /\ state'.rel = state.rel
  BY <1>k DEF Coherent
<1>s. state \in States
  BY DEF TypeOK
<1>1. CASE EnrollAccepted \/ EnrollFailed
  <2>1. \/ state' = state
        \/ \E h \in Hosts : state' = [state EXCEPT !.host = h]
    BY <1>1 DEF EnrollAccepted, EnrollFailed, Hosts
  <2>2. ASSUME NEW h \in Hosts, state' = [state EXCEPT !.host = h]
        PROVE  Coherent => Coherent'
    BY <1>s, <2>2 DEF Coherent, States
  <2> QED BY <1>1, <1>k, <2>1, <2>2 DEF Recordings
<1>2. CASE PresenceRecorded \/ FailureRecorded
  <2>1. state' = state \/ state' = RelayFine \/ state' = RelayFailed
    BY <1>2 DEF PresenceRecorded, FailureRecorded
  <2> QED BY <1>2, <1>k, <2>1, Transitions DEF Recordings, Coherent
<1>3. CASE DriverListed
  BY <1>3, OtherWrites DEF DriverListed, Coherent
<1>4. CASE DriverRecorded
  BY <1>4, Transitions DEF DriverRecorded, Coherent
<1>5. CASE DriverFails
  BY <1>5, Transitions DEF DriverFails, Coherent
<1>6. ASSUME NEW h \in Handles, QueueHandle(h)
      PROVE  /\ Coherent => Coherent'
             /\ state'.host = state.host /\ state'.rel = state.rel
  BY <1>6, OtherWrites DEF QueueHandle, Coherent
<1>7. CASE HandleDelivered
  <2>1. pass.call \in Handles
    BY <1>7, HandleTypes DEF HandleDelivered
  <2> QED BY <1>7, <2>1, OtherWrites DEF HandleDelivered, Coherent
<1>8. CASE Startup \/ StopAndExit \/ StopAndWait \/ Exit
  BY <1>8, <1>k DEF Startup, Construct, Validate, StartupFails, Serve, ServeFails, StopAndExit,
     StopAndWait, Exit
<1>9. CASE Reconcile \/ Poll \/ Heartbeat \/ Change \/ RecoveryEnds
           \/ OtherTakes \/ OtherReleases \/ ResetBegins \/ ResetEnds \/ EnrollStopped
  BY <1>9, <1>k DEF Reconcile, Poll, Heartbeat, Change, RecoveryEnds, OtherTakes, OtherReleases,
     ResetBegins, ResetEnds, Elsewhere, EnrollStopped
<1>10. CASE BeginPass \/ GuardStops \/ LoopEnds \/ Receipts \/ Events \/ PassThrows
            \/ AccessRefused \/ Commands
  BY <1>10, <1>k DEF BeginPass, GuardStops, LoopEnds, Receipts, Events, PassThrows, AccessRefused,
     Commands
<1>11. CASE Publication
  BY <1>11, <1>k DEF Publication, PublishNothing, PublishAnswered, PublishFault, PublishFailed,
     Recovered, RecoveryFailed, PublishFrame
<1>12. CASE PeekHandles \/ SendHandle \/ HandleFailed
  BY <1>12, <1>k DEF PeekHandles, SendHandle, HandleFailed
<1> QED BY <1>1, <1>2, <1>3, <1>4, <1>5, <1>6, <1>7, <1>8, <1>9, <1>10, <1>11, <1>12
        DEF Next, Await, Pass, Flight, Handling

\* A registration begins with "enroll", ends with "none", and is recorded in between;
\* how it ended changes with the record.
LEMMA FlightWrites ==
    ASSUME Goes
    PROVE  \/ Recordings
           \/ /\ UNCHANGED last
              /\ flight' \in {flight, "none"} \/ (flight = "none" /\ flight' = "enroll")
              /\ flight' # flight /\ flight # "none" => stopped /\ stopped'
<1>1. CASE Flight \/ FailureRecorded
  BY <1>1 DEF Flight, Recordings, EnrollStopped, Settle, FlightFrame
<1>2. CASE BeginPass \/ Heartbeat
  BY <1>2 DEF BeginPass, Heartbeat, Share
<1>3. CASE Reconcile \/ Poll \/ Change \/ RecoveryEnds \/ StopAndWait \/ GuardStops
           \/ \E h \in Handles : QueueHandle(h)
  BY <1>3 DEF Reconcile, Poll, Change, RecoveryEnds, StopAndWait, GuardStops, QueueHandle
<1>4. CASE LoopEnds \/ Receipts \/ Events \/ PassThrows \/ AccessRefused \/ Commands
           \/ DriverListed \/ DriverRecorded \/ DriverFails
  BY <1>4 DEF LoopEnds, Receipts, Events, PassThrows, AccessRefused, Commands, DriverListed,
     DriverRecorded, DriverFails, PassFrame
<1>5. CASE Publication
  BY <1>5 DEF Publication, PublishNothing, PublishAnswered, PublishFault, PublishFailed, Recovered,
     RecoveryFailed, PublishFrame, PassFrame
<1>6. CASE Handling
  BY <1>6 DEF Handling, PeekHandles, SendHandle, HandleDelivered, HandleFailed, PassFrame
<1> QED BY <1>1, <1>2, <1>3, <1>4, <1>5, <1>6 DEF Goes, Pass

\* While the thread writes the second half of a failed registration it does nothing else.
LEMMA MidWriteSteps ==
    ASSUME Next, MidWrite
    PROVE  FailureRecorded \/ DriverRecorded \/ Exit
              \/ OtherTakes \/ OtherReleases \/ ResetBegins \/ ResetEnds
  BY DEF Next

\* What a registration has half recorded fits the Host.
LEMMA HalfStep ==
    ASSUME TypeOK, FreshInv, OwnerInv, HalfInv, Next
    PROVE  HalfInv'
<1>s. state \in States
  BY DEF TypeOK
<1>1. CASE EnrollAccepted
  <2>1. state'.host = "online" /\ flight' = "accepted"
    BY <1>s, <1>1 DEF EnrollAccepted, States
  <2> QED BY <2>1 DEF HalfInv
<1>2. CASE EnrollFailed
  <2>1. state'.host # "online"
    BY <1>s, <1>2 DEF EnrollFailed, States
  <2>2. flight' = "failed" /\ Owned' /\ ~stopped'
    BY <1>2 DEF EnrollFailed, FlightFrame, Owned
  <2> QED BY <2>1, <2>2 DEF HalfInv
<1>3. CASE PresenceRecorded \/ FailureRecorded
  BY <1>3 DEF PresenceRecorded, FailureRecorded, Settle, HalfInv
<1>4. CASE flight = "failed" /\ ~Recordings
  <2>1. CASE Exit
    BY <2>1 DEF Exit, Down, Blank, HalfInv
  <2>2. CASE DriverRecorded
    <3>1. state'.host = state.host
      BY <1>4, StateWrites
    <3> QED BY <1>4, <2>2, <3>1 DEF DriverRecorded, PassFrame, HalfInv, Owned
  <2>3. CASE OtherTakes \/ OtherReleases \/ ResetBegins \/ ResetEnds
    BY <1>4, <2>3 DEF OtherTakes, OtherReleases, ResetBegins, ResetEnds, Claimable, Elsewhere, control,
       HalfInv, Owned
  <2> QED BY <1>4, <2>1, <2>2, <2>3, MidWriteSteps DEF MidWrite, Recordings
<1>5. CASE flight # "failed" /\ ~Recordings
  <2>1. CASE Goes
    <3>1. flight' \in {flight, "none", "enroll"}
      BY <1>5, <2>1, FlightWrites
    <3>2. state'.host = state.host
      BY <1>5, StateWrites
    <3> QED BY <1>5, <3>1, <3>2 DEF HalfInv
  <2>2. CASE Construct \/ StartupFails \/ ServeFails \/ StopAndExit \/ Exit
    BY <2>2, Renewals DEF Blank, HalfInv
  <2>3. CASE Validate \/ Serve \/ OtherTakes \/ OtherReleases \/ ResetBegins \/ ResetEnds
    BY <1>5, <2>3 DEF Validate, Serve, OtherTakes, OtherReleases, ResetBegins, ResetEnds, Elsewhere,
       HalfInv
  <2> QED BY <2>1, <2>2, <2>3 DEF Next, Await, Startup, Goes
<1> QED BY <1>1, <1>2, <1>3, <1>4, <1>5 DEF Recordings

\* The recorded health tells the truth.
LEMMA HealthStep ==
    ASSUME TypeOK, FreshInv, OwnerInv, HalfInv, HealthTellsTheTruth, Next
    PROVE  HealthTellsTheTruth'
<1> DEFINE Told == CASE last = "none"   -> TRUE
                     [] last = "ok"     -> state.host = "online" /\ ~state.rel
                     [] last = "failed" -> state.host # "online" /\ state.rel
<1>0. Coherent'
  BY StateWrites DEF HealthTellsTheTruth, Coherent
<1>1. SUFFICES flight' \notin {"accepted", "failed"} /\ ~stopped' => Told'
  BY <1>0 DEF HealthTellsTheTruth, Coherent
<1>2. CASE EnrollAccepted \/ EnrollFailed
  BY <1>2 DEF EnrollAccepted, EnrollFailed
<1>3. CASE PresenceRecorded
  <2>1. CASE stopped
    BY <1>3, <2>1 DEF PresenceRecorded, FlightFrame
  <2>2. CASE ~stopped
    <3>1. main # "down"
      BY <1>3 DEF PresenceRecorded, FreshInv
    <3>2. Owned
      BY <2>2, <3>1 DEF OwnerInv, Owned
    <3>3. state' = RelayFine /\ last' = "ok" /\ state.host = "online"
      BY <1>3, <2>2, <3>2 DEF PresenceRecorded, HalfInv
    <3>4. state'.host = "online" /\ ~state'.rel
      BY <3>3, Transitions
    <3> QED BY <3>3, <3>4
  <2> QED BY <2>1, <2>2
<1>4. CASE FailureRecorded
  <2>1. Owned /\ state.host # "online"
    BY <1>4 DEF FailureRecorded, HalfInv
  <2>2. state' = RelayFailed /\ last' = "failed"
    BY <1>4, <2>1 DEF FailureRecorded
  <2>3. state'.host # "online" /\ state'.rel
    BY <2>1, <2>2, Transitions
  <2> QED BY <2>2, <2>3
<1>5. CASE ~Recordings /\ Goes
  <2>1. state'.host = state.host /\ state'.rel = state.rel
    BY <1>5, StateWrites
  <2>2. stopped => stopped'
    BY <1>5, OnlyStopGivesUp DEF Stop
  <2>3. /\ UNCHANGED last
        /\ flight' \in {flight, "none"} \/ (flight = "none" /\ flight' = "enroll")
        /\ flight' # flight /\ flight # "none" => stopped /\ stopped'
    BY <1>5, FlightWrites
  <2> QED BY <2>1, <2>2, <2>3 DEF HealthTellsTheTruth
<1>6. CASE Construct \/ StartupFails \/ ServeFails \/ StopAndExit \/ Exit
  BY <1>6, Renewals DEF Blank
<1>7. CASE Validate \/ Serve
  BY <1>7 DEF Validate, Serve, FreshInv
<1>8. CASE OtherTakes \/ OtherReleases \/ ResetBegins \/ ResetEnds
  BY <1>8 DEF OtherTakes, OtherReleases, ResetBegins, ResetEnds, Elsewhere, control,
     HealthTellsTheTruth
<1> QED BY <1>2, <1>3, <1>4, <1>5, <1>6, <1>7, <1>8 DEF Next, Await, Startup, Goes, Recordings

-----------------------------------------------------------------------------
(* Timers and handles *)

Settled == beat' = FALSE /\ timer' = IF beat THEN [timer EXCEPT !.beat = ~stopped] ELSE timer

\* Only the heartbeat, the end of a registration and stop touch the heartbeat's link.
LEMMA BeatWrites ==
    ASSUME TypeOK, Goes
    PROVE  \/ timer'.beat = timer.beat /\ beat' = beat
           \/ Heartbeat
           \/ Settled /\ UNCHANGED <<stopped, server>>
           \/ \E r \in BOOLEAN : Stop(r) /\ UNCHANGED beat
<1>t. timer \in Timers
  BY DEF TypeOK
<1>a. Arm => timer'.beat = timer.beat
  BY <1>t DEF Arm, Timers
<1>f. [timer EXCEPT !.rec = FALSE].beat = timer.beat
  BY <1>t DEF Timers
<1>1. CASE Flight \/ FailureRecorded
  BY <1>1 DEF Flight, EnrollAccepted, PresenceRecorded, EnrollFailed, EnrollStopped, FailureRecorded,
     FlightFrame, Settle, Settled
<1>2. CASE Reconcile
  BY <1>2, <1>f DEF Reconcile
<1>3. CASE Poll \/ RecoveryEnds \/ BeginPass
  BY <1>3 DEF Poll, RecoveryEnds, BeginPass, control
<1>4. CASE Change \/ \E h \in Handles : QueueHandle(h)
  BY <1>4, <1>a DEF Change, QueueHandle
<1>5. CASE StopAndWait \/ GuardStops
  BY <1>5 DEF StopAndWait, GuardStops
<1>6. CASE LoopEnds \/ Receipts \/ Events \/ PassThrows \/ AccessRefused \/ Commands
           \/ DriverListed \/ DriverRecorded \/ DriverFails
  BY <1>6 DEF LoopEnds, Receipts, Events, PassThrows, AccessRefused, Commands, DriverListed,
     DriverRecorded, DriverFails, PassFrame
<1>7. CASE Publication
  BY <1>7, <1>a, <1>f DEF Publication, PublishNothing, PublishAnswered, PublishFault, PublishFailed,
     Recovered, RecoveryFailed, PublishFrame, PassFrame
<1>8. CASE Handling
  BY <1>8 DEF Handling, PeekHandles, SendHandle, HandleDelivered, HandleFailed, HandleFrame, PassFrame
<1> QED BY <1>1, <1>2, <1>3, <1>4, <1>5, <1>6, <1>7, <1>8 DEF Goes, Pass

BeatInv == server => timer.beat # beat

\* While the daemon serves, the heartbeat has one link.
LEMMA BeatStep ==
    ASSUME TypeOK, FreshInv, OwnerInv, BeatInv, Next
    PROVE  BeatInv'
<1>t. timer \in Timers /\ beat \in BOOLEAN /\ timer.beat \in BOOLEAN /\ stopped \in BOOLEAN
  BY DEF TypeOK, Timers
<1>1. CASE Goes
  <2>0. server' => server
    BY <1>1, OnlyStopGivesUp DEF Stop
  <2>1. CASE timer'.beat = timer.beat /\ beat' = beat
    BY <2>0, <2>1 DEF BeatInv
  <2>2. CASE Heartbeat
    <3>1. timer'.beat = FALSE /\ beat' = TRUE
      BY <1>t, <2>2 DEF Heartbeat, Timers
    <3> QED BY <3>1 DEF BeatInv
  <2>3. CASE Settled /\ UNCHANGED <<stopped, server>>
    <3>1. ASSUME server' PROVE timer'.beat # beat'
      <4>1. server /\ ~stopped /\ timer.beat # beat
        BY <2>3, <3>1 DEF OwnerInv, BeatInv
      <4>2. beat' = FALSE
        BY <2>3 DEF Settled
      <4>3. CASE beat
        <5>1. timer' = [timer EXCEPT !.beat = ~stopped]
          BY <2>3, <4>3 DEF Settled
        <5>2. timer'.beat = ~stopped
          BY <1>t, <5>1 DEF Timers
        <5> QED BY <4>1, <4>2, <5>2
      <4>4. CASE ~beat
        BY <2>3, <4>1, <4>2, <4>4, <1>t DEF Settled
      <4> QED BY <4>3, <4>4
    <3> QED BY <3>1 DEF BeatInv
  <2>4. ASSUME NEW r \in BOOLEAN, Stop(r), UNCHANGED beat PROVE BeatInv'
    <3>1. ~server'
      BY <2>4 DEF Stop, OwnerInv
    <3> QED BY <3>1 DEF BeatInv
  <2> QED BY <1>1, <2>1, <2>2, <2>3, <2>4, BeatWrites
<1>2. CASE Construct \/ StartupFails \/ ServeFails \/ StopAndExit \/ Exit
  BY <1>2, Renewals DEF Blank, BeatInv
<1>3. CASE Validate
  BY <1>3 DEF Validate, BeatInv
<1>4. CASE Serve
  <2>1. beat = FALSE /\ beat' = beat
    BY <1>4, <1>t DEF Serve, FreshInv
  <2>2. timer'.beat = TRUE
    BY <1>4, <1>t DEF Serve, Timers
  <2> QED BY <2>1, <2>2 DEF BeatInv
<1>5. CASE OtherTakes \/ OtherReleases \/ ResetBegins \/ ResetEnds
  BY <1>5 DEF OtherTakes, OtherReleases, ResetBegins, ResetEnds, Elsewhere, control, BeatInv
<1> QED BY <1>1, <1>2, <1>3, <1>4, <1>5 DEF Next, Await, Startup, Goes, Flight

\* A handle that a producer was told is accepted is not lost.
LEMMA HandlesStep ==
    ASSUME TypeOK, HandlesAreKept, Next
    PROVE  HandlesAreKept'
<1>b. MaxCursor \in Nat
  BY BoundsAssumption DEF BoundsAssumption
<1>t. /\ relay \in [Sessions -> 0..MaxCursor] /\ asked \in [Sessions -> 0..MaxCursor]
      /\ state \in States /\ state.pending \in [Sessions -> 0..MaxCursor]
  BY DEF TypeOK, States
<1>k. ASSUME state'.pending = state.pending, relay' = relay, asked' = asked
      PROVE  HandlesAreKept'
  BY <1>k DEF HandlesAreKept
<1>p. /\ RelayFine.pending = state.pending /\ RelayFailed.pending = state.pending
      /\ DriverFine.pending = state.pending /\ DriverFailed.pending = state.pending
      /\ \A h : [state EXCEPT !.host = h].pending = state.pending
      /\ \A n : [state EXCEPT !.stored = n].pending = state.pending
  BY <1>t DEF States, RelayFine, RelayFailed, DriverFine, DriverFailed, Recorded
<1>h. \A h \in Handles : h[1] \in Sessions /\ h[2] \in 1..MaxCursor
  BY DEF Handles
<1>1. ASSUME NEW h \in Handles, QueueHandle(h) PROVE HandlesAreKept'
  <2>1. /\ state'.pending = [state.pending EXCEPT ![h[1]] = h[2]]
        /\ asked' = [asked EXCEPT ![h[1]] = Max2(@, h[2])]
        /\ relay' = relay
        /\ h[2] >= state.pending[h[1]]
    BY <1>t, <1>1 DEF QueueHandle, States
  <2>2. ASSUME NEW s \in Sessions
        PROVE  state'.pending[s] >= asked'[s] \/ relay'[s] >= asked'[s]
    <3>1. /\ state.pending[s] >= asked[s] \/ relay[s] >= asked[s]
          /\ state.pending[s] \in 0..MaxCursor /\ asked[s] \in 0..MaxCursor
          /\ relay[s] \in 0..MaxCursor /\ h[2] \in 1..MaxCursor
      BY <1>t, <1>h, <2>2 DEF HandlesAreKept
    <3>2. CASE s = h[1]
      <4>1. state'.pending[s] = h[2] /\ asked'[s] = Max2(asked[s], h[2]) /\ h[2] >= state.pending[s]
        BY <1>t, <2>1, <3>2
      <4> QED BY <1>b, <2>1, <3>1, <4>1 DEF Max2
    <3>3. CASE s # h[1]
      <4>1. state'.pending[s] = state.pending[s] /\ asked'[s] = asked[s]
        BY <1>t, <2>1, <3>3
      <4> QED BY <2>1, <3>1, <4>1
    <3> QED BY <3>2, <3>3
  <2> QED BY <2>2 DEF HandlesAreKept
<1>2. CASE SendHandle
  <2>1. PICK h \in pass.batch :
           relay' = [relay EXCEPT ![h[1]] = Max2(@, h[2])] \/ relay' = relay
    BY <1>2 DEF SendHandle
  <2>2. h \in Handles
    BY HandleTypes
  <2>3. \A s \in Sessions : relay'[s] >= relay[s] /\ relay'[s] \in Nat
    BY <1>b, <1>t, <1>h, <2>1, <2>2 DEF Max2
  <2>4. ASSUME NEW s \in Sessions
        PROVE  state'.pending[s] >= asked'[s] \/ relay'[s] >= asked'[s]
    <3>1. state.pending[s] >= asked[s] \/ relay[s] >= asked[s]
      BY <2>4 DEF HandlesAreKept
    <3>2. state' = state /\ asked' = asked
      BY <1>2 DEF SendHandle
    <3>3. relay[s] \in Nat /\ asked[s] \in Nat
      BY <1>b, <1>t, <2>4
    <3> QED BY <2>3, <2>4, <3>1, <3>2, <3>3
  <2> QED BY <2>4 DEF HandlesAreKept
<1>3. CASE HandleDelivered
  <2>1. PICK h \in Handles : h = pass.call
    BY <1>3, HandleTypes DEF HandleDelivered
  <2>2. /\ state'.pending = [state.pending EXCEPT ![h[1]] = IF @ = h[2] THEN 0 ELSE @]
        /\ relay[h[1]] >= h[2] /\ UNCHANGED <<relay, asked>>
    BY <1>t, <1>3, <2>1 DEF HandleDelivered, Without, States, PassFrame
  <2>3. ASSUME NEW s \in Sessions
        PROVE  state'.pending[s] >= asked'[s] \/ relay'[s] >= asked'[s]
    <3>1. /\ state.pending[s] >= asked[s] \/ relay[s] >= asked[s]
          /\ state.pending[s] \in 0..MaxCursor /\ asked[s] \in 0..MaxCursor
          /\ relay[s] \in 0..MaxCursor /\ h[2] \in 1..MaxCursor
      BY <1>t, <1>h, <2>3 DEF HandlesAreKept
    <3>2. CASE s = h[1] /\ state.pending[s] = h[2]
      BY <1>b, <2>2, <3>1, <3>2
    <3>3. CASE ~(s = h[1] /\ state.pending[s] = h[2])
      <4>1. state'.pending[s] = state.pending[s]
        BY <1>t, <2>2, <3>3
      <4> QED BY <2>2, <3>1, <4>1
    <3> QED BY <3>2, <3>3
  <2> QED BY <2>3 DEF HandlesAreKept
<1>4. CASE Recordings
  <2>1. relay' = relay /\ asked' = asked
    BY <1>4 DEF Recordings, EnrollAccepted, EnrollFailed, PresenceRecorded, FailureRecorded, FlightFrame
  <2>2. state'.pending = state.pending
    <3>1. CASE EnrollAccepted
      BY <1>p, <3>1 DEF EnrollAccepted
    <3>2. CASE EnrollFailed
      BY <1>p, <3>2 DEF EnrollFailed
    <3>3. CASE PresenceRecorded \/ FailureRecorded
      BY <1>p, <3>3 DEF PresenceRecorded, FailureRecorded
    <3> QED BY <1>4, <3>1, <3>2, <3>3 DEF Recordings
  <2> QED BY <1>k, <2>1, <2>2
<1>5. CASE DriverListed \/ DriverRecorded \/ DriverFails
  BY <1>5, <1>k, <1>p DEF DriverListed, DriverRecorded, DriverFails, PassFrame
<1>6. CASE Startup \/ StopAndExit \/ StopAndWait \/ Exit
  BY <1>6, <1>k DEF Startup, Construct, Validate, StartupFails, Serve, ServeFails, StopAndExit,
     StopAndWait, Exit
<1>7. CASE Reconcile \/ Poll \/ Heartbeat \/ Change \/ RecoveryEnds
           \/ OtherTakes \/ OtherReleases \/ ResetBegins \/ ResetEnds \/ EnrollStopped
  BY <1>7, <1>k DEF Reconcile, Poll, Heartbeat, Change, RecoveryEnds, OtherTakes, OtherReleases,
     ResetBegins, ResetEnds, Elsewhere, EnrollStopped, FlightFrame
<1>8. CASE BeginPass \/ GuardStops \/ LoopEnds \/ Receipts \/ Events \/ PassThrows
            \/ AccessRefused \/ Commands
  BY <1>8, <1>k DEF BeginPass, GuardStops, LoopEnds, Receipts, Events, PassThrows, AccessRefused,
     Commands, PassFrame
<1>9. CASE Publication
  BY <1>9, <1>k DEF Publication, PublishNothing, PublishAnswered, PublishFault, PublishFailed,
     Recovered, RecoveryFailed, PublishFrame, PassFrame
<1>10. CASE PeekHandles \/ HandleFailed
  BY <1>10, <1>k DEF PeekHandles, HandleFailed, PassFrame
<1> QED BY <1>1, <1>2, <1>3, <1>4, <1>5, <1>6, <1>7, <1>8, <1>9, <1>10
        DEF Next, Await, Pass, Flight, Handling, Recordings
-----------------------------------------------------------------------------
(* Changes of the registry *)

LateSteps == {"listed", "publish", "recover", "events", "handles", "commands", "wait"}

Trace == timer.rec \/ requested \/ stopped \/ pass.cut

\* A change that no pass has listed leaves a trace.
LEMMA TraceStep ==
    ASSUME TypeOK, FreshInv, OwnerInv, TraceInv, Next
    PROVE  TraceInv'
<1> USE DEF To
<1>t. timer \in Timers /\ pass \in Passes /\ registry \in Registries /\ stopped \in BOOLEAN
  BY DEF TypeOK
<1>k. ASSUME main' = main \/ (main' # "wait" /\ (main' \in LateSteps => main \in LateSteps)),
             UNCHANGED <<registry, requested, stopped>>,
             Trace => Trace'
      PROVE  TraceInv'
  BY <1>k DEF TraceInv, Trace, LateSteps
<1>c. \A b \in BOOLEAN : [NewPass EXCEPT !.cut = b].cut = b
  BY DEF NewPass
<1>e. ASSUME NEW cut \in BOOLEAN, EndPass(cut), UNCHANGED <<registry, requested, stopped>>,
             timer.rec => timer'.rec,
             cut \/ (main \in LateSteps /\ cut = pass.cut)
      PROVE  TraceInv'
  <2>1. pass'.cut = cut
    BY <1>e, <1>c DEF EndPass
  <2>2. main' \in {"ended", "loop", "wait"} /\ (main' = "wait" => ~requested /\ ~stopped)
    BY <1>e DEF EndPass, AfterPass
  <2> QED BY <1>e, <2>1, <2>2 DEF TraceInv, LateSteps
<1>a. Arm => timer'.rec = (timer.rec \/ ~stopped)
  BY <1>t DEF Arm, Timers
<1>p. pass.cut \in BOOLEAN /\ pass.offline \in BOOLEAN
  BY <1>t DEF Passes
<1>1. CASE Construct \/ StartupFails \/ ServeFails \/ StopAndExit \/ Exit
  BY <1>1, Renewals DEF TraceInv
<1>2. CASE Validate \/ Serve
  BY <1>2 DEF Validate, Serve, TraceInv
<1>3. CASE Flight \/ FailureRecorded
  <2>1. /\ main' = main \/ main' \in {"receipts", "drivers"}
        /\ UNCHANGED <<registry, requested, stopped>>
        /\ \/ UNCHANGED <<pass, timer>>
           \/ \E ok \in BOOLEAN : Settle(ok)
    BY <1>3 DEF Flight, EnrollAccepted, PresenceRecorded, EnrollFailed, EnrollStopped,
       FailureRecorded, FlightFrame, Settle, Owned
  <2>2. ASSUME NEW ok \in BOOLEAN, Settle(ok) PROVE pass'.cut = pass.cut /\ timer'.rec = timer.rec
    <3>1. \A b : [pass EXCEPT !.offline = b].cut = pass.cut
      BY <1>t DEF Passes
    <3>2. \A b : [timer EXCEPT !.beat = b].rec = timer.rec
      BY <1>t DEF Timers
    <3> QED BY <2>2, <3>1, <3>2 DEF Settle
  <2>3. Trace => Trace'
    BY <2>1, <2>2 DEF Trace
  <2> QED BY <1>k, <2>1, <2>3 DEF LateSteps
<1>4. CASE Reconcile
  <2>1. requested' /\ main' # "wait"
    BY <1>4 DEF Reconcile, Woken
  <2> QED BY <2>1 DEF TraceInv
<1>5. CASE Poll \/ LoopEnds \/ Receipts \/ BeginPass
  BY <1>5 DEF Poll, LoopEnds, Receipts, BeginPass, TraceInv
<1>6. CASE Heartbeat \/ RecoveryEnds
  <2>1. timer'.rec = timer.rec
    BY <1>6, <1>t DEF Heartbeat, RecoveryEnds, control, Timers
  <2>2. UNCHANGED <<main, stopped, requested, pass>>
        /\ registry'.seen = registry.seen /\ registry'.live = registry.live
    <3>1. [registry EXCEPT !.recovering = FALSE].seen = registry.seen
          /\ [registry EXCEPT !.recovering = FALSE].live = registry.live
      BY <1>t DEF Registries
    <3> QED BY <1>6, <3>1 DEF Heartbeat, RecoveryEnds, control
  <2> QED BY <2>1, <2>2 DEF TraceInv
<1>7. CASE Change \/ \E h \in Handles : QueueHandle(h)
  <2>1. timer'.rec \/ stopped
    BY <1>7, <1>a DEF Change, QueueHandle
  <2>2. UNCHANGED <<main, stopped, requested>>
    BY <1>7 DEF Change, QueueHandle
  <2> QED BY <2>1, <2>2 DEF TraceInv
<1>8. CASE StopAndWait \/ GuardStops
  <2>1. stopped' /\ main' # "wait"
    BY <1>8 DEF StopAndWait, GuardStops, Stop
  <2> QED BY <2>1 DEF TraceInv
<1>9. CASE PassThrows \/ AccessRefused
  BY <1>9, <1>e DEF PassThrows, AccessRefused, PassFrame
<1>10. CASE Commands
  BY <1>10, <1>e, <1>p DEF Commands, PassFrame, LateSteps
<1>11. CASE DriverListed \/ DriverFails
  <2>1. registry'.seen = registry'.live /\ main' # "wait"
    <3>1. [registry EXCEPT !.seen = registry.live].seen = registry.live
          /\ [registry EXCEPT !.seen = registry.live].live = registry.live
      BY <1>t DEF Registries
    <3> QED BY <1>11, <3>1 DEF DriverListed, DriverFails
  <2> QED BY <2>1 DEF TraceInv
<1>12. CASE DriverRecorded \/ Events
  <2>1. Trace => Trace'
    BY <1>12 DEF DriverRecorded, Events, PassFrame, Trace
  <2> QED BY <1>12, <1>k, <2>1 DEF DriverRecorded, Events, PassFrame, LateSteps
<1>13. CASE Publication
  <2>f. UNCHANGED <<registry, requested, stopped>> /\ main \in LateSteps
    BY <1>13 DEF Publication, PublishNothing, PublishAnswered, PublishFault, PublishFailed, Recovered,
       RecoveryFailed, Publishes, PublishFrame, PassFrame, LateSteps
  <2>c. ASSUME NEW offline \in BOOLEAN, NEW drain \in BOOLEAN, Continue(offline, drain),
               timer.rec => timer'.rec
        PROVE  TraceInv'
    <3>1. CASE offline
      BY <1>e, <1>p, <2>f, <2>c, <3>1 DEF Continue
    <3>2. CASE ~offline
      <4>1. main' \in {"events", "handles"} /\ pass' = pass
        BY <2>c, <3>2 DEF Continue
      <4>2. Trace => Trace'
        BY <2>c, <2>f, <4>1 DEF Trace
      <4> QED BY <1>k, <2>f, <4>1, <4>2 DEF LateSteps
    <3> QED BY <3>1, <3>2
  <2>1. CASE PublishNothing
    BY <1>p, <2>1, <2>c DEF PublishNothing
  <2>2. CASE PublishAnswered
    <3>1. \E drain \in BOOLEAN : Continue(FALSE, drain)
      BY <2>2 DEF PublishAnswered
    <3>2. timer' = timer
      BY <2>2 DEF PublishAnswered
    <3> QED BY <3>1, <3>2, <2>c
  <2>3. CASE PublishFault
    BY <1>a, <2>3, <2>c DEF PublishFault
  <2>4. CASE PublishFailed
    <3>1. timer.rec => timer'.rec
      BY <1>a, <2>4 DEF PublishFailed
    <3>2. Continue(TRUE, FALSE) \/ (main' = "recover" /\ pass' = pass)
      BY <2>4 DEF PublishFailed
    <3>3. CASE main' = "recover" /\ pass' = pass
      <4>1. Trace => Trace'
        BY <2>f, <3>1, <3>3 DEF Trace
      <4> QED BY <1>k, <2>f, <3>3, <4>1 DEF LateSteps
    <3> QED BY <2>c, <3>1, <3>2, <3>3
  <2>5. CASE Recovered
    <3>1. CASE \E drain \in BOOLEAN : Continue(FALSE, drain) /\ UNCHANGED timer
      BY <2>c, <3>1
    <3>2. CASE pass' = [pass EXCEPT !.cut = TRUE] /\ main' = "handles"
      <4>1. pass'.cut
        BY <1>t, <3>2 DEF Passes
      <4> QED BY <3>2, <4>1 DEF TraceInv
    <3> QED BY <2>5, <3>1, <3>2 DEF Recovered
  <2>6. CASE RecoveryFailed
    BY <1>a, <2>6, <2>c DEF RecoveryFailed
  <2> QED BY <1>13, <2>1, <2>2, <2>3, <2>4, <2>5, <2>6 DEF Publication
<1>14. CASE Handling
  <2>1. UNCHANGED <<registry, requested, stopped, timer>> /\ main = "handles"
        /\ main' \in {"handles", "commands"}
    BY <1>14 DEF Handling, PeekHandles, SendHandle, HandleDelivered, HandleFailed, HandleFrame, PassFrame
  <2>2. pass'.cut = pass.cut
    <3>1. /\ \A b : [pass EXCEPT !.batch = b].cut = pass.cut
          /\ \A b, c : [pass EXCEPT !.batch = b, !.call = c].cut = pass.cut
          /\ [pass EXCEPT !.call = None].cut = pass.cut
          /\ [pass EXCEPT !.call = None, !.batch = {}].cut = pass.cut
      BY <1>t DEF Passes
    <3>2. CASE SendHandle
      <4>1. PICK h \in pass.batch : pass' = [pass EXCEPT !.batch = pass.batch \ {h}, !.call = h]
        BY <3>2 DEF SendHandle
      <4> QED BY <1>t, <4>1 DEF Passes
    <3>3. CASE PeekHandles \/ HandleDelivered \/ HandleFailed
      BY <3>1, <3>3 DEF PeekHandles, HandleDelivered, HandleFailed
    <3> QED BY <1>14, <3>2, <3>3 DEF Handling
  <2>3. Trace => Trace'
    BY <2>1, <2>2 DEF Trace
  <2> QED BY <1>k, <2>1, <2>3 DEF LateSteps
<1>15. CASE OtherTakes \/ OtherReleases \/ ResetBegins \/ ResetEnds
  BY <1>15 DEF OtherTakes, OtherReleases, ResetBegins, ResetEnds, Elsewhere, control, TraceInv
<1> QED BY <1>1, <1>2, <1>3, <1>4, <1>5, <1>6, <1>7, <1>8, <1>9, <1>10, <1>11, <1>12, <1>13,
       <1>14, <1>15 DEF Next, Await, Startup, Pass
-----------------------------------------------------------------------------
(* Theorems *)

\* The inductive invariant holds at first.
LEMMA InitLoopInv == ASSUME Init PROVE LoopInv
<1>b. MaxChanges \in Nat /\ MaxCursor \in Nat /\ MaxMishaps \in Nat
  BY BoundsAssumption DEF BoundsAssumption
<1>1. TypeOK
  <2>1. main \in Steps /\ pass \in Passes /\ timer \in Timers
    BY DEF Init, Steps, Passes, NewPass, Timers
  <2>2. registry \in Registries /\ state \in States
    BY <1>b DEF Init, Registries, States, Hosts
  <2>3. relay \in [Sessions -> 0..MaxCursor] /\ asked \in [Sessions -> 0..MaxCursor]
    BY <1>b DEF Init
  <2>4. /\ lock \in {"free", "daemon", "stale", "other"}
        /\ {stopped, disposed, server, requested, beat, resetting} \subseteq BOOLEAN
        /\ flight \in {"none", "enroll", "accepted", "failed"} /\ last \in {"none", "ok", "failed"}
    BY DEF Init
  <2>5. failures \in Nat /\ changes \in 0..MaxChanges /\ mishaps \in 0..MaxMishaps
    BY <1>b DEF Init
  <2> QED BY <2>1, <2>2, <2>3, <2>4, <2>5 DEF TypeOK
<1>2. FreshInv /\ OwnerInv /\ HalfInv /\ TraceInv
  <2>1. ~timer.rec /\ ~timer.beat /\ registry.seen = registry.live
    BY DEF Init
  <2> QED BY <2>1 DEF Init, FreshInv, OwnerInv, HalfInv, TraceInv
<1>3. WorkIsKept
  <2>1. TimersAreKept
    BY DEF Init, TimersAreKept
  <2>2. \A s \in Sessions : relay[s] = 0 /\ asked[s] = 0
    BY DEF Init
  <2>3. HandlesAreKept
    <3>1. 0 >= 0
      OBVIOUS
    <3>2. \A s \in Sessions : relay[s] >= asked[s]
      BY <2>2, <3>1, Zenon
    <3> QED BY <3>2, Zenon DEF HandlesAreKept
  <2> QED BY <2>1, <2>3 DEF WorkIsKept
<1>4. HealthTellsTheTruth
  BY DEF Init, HealthTellsTheTruth
<1> QED BY <1>1, <1>2, <1>3, <1>4 DEF LoopInv

\* Every step keeps it: the second half of TimersAreKept is BeatStep, and its first
\* follows from the trace, for a daemon that waits has no request and is not stopped.
LEMMA LoopStep == ASSUME LoopInv, [Next]_vars PROVE LoopInv'
<1>1. CASE Next
  <2>1. TypeOK' /\ FreshInv' /\ OwnerInv' /\ HalfInv' /\ TraceInv'
    BY <1>1, TypeStep, ProcessStep, HalfStep, TraceStep DEF LoopInv
  <2>2. HealthTellsTheTruth'
    BY <1>1, HealthStep DEF LoopInv
  <2>3. HandlesAreKept'
    BY <1>1, HandlesStep DEF LoopInv, WorkIsKept
  <2>4. BeatInv'
    BY <1>1, BeatStep DEF LoopInv, WorkIsKept, TimersAreKept, BeatInv
  <2>5. TimersAreKept'
    BY <2>1, <2>4 DEF TraceInv, TimersAreKept, BeatInv
  <2> QED BY <2>1, <2>2, <2>3, <2>5 DEF LoopInv, WorkIsKept
<1>2. CASE UNCHANGED vars
  <2>1. TypeOK'
    BY <1>2 DEF LoopInv, TypeOK, vars, control
  <2>2. FreshInv' /\ OwnerInv' /\ HalfInv' /\ TraceInv'
    BY <1>2 DEF LoopInv, FreshInv, OwnerInv, HalfInv, TraceInv, Owned, vars, control
  <2>3. WorkIsKept' /\ HealthTellsTheTruth'
    BY <1>2 DEF LoopInv, WorkIsKept, TimersAreKept, HandlesAreKept, HealthTellsTheTruth, vars, control
  <2> QED BY <2>1, <2>2, <2>3 DEF LoopInv
<1> QED BY <1>1, <1>2

\* The invariants of the daemon hold together, for any sessions and bounds.
THEOREM LoopInvariance == Spec => []LoopInv
<1>1. Init => LoopInv
  BY InitLoopInv
<1>2. LoopInv /\ [Next]_vars => LoopInv'
  BY LoopStep
<1> QED BY <1>1, <1>2, PTL DEF Spec

\* Every variable keeps its shape.
THEOREM LoopTypeCorrect == Spec => []TypeOK
<1>1. LoopInv => TypeOK
  BY DEF LoopInv
<1> QED BY <1>1, LoopInvariance, PTL

\* The daemon comes back to what it owes: an unlisted change has its timer, the
\* heartbeat one link, and an accepted handle is pending until the Relay has it.
THEOREM DaemonKeepsItsWork == Spec => []WorkIsKept
<1>1. LoopInv => WorkIsKept
  BY DEF LoopInv
<1> QED BY <1>1, LoopInvariance, PTL

\* The recorded health is that of its parts, and Host and presence record agree with
\* the way the last registration ended.
THEOREM HealthIsTrue == Spec => []HealthTellsTheTruth
<1>1. LoopInv => HealthTellsTheTruth
  BY DEF LoopInv
<1> QED BY <1>1, LoopInvariance, PTL

\* A step that changes the state is taken by the process that has the lock.
LEMMA OwnedStep ==
    ASSUME Next, state' # state
    PROVE  lock = "daemon" /\ ~disposed
<1>1. SUFFICES Owned
  BY DEF Owned
<1>2. CASE Flight \/ FailureRecorded
  BY <1>2 DEF Flight, EnrollAccepted, PresenceRecorded, EnrollFailed, EnrollStopped, FailureRecorded
<1>3. CASE \E h \in Handles : QueueHandle(h)
  BY <1>3 DEF QueueHandle
<1>4. CASE DriverListed \/ DriverRecorded \/ DriverFails \/ Handling
  BY <1>4 DEF DriverListed, DriverRecorded, DriverFails, Handling, PeekHandles, SendHandle,
     HandleDelivered, HandleFailed
<1>5. CASE Startup \/ StopAndExit \/ StopAndWait \/ Exit
  BY <1>5 DEF Startup, Construct, Validate, StartupFails, Serve, ServeFails, StopAndExit,
     StopAndWait, Exit
<1>6. CASE Reconcile \/ Poll \/ Heartbeat \/ Change \/ RecoveryEnds
           \/ OtherTakes \/ OtherReleases \/ ResetBegins \/ ResetEnds
  BY <1>6 DEF Reconcile, Poll, Heartbeat, Change, RecoveryEnds, OtherTakes, OtherReleases,
     ResetBegins, ResetEnds, Elsewhere
<1>7. CASE BeginPass \/ GuardStops \/ LoopEnds \/ Receipts \/ Events \/ PassThrows
           \/ AccessRefused \/ Commands
  BY <1>7 DEF BeginPass, GuardStops, LoopEnds, Receipts, Events, PassThrows, AccessRefused, Commands
<1>8. CASE Publication
  BY <1>8 DEF Publication, PublishNothing, PublishAnswered, PublishFault, PublishFailed, Recovered,
     RecoveryFailed, PublishFrame
<1> QED BY <1>2, <1>3, <1>4, <1>5, <1>6, <1>7, <1>8 DEF Next, Await, Pass

\* Whatever is still in flight when the daemon is stopped, only the owner of the
\* runtime lock writes the state.
THEOREM DaemonWritesAreOwned == Spec => WritesAreOwned
<1>1. [Next]_vars => [state' # state => lock = "daemon" /\ ~disposed]_vars
  BY OwnedStep DEF vars
<1> QED BY <1>1, PTL DEF Spec, WritesAreOwned
===============================================================================
