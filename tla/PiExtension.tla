----------------------------- MODULE PiExtension -----------------------------
(***************************************************************************)
(* The Pi extension: the reducer that turns the events of one Pi session   *)
(* into at most one terminal Event per run (index.ts), and the client that *)
(* keeps the session registered with the Bridge (adapter.ts, heartbeat.ts).*)
(* Pi's events, timers, answers of requests under way and the client's     *)
(* queue of session mutations interleave; requests and answers are lost    *)
(* and the Bridge forgets the session.  Pi and the Bridge are external to  *)
(* the extension.  Identifiers of objects (an alert, a candidate) are the  *)
(* run and the Event they are about.                                       *)
(***************************************************************************)
EXTENDS Naturals, Sequences

CONSTANTS
    None,
    Leaves,        \* leaves of the session tree
    Outcomes,      \* how runs end
    MaxRuns,       \* low-level runs
    MaxEvents      \* session starts, inputs, branch switches, busy moments and faults

\* "answer" stands for every text that is classified as done, question or
\* blocked, and the status "terminal" below for the one that goes with it.
ASSUME PiBounds ==
    /\ Leaves # {} /\ MaxRuns \in Nat /\ MaxEvents \in Nat
    /\ Outcomes \subseteq {"absent", "aborted", "error", "answer"}

\* How a run ended, a terminal Event that is not delivered yet, one that the next
\* input will acknowledge, and PiReducerState.
Results == [outcome : Outcomes, gen : Nat]
Alerts == [run : Nat, gen : Nat, flow : Nat, outcome : Outcomes, print : (Leaves \X Outcomes) \cup {None}]
Candidates == [event : Nat, observed : Nat, reported : BOOLEAN]
States ==
    [flow : Nat, running : BOOLEAN, emitted : BOOLEAN, seq : Nat, cur : Nat, settled : Nat,
     result : Results \cup {None}, alert : Alerts \cup {None}, sending : BOOLEAN,
     timer : Nat \cup {None}, cand : Candidates \cup {None}, cursor : Nat, leaf : Leaves]

ASSUME NoneAssumption ==
    None \notin Nat \cup {"error", "answer"} \cup Results \cup Alerts \cup Candidates \cup States

VARIABLES
    pi,          \* Pi: [phase, outcome of the run, unless something came since]
    ext,         \* PiReducerState, or None
    token,       \* deliverySequence
    status,      \* heartbeatContext.status
    prints,      \* emittedFingerprints
    pushes,      \* pushEvent calls under way
    client,      \* [lease, queue, reg, gen]
    bridge,      \* [lease, issued, order, events, handled, lost, sure]
    n            \* counters: [runs, inputs, events]

vars == <<pi, ext, token, status, prints, pushes, client, bridge, n>>


\* A generation of 0 is an undefined one.
Fresh(leaf) ==
    [flow |-> 0, running |-> FALSE, emitted |-> FALSE, seq |-> 0, cur |-> 0, settled |-> 0,
     result |-> None, alert |-> None, sending |-> FALSE, timer |-> None, cand |-> None,
     cursor |-> 0, leaf |-> leaf]

\* One more of the disturbances that MaxEvents bounds.
Counts == n.events < MaxEvents
Counted(c) == [c EXCEPT !.events = @ + 1]

\* The queue of one session's mutations.
Enqueue(c, item) == [c EXCEPT !.queue = Append(@, item)]
HandleItem(e) == [op |-> "handle", arg |-> e]
RegisterItem(g) == [op |-> "register", arg |-> g]
UnregisterItem == [op |-> "unregister", arg |-> 0]
HeartbeatItem == [op |-> "heartbeat", arg |-> 0]

-----------------------------------------------------------------------------
(* The reducer's helpers.                                                  *)

invalidatePendingTerminal(x) ==
    [x EXCEPT !.timer = None, !.alert = None, !.sending = FALSE]

\* The timer remembers the flow revision it was set at.
schedulePendingTerminal(x) == [x EXCEPT !.timer = x.flow]

beginNewLowLevelRun(x) ==
    [invalidatePendingTerminal(x) EXCEPT
        !.result = None, !.emitted = FALSE, !.flow = @ + 1, !.seq = @ + 1,
        !.cur = x.seq + 1, !.settled = 0, !.running = TRUE]

clearBranchSensitiveState(x) ==
    [invalidatePendingTerminal(x) EXCEPT
        !.result = None, !.emitted = FALSE, !.cand = None, !.flow = @ + 1,
        !.running = FALSE, !.cur = 0, !.settled = 0]

registerSessionInBackground(c) ==
    Enqueue([c EXCEPT !.gen = @ + 1, !.reg = "queued"], RegisterItem(c.gen + 1))

\* Pi is busy although it has not announced a run.
runtimeHasNewWork == pi.phase = "starting"

-----------------------------------------------------------------------------
(* Pi's events, each with its handler.                                     *)

SessionStart ==
    /\ pi.phase \in {"none", "idle"} /\ Counts
    /\ ext' = Fresh(CHOOSE leaf \in Leaves : TRUE)
    /\ pi' = [phase |-> "idle", outcome |-> None]
    /\ token' = token + 1
    /\ status' = "idle"
    /\ client' = registerSessionInBackground(client)
    /\ n' = Counted(n)
    /\ UNCHANGED <<prints, pushes, bridge>>

\* Mutant: the session is unregistered without waiting for its turn.
UnregisterFirst(c) == [c EXCEPT !.queue = <<UnregisterItem>> \o @]
UnregisterLast(c) == Enqueue(c, UnregisterItem)

SessionShutdown ==
    /\ pi.phase # "none"
    /\ pi' = [phase |-> "none", outcome |-> None]
    /\ ext' = None
    /\ token' = token + 1
    /\ status' = "idle"
    /\ prints' = {}
    /\ client' = [UnregisterLast(client) EXCEPT !.gen = @ + 1, !.reg = "none"]
    /\ UNCHANGED <<pushes, bridge, n>>

\* reportPendingHandleAfterLocalInput
Reports(x) == x.cand # None /\ (x.cand # None => ~x.cand.reported /\ x.cursor > x.cand.observed)

\* Mutant: every input counts as queued behind the running agent.
InputOnlyQueues(x) == x

\* An input that Pi does not queue ends what was pending.
InputEndsPending(x) ==
    [invalidatePendingTerminal(x) EXCEPT
        !.result = None, !.flow = @ + 1, !.running = FALSE, !.cur = 0, !.settled = 0]

\* Pi queues an input (steer, followUp) only while it is streaming.
Input ==
    /\ pi.phase # "none" /\ Counts
    /\ \E queued \in BOOLEAN :
        LET typed == [ext EXCEPT !.cursor = @ + 1]
            noted == IF Reports(typed) THEN [typed EXCEPT !.cand.reported = TRUE] ELSE typed
        IN /\ queued => pi.phase \in {"running", "ended"}
           /\ ext' = IF queued THEN noted ELSE InputEndsPending(noted)
           /\ pi' = IF queued THEN pi ELSE [pi EXCEPT !.outcome = None]
           /\ client' = IF Reports(typed) THEN Enqueue(client, HandleItem(ext.cand.event))
                        ELSE client
    /\ n' = [Counted(n) EXCEPT !.inputs = @ + 1]
    /\ UNCHANGED <<token, status, prints, pushes, bridge>>

\* Pi becomes busy ahead of its next run, and may come to rest without it.
PiBusy ==
    /\ \/ pi.phase = "idle" /\ pi' = [pi EXCEPT !.phase = "starting"]
          /\ Counts /\ n' = Counted(n)
       \/ pi.phase = "starting" /\ pi' = [pi EXCEPT !.phase = "idle"] /\ n' = n
    /\ UNCHANGED <<ext, token, status, prints, pushes, client, bridge>>

\* pushWorking sets the status; the heartbeat it sends, like that of every
\* other handler and of the interval, is the action Heartbeat.
AgentStart ==
    /\ pi.phase \in {"idle", "starting", "ended"} /\ n.runs < MaxRuns
    /\ \E leaf \in Leaves : ext' = [beginNewLowLevelRun(ext) EXCEPT !.leaf = leaf]
    /\ pi' = [phase |-> "running", outcome |-> None]
    /\ status' = "working"
    /\ n' = [n EXCEPT !.runs = @ + 1]
    /\ UNCHANGED <<token, prints, pushes, client, bridge>>

\* extractLatestAssistantEnd abstracts the last message to its outcome.
\* ensureLoopState takes over the leaf also for a run that is not followed.
AgentEnd ==
    /\ pi.phase = "running"
    /\ \E outcome \in Outcomes, leaf \in Leaves :
        /\ pi' = [pi EXCEPT !.phase = "ended", !.outcome = outcome]
        /\ IF ext.running /\ ext.cur # 0
           THEN /\ ext' = [ext EXCEPT !.leaf = leaf, !.running = FALSE,
                                      !.result = [outcome |-> outcome, gen |-> ext.cur]]
                /\ status' = "working"
           ELSE ext' = [ext EXCEPT !.leaf = leaf] /\ UNCHANGED status
    /\ UNCHANGED <<token, prints, pushes, client, bridge, n>>

\* classifyStoredAssistantText: equal answers on one leaf have one
\* fingerprint; an error has none.
Fingerprint(leaf, outcome) == IF outcome = "error" THEN None ELSE <<leaf, outcome>>
Suppressed(outcome) == Fingerprint(ext.leaf, outcome) \in prints

\* submitTerminalCandidate, submitErrorCandidate
SubmitCandidate(x, outcome, gen) ==
    schedulePendingTerminal([x EXCEPT !.alert =
        [run |-> n.runs, gen |-> gen, flow |-> x.flow, outcome |-> outcome,
         print |-> Fingerprint(x.leaf, outcome)]])

Settle ==
    LET gen == ext.cur
        result == ext.result
        taken == [ext EXCEPT !.result = None, !.cur = 0]
        current == result # None /\ (result # None => result.gen = gen)
        settled == [taken EXCEPT !.settled = gen]
    IN CASE ext.alert # None \/ gen = 0 -> UNCHANGED <<ext, status>>
         [] ext.alert = None /\ gen # 0 /\ ext.running ->
              ext' = [taken EXCEPT !.running = FALSE] /\ UNCHANGED status
         [] ext.alert = None /\ gen # 0 /\ ~ext.running /\ ~current ->
              ext' = taken /\ UNCHANGED status
         [] OTHER ->
              CASE ext.emitted \/ result.outcome = "absent" ->
                     ext' = settled /\ UNCHANGED status
                [] ~ext.emitted /\ result.outcome = "aborted" ->
                     ext' = [settled EXCEPT !.emitted = TRUE] /\ status' = "idle"
                [] OTHER ->
                     /\ ext' = IF Suppressed(result.outcome) THEN settled
                               ELSE SubmitCandidate(settled, result.outcome, gen)
                     /\ UNCHANGED status

\* Pi may settle a run whose end it never announced, and settle twice.
AgentSettled ==
    /\ pi.phase \in {"running", "ended", "idle"}
    /\ pi' = [pi EXCEPT !.phase = "idle"]
    /\ Settle
    /\ UNCHANGED <<token, prints, pushes, client, bridge, n>>

SessionTree ==
    /\ pi.phase \in {"idle", "running", "ended"} /\ Counts
    /\ \E leaf \in Leaves : ext' = [clearBranchSensitiveState(ext) EXCEPT !.leaf = leaf]
    /\ pi' = [pi EXCEPT !.outcome = None]
    /\ token' = token + 1
    /\ n' = Counted(n)
    /\ UNCHANGED <<status, prints, pushes, client, bridge>>

-----------------------------------------------------------------------------
(* The quiet window and the delivery of an alert.                          *)

\* Above every order in use: only their comparison matters.
allocateProducerEventOrder ==
    LET used == {p.order : p \in pushes} \cup {bridge.order}
    IN 1 + CHOOSE o \in used : \A u \in used : u <= o

Stable ==
    /\ ext.timer = ext.flow
    /\ ext.alert # None => ext.settled = ext.alert.gen
    /\ ext.alert # None /\ ~ext.running

\* flushPendingTerminalIfStable, emitTerminalAlert: the request carries a
\* fresh producer id and the next order, and the lease the client has now.
QuietWindowEnds ==
    /\ ext # None
    /\ (ext # None => ext.timer # None)
    /\ CASE ~Stable -> ext' = [ext EXCEPT !.timer = None] /\ UNCHANGED pushes
         [] Stable /\ runtimeHasNewWork ->
              ext' = invalidatePendingTerminal(ext) /\ UNCHANGED pushes
         [] OTHER ->
              IF ext.sending \/ ext.flow # ext.alert.flow
              THEN ext' = [ext EXCEPT !.timer = None] /\ UNCHANGED pushes
              ELSE /\ ext' = [ext EXCEPT !.timer = None, !.sending = TRUE]
                   /\ pushes' = pushes \cup
                        {[alert |-> ext.alert, token |-> token, leaf |-> ext.leaf,
                          flow |-> ext.flow, settled |-> ext.settled, cursor |-> ext.cursor,
                          lease |-> client.lease, order |-> allocateProducerEventOrder,
                          inputs |-> n.inputs, answer |-> None]}
    /\ UNCHANGED <<pi, token, status, prints, client, bridge, n>>

\* The Bridge stores an Event of the owner that is newer than its last.
\* Without a lease the request is never made.
PushArrives(p) ==
    /\ p.answer = None
    /\ IF p.lease # 0 /\ p.lease = bridge.lease /\ p.order > bridge.order
       THEN /\ bridge' = [bridge EXCEPT !.order = p.order,
                            !.events = Append(@, [run |-> p.alert.run, inputs |-> p.inputs])]
            /\ pushes' = (pushes \ {p}) \cup {[p EXCEPT !.answer = Len(bridge.events) + 1]}
       ELSE /\ pushes' = (pushes \ {p}) \cup {[p EXCEPT !.answer = 0]}
            /\ UNCHANGED bridge
    /\ UNCHANGED <<pi, ext, token, status, prints, client, n>>

SameAlert(p) == ext.alert # None /\ (ext.alert # None => ext.alert.run = p.alert.run)
SameBranch(p) == ext # None /\ (ext # None => token = p.token /\ ext.leaf = p.leaf)
\* Mutant: a late answer takes over whatever the flow is now.
SameFlowIgnored(p) == TRUE
SameFlow(p) == SameAlert(p) /\ ext.flow = p.flow /\ ext.settled = p.settled

\* The finally clause.
Released(x, p) == IF SameAlert(p) THEN [x EXCEPT !.sending = FALSE] ELSE x

InputSince(p) == ext.cursor > p.cursor

PushSucceeds(p) ==
    LET cand == [event |-> p.answer, observed |-> p.cursor,
                 reported |-> InputSince(p)]
        marked == IF p.alert.print = None THEN prints ELSE prints \cup {p.alert.print}
    IN CASE ext = None -> UNCHANGED <<ext, status, prints, client>>
         [] ext # None /\ ~SameBranch(p) ->
              ext' = Released(ext, p) /\ UNCHANGED <<status, prints, client>>
         [] OTHER ->
              /\ prints' = marked
              /\ CASE InputSince(p) ->
                        /\ ext' = [Released(ext, p) EXCEPT !.cand = cand]
                        /\ client' = Enqueue(client, HandleItem(p.answer))
                        /\ UNCHANGED status
                   [] ~InputSince(p) /\ SameFlow(p) ->
                        /\ ext' = [ext EXCEPT !.emitted = TRUE, !.alert = None, !.cand = cand]
                        /\ status' = "terminal"
                        /\ UNCHANGED client
                   [] OTHER -> ext' = Released(ext, p) /\ UNCHANGED <<status, client>>

PushFails(p) ==
    ext' = IF ext = None THEN ext
           ELSE IF SameBranch(p) /\ SameFlow(p) THEN schedulePendingTerminal(Released(ext, p))
           ELSE Released(ext, p)

PushAnswered(p) ==
    /\ p.answer # None
    /\ pushes' = pushes \ {p}
    /\ IF p.answer # 0 THEN PushSucceeds(p)
       ELSE PushFails(p) /\ UNCHANGED <<status, prints, client>>
    /\ UNCHANGED <<pi, token, bridge, n>>

Fault == Counts /\ n' = Counted(n)

\* The request or its answer is lost.
PushLost(p) ==
    /\ Fault
    /\ pushes' = pushes \ {p}
    /\ PushFails(p)
    /\ bridge' = IF p.answer \in {None, 0} THEN bridge
                 ELSE [bridge EXCEPT !.lost = @ \cup {p.answer}]
    /\ UNCHANGED <<pi, token, status, prints, client>>

-----------------------------------------------------------------------------
(* The client's mutations of the session, one at a time.                   *)

Popped(c) == [c EXCEPT !.queue = Tail(@)]
Registered(b) == [b EXCEPT !.issued = @ + 1, !.lease = b.issued + 1]
Unsure(b) == [b EXCEPT !.sure = FALSE]
Adopted(c) == [c EXCEPT !.lease = bridge.issued + 1]

\* Mutant: a heartbeat never registers again.
NeverReacquires == FALSE
\* The Bridge answers SESSION_NOT_FOUND, STALE_OWNER, or 401 after a restart.
needsSessionReacquire == client.lease # bridge.lease

RegistrationFailed(c, item) == IF c.gen = item.arg THEN [c EXCEPT !.reg = "retry"] ELSE c
RegistrationDone(c, item) == IF c.gen = item.arg THEN [c EXCEPT !.reg = "done"] ELSE c

IsCandidate(e) == ext # None /\ (ext # None => ext.cand # None /\
                     (ext.cand # None => ext.cand.event = e))
HandleFailed(e) == IF IsCandidate(e) THEN [ext EXCEPT !.cand.reported = FALSE] ELSE ext
HandleDone(e) == IF IsCandidate(e) THEN [ext EXCEPT !.cand = None] ELSE ext

\* The head of the queue, with the Bridge's answer.
Mutation ==
    /\ client.queue # <<>>
    /\ LET item == Head(client.queue)
           c == Popped(client)
           owned == client.lease # 0 /\ client.lease = bridge.lease
       IN CASE item.op = "register" ->
                 /\ bridge' = Registered(bridge)
                 /\ client' = Adopted(RegistrationDone(c, item))
                 /\ UNCHANGED ext
            [] item.op = "unregister" ->
                 /\ bridge' = IF owned THEN [bridge EXCEPT !.lease = 0] ELSE bridge
                 /\ client' = [c EXCEPT !.lease = 0]
                 /\ UNCHANGED ext
            [] item.op = "heartbeat" ->
                 /\ IF client.lease # 0 /\ needsSessionReacquire
                    THEN bridge' = Registered(bridge) /\ client' = Adopted(c)
                    ELSE client' = c /\ UNCHANGED bridge
                 /\ UNCHANGED ext
            [] item.op = "handle" ->
                 /\ client' = c
                 /\ IF owned THEN /\ bridge' = [bridge EXCEPT !.handled = @ \cup {item.arg}]
                                  /\ ext' = HandleDone(item.arg)
                    ELSE ext' = HandleFailed(item.arg) /\ UNCHANGED bridge
    /\ UNCHANGED <<pi, token, status, prints, pushes, n>>

\* Its request or its answer is lost; an unregistration forgets the lease
\* all the same.
MutationLost ==
    /\ Fault
    /\ client.queue # <<>>
    /\ LET item == Head(client.queue)
           c == Popped(client)
           owned == client.lease # 0 /\ client.lease = bridge.lease
       IN CASE item.op = "register" ->
                 /\ bridge' \in {bridge, Unsure(Registered(bridge))}
                 /\ client' = RegistrationFailed(c, item)
                 /\ UNCHANGED ext
            [] item.op = "unregister" ->
                 /\ bridge' \in {Unsure(bridge),
                                 IF owned THEN [bridge EXCEPT !.lease = 0] ELSE bridge}
                 /\ client' = [c EXCEPT !.lease = 0]
                 /\ UNCHANGED ext
            [] item.op = "heartbeat" ->
                 /\ bridge' \in {bridge} \cup
                        (IF client.lease # 0 /\ needsSessionReacquire
                         THEN {Unsure(Registered(bridge))} ELSE {})
                 /\ client' = c
                 /\ UNCHANGED ext
            [] item.op = "handle" ->
                 /\ bridge' \in {bridge} \cup
                        (IF owned THEN {[bridge EXCEPT !.handled = @ \cup {item.arg}]} ELSE {})
                 /\ client' = c
                 /\ ext' = HandleFailed(item.arg)
    /\ UNCHANGED <<pi, token, status, prints, pushes>>

\* attemptRegistration, a second after the last one failed.
RegistrationRetry ==
    /\ client.reg = "retry"
    /\ client' = Enqueue([client EXCEPT !.reg = "queued"], RegisterItem(client.gen))
    /\ UNCHANGED <<pi, ext, token, status, prints, pushes, bridge, n>>

\* Heartbeats are sent all the time a session is open; only one that will
\* find the session lost has an effect on what is modelled here.
Heartbeat ==
    /\ pi.phase # "none"
    /\ client.lease # 0 /\ needsSessionReacquire
    /\ \A i \in DOMAIN client.queue : client.queue[i] # HeartbeatItem
    /\ client' = Enqueue(client, HeartbeatItem)
    /\ UNCHANGED <<pi, ext, token, status, prints, pushes, bridge, n>>

\* The Bridge restarts, or the session's time is up.
BridgeForgets ==
    /\ Fault
    /\ bridge.lease # 0
    /\ bridge' = [bridge EXCEPT !.lease = 0]
    /\ UNCHANGED <<pi, ext, token, status, prints, pushes, client>>

Init ==
    /\ pi = [phase |-> "none", outcome |-> None]
    /\ ext = None
    /\ token = 0 /\ status = "idle" /\ prints = {} /\ pushes = {}
    /\ client = [lease |-> 0, queue |-> <<>>, reg |-> "none", gen |-> 0]
    /\ bridge = [lease |-> 0, issued |-> 0, order |-> 0, events |-> <<>>, handled |-> {},
                 lost |-> {}, sure |-> TRUE]
    /\ n = [runs |-> 0, inputs |-> 0, events |-> 0]

Next ==
    \/ SessionStart \/ SessionShutdown \/ Input \/ PiBusy \/ AgentStart \/ AgentEnd
    \/ AgentSettled \/ SessionTree \/ QuietWindowEnds
    \/ \E p \in pushes : PushArrives(p) \/ PushAnswered(p) \/ PushLost(p)
    \/ Mutation \/ MutationLost \/ RegistrationRetry \/ Heartbeat \/ BridgeForgets

\* Timers fire, and requests are answered or fail.
Fairness ==
    /\ WF_vars(QuietWindowEnds)
    /\ WF_vars(\E p \in pushes : PushArrives(p) \/ PushAnswered(p))
    /\ WF_vars(Mutation) /\ WF_vars(RegistrationRetry) /\ WF_vars(Heartbeat)

Spec == Init /\ [][Next]_vars /\ Fairness

-----------------------------------------------------------------------------
(* Properties.                                                             *)

Pushes ==
    [alert : Alerts, token : Nat, leaf : Leaves, flow : Nat, settled : Nat, cursor : Nat,
     lease : Nat, order : Nat, inputs : Nat, answer : Nat \cup {None}]
Items == [op : {"register", "unregister", "heartbeat", "handle"}, arg : Nat]
Clients == [lease : Nat, queue : Seq(Items), reg : {"none", "queued", "retry", "done"}, gen : Nat]
Bridges ==
    [lease : Nat, issued : Nat, order : Nat, events : Seq([run : Nat, inputs : Nat]),
     handled : SUBSET Nat, lost : SUBSET Nat, sure : BOOLEAN]

\* Type invariant: every variable has its shape.
TypeOK ==
    /\ pi \in [phase : {"none", "idle", "starting", "running", "ended"}, outcome : Outcomes \cup {None}]
    /\ ext \in States \cup {None}
    /\ token \in Nat /\ status \in {"idle", "working", "terminal"}
    /\ prints \subseteq (Leaves \X Outcomes)
    /\ pushes \subseteq Pushes
    /\ client \in Clients /\ bridge \in Bridges
    /\ n \in [runs : Nat, inputs : Nat, events : 0 .. MaxEvents]

\* An alert does not stay pending for ever, although the Bridge forgets the
\* session and answers are lost: heartbeats take the session back and the
\* delivery is tried again (index.ts:289-301, adapter.ts:194-200).
Pending(r) == ext # None /\ (ext # None => ext.alert # None /\ (ext.alert # None => ext.alert.run = r))
AlertsAreDelivered == \A r \in 1..MaxRuns : Pending(r) ~> ~Pending(r)

\* A delivery is begun only for the last run, with the outcome it ended
\* with, when Pi is at rest and neither an unqueued input nor a switch of the
\* branch came since (index.ts:210-218, 332-352).
EventsAreCurrent == [][\A p \in pushes' : (p.answer = None /\ p \notin pushes) =>
    /\ pi.phase = "idle"
    /\ p.alert.run = n.runs /\ p.alert.outcome = pi.outcome]_vars

\* The Bridge gets a second Event for a run only when the answer to an
\* earlier one was lost: a delivery that is tried again has a new producer
\* id (index.ts:210-306, adapter.ts:130-148).
RepeatedAfterLoss ==
    \A i, j \in DOMAIN bridge.events :
        (i < j /\ bridge.events[i].run = bridge.events[j].run) => i \in bridge.lost

\* An Event is reported as handled only after an input that followed it
\* (index.ts:108-115, 265-277).
HandledWasSeen == \A e \in bridge.handled : bridge.events[e].inputs < n.inputs

\* What the next input will acknowledge is never replaced by an older Event,
\* unless an input came while the older one was on its way (index.ts:265-288).
NewestIsHandled == [][
    (/\ ext # None /\ (ext # None => ext.cand # None)
     /\ ext' # None /\ (ext' # None => ext'.cand # None)) =>
        \/ ext'.cand.event >= ext.cand.event
        \/ bridge.events[ext'.cand.event].inputs < n.inputs]_vars

\* The Bridge is told that the agent rests only once it has the Event of the
\* last run, or the run was aborted or is of no interest (index.ts:278-288,
\* 598-627; the test index.test.ts:621).
StatusIsBacked ==
    (pi.phase = "idle" /\ pi.outcome \in {"error", "answer"} /\ status # "working") =>
        \E i \in DOMAIN bridge.events : bridge.events[i].run = n.runs

\* What the Bridge is told of the agent's state, of its user and of its runs is so.
ReportsAreBacked == StatusIsBacked /\ HandledWasSeen /\ RepeatedAfterLoss

\* Late answers, inputs and branch switches notwithstanding, each run's Event is taken
\* up and handled in its turn.
DeliveriesAreInOrder == EventsAreCurrent /\ NewestIsHandled

\* A session that Pi has closed is not left registered once the client has
\* nothing more to do, unless its unregistration, or the answer that would have
\* told the client its lease, was lost (adapter.ts:114-128).
ClosedIsReleased ==
    (pi.phase = "none" /\ client.queue = <<>> /\ bridge.sure) => bridge.lease = 0
==============================================================================
