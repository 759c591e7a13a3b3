----------------------------- MODULE AgentAdapter -----------------------------
(***************************************************************************)
(* One session of the Agent Adapter: who owns it, how its commands reach   *)
(* the owner, how results come back, and the terminal Event that waits     *)
(* until no command is under way.                                          *)
(*                                                                         *)
(*   apps/bridge/src/agent-adapter/registry.ts     the registry            *)
(*   apps/bridge/src/agent-adapter/server.ts       its routes              *)
(*   apps/bridge/src/drivers/pi.ts                 the driver              *)
(*   extensions/pi/src/{adapter,poller,commands}.ts   the agents           *)
(*                                                                         *)
(* Every table of the registry is keyed by the session or by the command,  *)
(* and no operation relates two sessions, so the model has one.  A request *)
(* is handled synchronously, but a poll may wait inside the server and its *)
(* answer travels back while everything else goes on.                      *)
(***************************************************************************)
EXTENDS Naturals, Sequences, FiniteSets

CONSTANTS
    Commands,       \* commands the driver releases to the session
    Agents,         \* driver instances; one that exits never comes back
    Events,         \* terminal Events the owner produces, each another content
    LongPolls,      \* whether a poll may ask to wait (timeout > 0)
    OwnerLeaseTtl,  \* OWNER_LEASE_TTL_MS
    MaxLeases,      \* bound: owner leases created
    MaxRestarts,    \* bound: restarts of the Bridge
    NoAgent, NoCommand, NoEvent

ASSUME NamesAssumption ==
    /\ NoAgent \notin Agents
    /\ NoCommand \notin Commands
    /\ NoEvent \notin Events

ASSUME LimitsAssumption ==
    /\ LongPolls \in BOOLEAN
    /\ OwnerLeaseTtl \in Nat
    /\ MaxLeases \in Nat
    /\ MaxRestarts \in Nat

VARIABLES
    live,       \* sessions: the owner, its lease and the lease's age
    leases,     \* leases created so far; a lease is its number, 0 is none
    queue,      \* commandQueues
    polls,      \* commandWaiters: polls that wait, in order
    bound,      \* commandSessions: commands whose result would be accepted
    inFlight,   \* inFlightCommands: commands handed to a poll
    orphaned,   \* orphanedCommandIds
    results,    \* results kept by the registry
    delayed,    \* delayedTerminalEvents
    retry,      \* a retry of its commit is scheduled
    refused,    \* the write that accepts the delayed Event failed and its commit was
                \* not tried since (history)
    pushed,     \* Events whose reservation became durable
    restarts,   \* restarts so far (bound)
    driver,     \* what the driver knows of each command
    agents,     \* each agent's lease, and the step of its poll loop
    replies,    \* answers to polls that carry a command, on their way
    handled,    \* times an agent acted on a command (history)
    releasedTo  \* the lease that owned the session at release (history)

ownerVars    == <<live, leases>>
commandVars  == <<queue, polls, bound, inFlight, orphaned, results>>
terminalVars == <<delayed, retry, refused, pushed>>
agentVars    == <<agents, replies, handled>>
driverVars   == <<driver, releasedTo>>
adapterVars == <<ownerVars, commandVars, terminalVars, restarts, driverVars, agentVars>>

-----------------------------------------------------------------------------
(* Types *)

Leases == 0..MaxLeases

\* RegisteredSession; `age' is the time since lastOwnerLeaseMonotonic.
Session   == [agent : Agents \union {NoAgent}, lease : Leases,
              age : 0..OwnerLeaseTtl + 1]
NoSession == [agent |-> NoAgent, lease |-> 0, age |-> 0]

\* A poll, and the answer to one, belong to the lease the request carried.
Waiter == [agent : Agents, lease : Leases \ {0}]
Reply  == [agent : Agents, lease : Leases \ {0}, cmd : Commands]

\* The poll loop: between polls, awaiting one, holding a command, holding its
\* result; `cmdLease' is the commandLeases entry.
Agent == [lease : Leases,
          doing : {"idle", "polling", "holding", "answering", "exited"},
          cmd : Commands \union {NoCommand}, cmdLease : Leases]
NewAgent == [lease |-> 0, doing |-> "idle", cmd |-> NoCommand, cmdLease |-> 0]

DriverState == {"new", "waiting", "answered", "unknown"}

HasSession == live # NoSession
Expired == HasSession /\ live.age > OwnerLeaseTtl

\* assertCurrentOwner, for a request of agent a under a lease
Owns(a, lease) == HasSession /\ ~Expired /\ live.agent = a /\ live.lease = lease

QueuedCommands == {queue[i] : i \in DOMAIN queue}

\* hasPendingCommandWork
WorkPending(q, f) == q # <<>> \/ f # {}

-----------------------------------------------------------------------------
(* The delayed terminal Event *)

\* commitPendingTerminal succeeds, or its write fails and a retry is scheduled.
Commit == \/ delayed' = NoEvent /\ retry' = FALSE /\ refused' = FALSE
          \/ retry' = TRUE /\ refused' = FALSE /\ UNCHANGED delayed

\* Mutant: the Event is left to the next push.
FlushNever(q, f) == UNCHANGED <<delayed, retry, refused>>

\* flushDelayedTerminalEvent, with the queue and the commands in flight that
\* the caller leaves behind
Flush(q, f) == IF delayed # NoEvent /\ ~WorkPending(q, f)
               THEN Commit
               ELSE UNCHANGED <<delayed, retry, refused>>

\* cancelTerminalRetry
CancelTerminal == delayed' = NoEvent /\ retry' = FALSE /\ refused' = FALSE

-----------------------------------------------------------------------------
(* Ownership *)

\* The time since the owner last renewed its lease grows.
Tick == /\ HasSession
        /\ live.age <= OwnerLeaseTtl
        /\ live' = [live EXCEPT !.age = @ + 1]
        /\ UNCHANGED <<leases, commandVars, terminalVars, restarts, driverVars, agentVars>>

\* Mutant: the waits for the bound commands go on.
LoseKeepsWaiting == /\ orphaned' = orphaned \union bound
                    /\ bound' = {}
                    /\ queue' = <<>>
                    /\ inFlight' = {}
                    /\ CancelTerminal
                    /\ UNCHANGED <<polls, results, pushed, driver>>

\* loseOwnership: the bound commands become orphans and their waits end with
\* no result, so the driver reports an unknown outcome; polls that wait stay.
LoseOwnership == /\ orphaned' = orphaned \union bound
                 /\ driver' = [c \in Commands |->
                       IF c \in bound /\ driver[c] = "waiting" THEN "unknown" ELSE driver[c]]
                 /\ bound' = {}
                 /\ queue' = <<>>
                 /\ inFlight' = {}
                 /\ CancelTerminal
                 /\ UNCHANGED <<polls, results, pushed>>

\* Any owner route, and every listSessions, revokes a lease that expired.
Expire == /\ Expired
          /\ live' = NoSession
          /\ LoseOwnership
          /\ UNCHANGED <<leases, restarts, releasedTo, agentVars>>

\* register: a new lease for a free session, an expired one being lost first.
\* The answer that tells the agent its lease may be lost.
Register(a, learns) ==
    /\ agents[a].doing # "exited"
    /\ ~HasSession \/ Expired
    /\ leases < MaxLeases
    /\ leases' = leases + 1
    /\ live' = [agent |-> a, lease |-> leases + 1, age |-> 0]
    /\ agents' = IF learns THEN [agents EXCEPT ![a].lease = leases + 1] ELSE agents
    /\ IF Expired THEN LoseOwnership
                  ELSE UNCHANGED <<commandVars, terminalVars, driver>>
    /\ UNCHANGED <<restarts, releasedTo, replies, handled>>

\* register by the live owner, and heartbeat: the lease is renewed.  Another
\* producer context cancels a delayed terminal Event.
Renew(a, contextChanged) ==
    /\ agents[a].doing # "exited"
    /\ Owns(a, agents[a].lease)
    /\ live' = [live EXCEPT !.age = 0]
    /\ IF contextChanged THEN CancelTerminal ELSE UNCHANGED <<delayed, retry, refused>>
    /\ UNCHANGED <<leases, commandVars, pushed, restarts, driverVars, agentVars>>

\* register by the live owner that does not know its lease
LearnLease(a) == /\ agents[a].doing # "exited"
                 /\ HasSession
                 /\ ~Expired
                 /\ live.agent = a
                 /\ agents[a].lease # live.lease
                 /\ live' = [live EXCEPT !.age = 0]
                 /\ agents' = [agents EXCEPT ![a].lease = live.lease]
                 /\ UNCHANGED <<leases, commandVars, terminalVars, restarts, driverVars,
                                replies, handled>>

\* unregisterSession: the request ends the session, or is refused or lost; the
\* agent drops its leases in any case.
Unregister(a) == /\ agents[a].doing # "exited"
                 /\ agents[a].lease # 0
                 /\ \/ /\ Owns(a, agents[a].lease)
                       /\ live' = NoSession
                       /\ LoseOwnership
                    \/ UNCHANGED <<live, commandVars, terminalVars, driver>>
                 /\ agents' = [agents EXCEPT ![a].lease = 0, ![a].cmdLease = 0]
                 /\ UNCHANGED <<leases, restarts, releasedTo, replies, handled>>

-----------------------------------------------------------------------------
(* Commands: the driver's side *)

\* enqueueCommand, when a poll waits: it is answered with the command.
HandOver(c) == /\ replies' = replies \union
                     {[agent |-> polls[1].agent, lease |-> polls[1].lease, cmd |-> c]}
               /\ polls' = Tail(polls)
               /\ inFlight' = inFlight \union {c}
               /\ UNCHANGED queue

\* enqueueCommand.  The session need only be registered: a lease that expired
\* is still there until a request or a sync pass revokes it.
\* The command worker waits for one command at a time.
EnqueueCommand(c) == /\ driver[c] = "new"
                     /\ \A d \in Commands : driver[d] # "waiting"
                     /\ HasSession
                     /\ bound' = bound \union {c}
                     /\ driver' = [driver EXCEPT ![c] = "waiting"]
                     /\ releasedTo' = [releasedTo EXCEPT ![c] = live.lease]
                     /\ IF polls # <<>>
                        THEN HandOver(c)
                        ELSE /\ queue' = Append(queue, c)
                             /\ UNCHANGED <<polls, inFlight, replies>>
                     /\ UNCHANGED <<ownerVars, orphaned, results, terminalVars, restarts,
                                    agents, handled>>

\* abandonCommand, for a bound command; it does not leave the queue.
Abandon(c) == /\ bound' = bound \ {c}
              /\ results' = results \ {c}
              /\ inFlight' = inFlight \ {c}
              /\ Flush(queue, inFlight \ {c})

\* executeCommand: the wait of thirty seconds ends without a result.
DriverTimeout(c) == /\ driver[c] = "waiting"
                    /\ driver' = [driver EXCEPT ![c] = "unknown"]
                    /\ Abandon(c)
                    /\ UNCHANGED <<ownerVars, queue, polls, orphaned, pushed, restarts,
                                   releasedTo, agentVars>>

-----------------------------------------------------------------------------
(* Commands: the agents' side *)

\* Mutant: the command answered with stays at the head of the queue.
PollPeeks(a) == /\ agents[a].doing = "idle"
                /\ Owns(a, agents[a].lease)
                /\ queue # <<>>
                /\ bound' = bound \union {Head(queue)}
                /\ inFlight' = inFlight \union {Head(queue)}
                /\ replies' = replies \union
                      {[agent |-> a, lease |-> agents[a].lease, cmd |-> Head(queue)]}
                /\ agents' = [agents EXCEPT ![a].doing = "polling"]
                /\ UNCHANGED <<ownerVars, queue, polls, orphaned, results, terminalVars,
                               restarts, driverVars, handled>>

\* GET commands, answered from the queue: the command is bound and in flight.
Poll(a) == /\ agents[a].doing = "idle"
           /\ Owns(a, agents[a].lease)
           /\ queue # <<>>
           /\ queue' = Tail(queue)
           /\ bound' = bound \union {Head(queue)}
           /\ inFlight' = inFlight \union {Head(queue)}
           /\ replies' = replies \union
                 {[agent |-> a, lease |-> agents[a].lease, cmd |-> Head(queue)]}
           /\ agents' = [agents EXCEPT ![a].doing = "polling"]
           /\ UNCHANGED <<ownerVars, polls, orphaned, results, terminalVars, restarts,
                          driverVars, handled>>

\* GET commands with a timeout, and nothing in the queue: the poll waits.
WaitForCommand(a) == /\ LongPolls
                     /\ agents[a].doing = "idle"
                     /\ Owns(a, agents[a].lease)
                     /\ queue = <<>>
                     /\ polls' = Append(polls, [agent |-> a, lease |-> agents[a].lease])
                     /\ agents' = [agents EXCEPT ![a].doing = "polling"]
                     /\ UNCHANGED <<ownerVars, queue, bound, inFlight, orphaned, results,
                                    terminalVars, restarts, driverVars, replies, handled>>

\* The timer of a poll that waits: answered with no command.
PollTimeout(i) == /\ i \in DOMAIN polls
                  /\ polls' = [k \in 1..Len(polls) - 1 |->
                                  IF k < i THEN polls[k] ELSE polls[k + 1]]
                  /\ agents' = IF agents[polls[i].agent].doing = "polling"
                               THEN [agents EXCEPT ![polls[i].agent].doing = "idle"]
                               ELSE agents
                  /\ UNCHANGED <<ownerVars, queue, bound, inFlight, orphaned, results,
                                 terminalVars, restarts, driverVars, replies, handled>>

\* pollCommands returns a command; it remembers the lease of its request.
Receive(a) == /\ agents[a].doing = "polling"
              /\ \E r \in replies :
                    /\ r.agent = a
                    /\ replies' = replies \ {r}
                    /\ agents' = [agents EXCEPT ![a].doing = "holding",
                                                ![a].cmd = r.cmd,
                                                ![a].cmdLease = r.lease]
              /\ UNCHANGED <<ownerVars, commandVars, terminalVars, restarts, driverVars,
                             handled>>

\* An answer is lost on the way, or its poller was stopped in the meantime.
LoseReply(r) == /\ r \in replies
                /\ replies' = replies \ {r}
                /\ agents' = IF agents[r.agent].doing = "polling"
                             THEN [agents EXCEPT ![r.agent].doing = "idle"] ELSE agents
                /\ UNCHANGED <<ownerVars, commandVars, terminalVars, restarts, driverVars,
                               handled>>

\* onCommand: the agent acts on the command; with no certain outcome the
\* command is abandoned without a result.
Handle(a, certain) ==
    /\ agents[a].doing = "holding"
    /\ handled' = [handled EXCEPT ![agents[a].cmd] = @ + 1]
    /\ agents' = IF certain THEN [agents EXCEPT ![a].doing = "answering"]
                 ELSE [agents EXCEPT ![a].doing = "idle", ![a].cmd = NoCommand,
                                     ![a].cmdLease = 0]
    /\ UNCHANGED <<ownerVars, commandVars, terminalVars, restarts, driverVars, replies>>

\* submitResult is over, with whatever answer.
Submitted(a) == agents' = [agents EXCEPT ![a].doing = "idle", ![a].cmd = NoCommand,
                                         ![a].cmdLease = 0]

\* Mutant: whoever holds a bound command may answer it.
AcceptableFromAnyone(a) == /\ agents[a].cmd \notin orphaned
                           /\ agents[a].cmd \in bound

\* POST result: the lease is the current owner's, the command no orphan and
\* still bound.
Acceptable(a) == /\ Owns(a, agents[a].cmdLease)
                 /\ agents[a].cmd \notin orphaned
                 /\ agents[a].cmd \in bound

\* resolveCommand
SubmitResult(a) == LET c == agents[a].cmd IN
    /\ agents[a].doing = "answering"
    /\ Acceptable(a)
    /\ results' = results \union {c}
    /\ inFlight' = inFlight \ {c}
    /\ Flush(queue, inFlight \ {c})
    /\ bound' = bound \ {c}
    /\ driver' = [driver EXCEPT ![c] = IF @ = "waiting" THEN "answered" ELSE @]
    /\ Submitted(a)
    /\ UNCHANGED <<ownerVars, queue, polls, orphaned, pushed, restarts, releasedTo,
                   replies, handled>>

\* The submission is refused (409, 400), or the request fails.
ResultRefused(a) == /\ agents[a].doing = "answering"
                    /\ Submitted(a)
                    /\ UNCHANGED <<ownerVars, commandVars, terminalVars, restarts,
                                   driverVars, replies, handled>>

\* The agent's process ends.
Exit(a) == /\ agents[a].doing # "exited"
           /\ agents' = [agents EXCEPT ![a] = [NewAgent EXCEPT !.doing = "exited"]]
           /\ UNCHANGED <<ownerVars, commandVars, terminalVars, restarts, driverVars,
                          replies, handled>>

-----------------------------------------------------------------------------
(* Terminal Events *)

\* Event e becomes the delayed one, then its acceptance is written, which may fail,
\* then it is committed unless a command is under way; `timer' is the retry that was
\* scheduled before and is still there.
Stage(e, timer) ==
    \/ delayed' = e /\ retry' = timer /\ refused' = TRUE /\ UNCHANGED pushed
    \/ /\ pushed' = pushed \union {e}
       /\ refused' = FALSE
       /\ \/ WorkPending(queue, inFlight) /\ delayed' = e /\ retry' = timer
          \/ ~WorkPending(queue, inFlight) /\ delayed' = NoEvent /\ retry' = FALSE
          \/ ~WorkPending(queue, inFlight) /\ delayed' = e /\ retry' = TRUE

\* A repetition of the delayed Event is accepted as it is.
PushAgain(e) ==
    /\ delayed = e
    /\ IF WorkPending(queue, inFlight)
       THEN refused' = FALSE /\ UNCHANGED <<delayed, retry>>
       ELSE Commit
    /\ UNCHANGED pushed

\* One whose reservation is durable is taken from it, whatever else is delayed.
PushReserved(e) == e \in pushed /\ delayed # e /\ Stage(e, retry)

\* A new Event is reserved once an older one is cancelled; the reservation may fail.
PushNew(e) == /\ e \notin pushed
              /\ delayed # e
              /\ \/ CancelTerminal /\ UNCHANGED pushed
                 \/ Stage(e, FALSE)

\* POST events.  The failing cancellation of an older Event changes nothing.
PushEvent(a, e) == /\ agents[a].doing # "exited"
                   /\ Owns(a, agents[a].lease)
                   /\ PushAgain(e) \/ PushReserved(e) \/ PushNew(e)
                   /\ UNCHANGED <<ownerVars, commandVars, restarts, driverVars, agentVars>>

\* The retry timer fires: the commit is tried again unless commands are under
\* way again.
RetryTerminal == /\ retry
                 /\ IF WorkPending(queue, inFlight)
                    THEN retry' = FALSE /\ UNCHANGED <<delayed, refused>>
                    ELSE Commit
                 /\ UNCHANGED <<ownerVars, commandVars, pushed, restarts, driverVars,
                                agentVars>>

-----------------------------------------------------------------------------
\* The Bridge stops or crashes: dispose, and a new registry without sessions.
\* The polls that waited are answered with no command or broken off.
Restart == /\ restarts < MaxRestarts
           /\ restarts' = restarts + 1
           /\ live' = NoSession
           /\ queue' = <<>>
           /\ polls' = <<>>
           /\ bound' = {}
           /\ inFlight' = {}
           /\ orphaned' = {}
           /\ results' = {}
           /\ CancelTerminal
           /\ driver' = [c \in Commands |->
                 IF driver[c] = "waiting" THEN "unknown" ELSE driver[c]]
           /\ agents' = [a \in Agents |->
                 IF \E i \in DOMAIN polls : polls[i].agent = a /\ agents[a].doing = "polling"
                 THEN [agents[a] EXCEPT !.doing = "idle"] ELSE agents[a]]
           /\ UNCHANGED <<leases, pushed, releasedTo, replies, handled>>

AdapterInit == /\ live = NoSession
               /\ leases = 0
               /\ queue = <<>>
               /\ polls = <<>>
               /\ bound = {}
               /\ inFlight = {}
               /\ orphaned = {}
               /\ results = {}
               /\ delayed = NoEvent
               /\ retry = FALSE
               /\ refused = FALSE
               /\ pushed = {}
               /\ restarts = 0
               /\ driver = [c \in Commands |-> "new"]
               /\ agents = [a \in Agents |-> NewAgent]
               /\ replies = {}
               /\ handled = [c \in Commands |-> 0]
               /\ releasedTo = [c \in Commands |-> 0]

OwnerSteps == \/ Tick
              \/ Expire
              \/ Restart
              \/ \E a \in Agents : \/ \E b \in BOOLEAN : Register(a, b) \/ Renew(a, b)
                                  \/ LearnLease(a)
                                  \/ Unregister(a)

CommandSteps == \/ \E c \in Commands : EnqueueCommand(c) \/ DriverTimeout(c)
                \/ \E i \in DOMAIN polls : PollTimeout(i)
                \/ \E r \in replies : LoseReply(r)
                \/ \E a \in Agents : \/ Poll(a) \/ WaitForCommand(a) \/ Receive(a)
                                    \/ Handle(a, TRUE) \/ Handle(a, FALSE)
                                    \/ SubmitResult(a) \/ ResultRefused(a) \/ Exit(a)

EventSteps == \/ RetryTerminal
              \/ \E a \in Agents, e \in Events : PushEvent(a, e)

AdapterNext == OwnerSteps \/ CommandSteps \/ EventSteps

AdapterSpec == AdapterInit /\ [][AdapterNext]_adapterVars

-----------------------------------------------------------------------------
(* Properties *)

\* Every table has its type; a command in flight is bound, no command is both
\* queued twice or queued and in flight, and nothing is bound without an owner
\* (registry.ts: markCommandInFlight, clearCommandInFlight, loseOwnership).
AdapterTypeOK ==
    /\ live \in Session
    /\ HasSession => live.agent \in Agents /\ live.lease # 0
    /\ leases \in Leases
    /\ queue \in Seq(Commands)
    /\ \A i, k \in DOMAIN queue : queue[i] = queue[k] => i = k
    /\ polls \in Seq(Waiter)
    /\ bound \subseteq Commands
    /\ inFlight \subseteq bound
    /\ inFlight \intersect QueuedCommands = {}
    /\ bound # {} \/ delayed # NoEvent => HasSession
    /\ orphaned \subseteq Commands
    /\ results \subseteq Commands
    /\ delayed \in Events \union {NoEvent}
    /\ retry \in BOOLEAN
    /\ refused \in BOOLEAN
    /\ pushed \subseteq Events
    /\ restarts \in 0..MaxRestarts
    /\ driver \in [Commands -> DriverState]
    /\ agents \in [Agents -> Agent]
    /\ replies \subseteq Reply
    /\ handled \in [Commands -> Nat]
    /\ releasedTo \in [Commands -> Leases]

\* A command is handed only to the lease that owned the session when the
\* command was released, never to an earlier or a later owner: losing the
\* session clears "all live orphans (queue, in-flight, poll/result waiters,
\* terminal Event)" (registry.ts:278), and GET commands checks the owner.
\* Does not hold of polls that wait: README, finding 3.
CommandsReachTheirOwner == \A r \in replies : r.lease = releasedTo[r.cmd]

\* The driver never waits for a command that the registry has dropped: while it
\* waits, the session has the owner the command was released to, and the command
\* is queued or in flight and its result would be accepted (loseOwnership and
\* dispose settle the waits).
WaitingIsBound ==
    \A c \in Commands : driver[c] = "waiting" =>
        /\ HasSession /\ releasedTo[c] = live.lease
        /\ c \in bound
        /\ c \in QueuedCommands \union inFlight

\* A delayed terminal Event always waits for something that will release it: a
\* command that is queued or in flight, a scheduled retry, or the repetition by its
\* producer, who was told that it was not accepted (every path that ends command work
\* calls flushDelayedTerminalEvent; the Event is delayed before its acceptance is
\* written, registry.ts:526 and 535, and that failure schedules no retry: README,
\* finding 11).
DelayedIsGated == delayed # NoEvent => retry \/ WorkPending(queue, inFlight) \/ refused

\* The driver takes an answer only from the lease that owned the session when
\* the command was released, even if another agent was given the command
\* (requireCurrentOwner on POST result, with the lease of the dequeue).
AnswersComeFromTheOwner ==
    [][\A c \in Commands : driver[c] = "waiting" /\ driver'[c] = "answered" =>
          \E a \in Agents : /\ agents[a].doing = "answering"
                            /\ agents[a].cmd = c
                            /\ agents[a].cmdLease = releasedTo[c]]_adapterVars

\* "abandon clears in-flight work and rejects late results without storing
\* terminal evidence" (test/agent-adapter/registry.test.ts:1165): a command the
\* driver gave up is neither in flight nor answered afterwards.  Does not hold:
\* README, finding 4.
AbandonIsFinal ==
    \A c \in Commands : driver[c] = "unknown" => c \notin inFlight \union results

Held(c) == \/ \E r \in replies : r.cmd = c
           \/ \E a \in Agents : agents[a].doing = "holding" /\ agents[a].cmd = c

Place(c) == IF c \in QueuedCommands THEN "offered"
            ELSE IF Held(c) THEN "taken"
            ELSE IF handled[c] > 0 THEN "handled"
            ELSE IF driver[c] = "new" THEN "new"
            ELSE "dropped"

Handover == INSTANCE CommandHandover WITH
    place <- [c \in Commands |-> Place(c)],
    verdict <- [c \in Commands |-> IF driver[c] = "new" THEN "none" ELSE driver[c]]

\* The adapter, with its queues, leases, polls, timeouts, lost answers, exits
\* and restarts, implements the handover: each command is taken once, handled
\* once, and answered only after it was handled.
ImplementsHandover == Handover!Spec
===============================================================================
